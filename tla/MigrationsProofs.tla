---------------------------- MODULE MigrationsProofs --------------------------
(* Proofs about Migrations, for any number of runs by any number of           *)
(* processes: what is committed is the schema of the recorded revision, and   *)
(* who is alone does not fail.                                                *)
EXTENDS MigrationsProps, SequenceTheorems, TLAPS

----------------------------------------------------------------------------
(* What scripts make of a schema.                                             *)

\* f says what the first k statements make of s
Follows(f, k, ops, s) ==
    f = [i \in 0 .. k |-> IF i = 0 THEN s ELSE Applied(ops[i], f[i - 1])]

(* One more statement can be followed.                                        *)
LEMMA FollowsFurther ==
    ASSUME NEW ops, NEW s, NEW k \in Nat, \E f : Follows(f, k, ops, s)
    PROVE  \E f : Follows(f, k + 1, ops, s)
<1>1. PICK f : Follows(f, k, ops, s)
  OBVIOUS
<1> DEFINE g == [i \in 0 .. k + 1 |-> IF i = k + 1 THEN Applied(ops[i], f[k]) ELSE f[i]]
<1>2. \A i \in 0 .. k : g[i] = f[i]
  OBVIOUS
<1>3. \A i \in 0 .. k + 1 : g[i] = IF i = 0 THEN s ELSE Applied(ops[i], g[i - 1])
  <2> TAKE i \in 0 .. k + 1
  <2>1. CASE i = k + 1
    BY <1>2, <2>1
  <2>2. CASE i \in 0 .. k
    <3>1. f[i] = IF i = 0 THEN s ELSE Applied(ops[i], f[i - 1])
      BY <1>1, <2>2 DEF Follows
    <3> QED BY <1>2, <2>2, <3>1
  <2> QED BY <2>1, <2>2
<1>4. g = [i \in 0 .. k + 1 |-> g[i]]
  OBVIOUS
<1> HIDE DEF g
<1>5. Follows(g, k + 1, ops, s)
  BY <1>3, <1>4 DEF Follows
<1> QED BY <1>5

(* As many steps as the longest script has statements.                        *)
LEMMA EightSteps ==
    ASSUME NEW T, 0 \in T, \A k \in 0 .. 7 : k \in T => k + 1 \in T
    PROVE  \A k \in 0 .. 8 : k \in T
<1>1. {1, 2, 3, 4} \subseteq T
  <2>1. 0 + 1 \in T
    OBVIOUS
  <2>2. 1 + 1 \in T
    BY <2>1
  <2>3. 2 + 1 \in T
    BY <2>2
  <2>4. 3 + 1 \in T
    BY <2>3
  <2> QED BY <2>1, <2>2, <2>3, <2>4
<1>2. {5, 6, 7, 8} \subseteq T
  <2>1. 4 + 1 \in T
    BY <1>1
  <2>2. 5 + 1 \in T
    BY <2>1
  <2>3. 6 + 1 \in T
    BY <2>2
  <2>4. 7 + 1 \in T
    BY <2>3
  <2> QED BY <2>1, <2>2, <2>3, <2>4
<1> QED BY <1>1, <1>2

(* After is what its definition says of it, for scripts as long as these.     *)
LEMMA AfterFollows ==
    ASSUME NEW ops, NEW s, Len(ops) \in 0 .. 8
    PROVE  /\ After(ops, s)[0] = s
           /\ \A i \in 1 .. Len(ops) :
                 After(ops, s)[i] = Applied(ops[i], After(ops, s)[i - 1])
<1> DEFINE T == {k \in 0 .. 8 : \E f : Follows(f, k, ops, s)}
<1>1. 0 \in T
  <2>1. Follows([i \in 0 .. 0 |-> s], 0, ops, s)
    BY DEF Follows
  <2> QED BY <2>1
<1>2. \A k \in 0 .. 7 : k \in T => k + 1 \in T
  BY FollowsFurther
<1>3. \A k \in 0 .. 8 : k \in T
  <2> HIDE DEF T
  <2> QED BY <1>1, <1>2, EightSteps
<1>4. \E f : Follows(f, Len(ops), ops, s)
  BY <1>3
<1>5. Follows(After(ops, s), Len(ops), ops, s)
  BY <1>4 DEF Follows, After
<1> QED BY <1>5 DEF Follows

(* Statement st finds what it needs, and nothing that must not be there.      *)
PossibleIn(st, s) == st.needs \subseteq s /\ st.absent \intersect s = {}

\* statement st can be executed on s and makes it t
Does(st, s, t) == PossibleIn(st, s) /\ Applied(st, s) = t

\* so can each statement of a script in turn
Leads(ops, s, t) ==
    /\ After(ops, s)[Len(ops)] = t
    /\ \A i \in 1 .. Len(ops) : PossibleIn(ops[i], After(ops, s)[i - 1])

(* The index before the one of a statement.                                   *)
LEMMA Preceding ==
    ASSUME NEW n \in 0 .. 8, NEW i \in 1 .. n
    PROVE  i - 1 \in 0 .. 8 /\ i - 1 <= n /\ (i - 1) + 1 = i
  OBVIOUS

(* The lengths of two scripts that have at most eight statements together.    *)
LEMMA Summands ==
    ASSUME NEW x \in Nat, NEW y \in Nat, x + y <= 8
    PROVE  x \in 0 .. 8 /\ y \in 0 .. 8 /\ x + y \in 0 .. 8
  OBVIOUS

(* A script leads where its statements lead one by one; g[i] is the schema    *)
(* before statement i.                                                        *)
LEMMA StepsLead ==
    ASSUME NEW ops, Len(ops) \in 0 .. 8, NEW g,
           \A i \in 1 .. Len(ops) : Does(ops[i], g[i], g[i + 1])
    PROVE  Leads(ops, g[1], g[Len(ops) + 1])
<1> DEFINE a == After(ops, g[1])
           T == {k \in 0 .. 8 : k <= Len(ops) => a[k] = g[k + 1]}
<1>1. /\ a[0] = g[1]
      /\ \A i \in 1 .. Len(ops) : a[i] = Applied(ops[i], a[i - 1])
  BY AfterFollows
<1> HIDE DEF a
<1>2. \A k \in 0 .. 7 : k \in T => k + 1 \in T
  <2> SUFFICES ASSUME NEW k \in 0 .. 7, k \in T, k + 1 <= Len(ops)
               PROVE  a[k + 1] = g[(k + 1) + 1]
    OBVIOUS
  <2>1. a[k] = g[k + 1]
    OBVIOUS
  <2>2. k + 1 \in 1 .. Len(ops) /\ (k + 1) - 1 = k
    OBVIOUS
  <2>3. a[k + 1] = Applied(ops[k + 1], a[k])
    BY <1>1, <2>2
  <2>4. Does(ops[k + 1], g[k + 1], g[(k + 1) + 1])
    BY <2>2
  <2> QED BY <2>1, <2>3, <2>4 DEF Does
<1>3. 0 \in T
  BY <1>1
<1>4. \A k \in 0 .. 8 : k \in T
  <2> HIDE DEF T
  <2> QED BY <1>2, <1>3, EightSteps
<1>5. ASSUME NEW i \in 1 .. Len(ops) PROVE PossibleIn(ops[i], a[i - 1])
  <2>1. i - 1 \in 0 .. 8 /\ i - 1 <= Len(ops) /\ (i - 1) + 1 = i
    <3> HIDE DEF T
    <3> QED BY Preceding
  <2>2. a[i - 1] = g[i]
    BY <1>4, <2>1
  <2>3. Does(ops[i], g[i], g[i + 1])
    OBVIOUS
  <2> QED BY <2>2, <2>3 DEF Does
<1>6. a[Len(ops)] = g[Len(ops) + 1]
  <2>1. Len(ops) \in T
    <3> HIDE DEF T
    <3> QED BY <1>4
  <2> QED BY <2>1
<1> QED BY <1>5, <1>6 DEF Leads, a

(* Scripts one after the other.                                               *)
LEMMA ConcatLeads ==
    ASSUME NEW S, NEW a \in Seq(S), NEW b \in Seq(S), Len(a) + Len(b) <= 8,
           NEW s, NEW t, NEW u, Leads(a, s, t), Leads(b, t, u)
    PROVE  Leads(a \o b, s, u)
<1> DEFINE p == After(a, s)
           q == After(b, t)
           g == [i \in 1 .. Len(a) + Len(b) + 1 |->
                   IF i <= Len(a) THEN p[i - 1] ELSE q[i - Len(a) - 1]]
           ab == a \o b
<1>1. /\ Len(a) \in Nat /\ Len(b) \in Nat /\ Len(ab) = Len(a) + Len(b)
      /\ \A i \in 1 .. Len(a) : ab[i] = a[i]
      /\ \A i \in 1 .. Len(ab) : i > Len(a) => ab[i] = b[i - Len(a)]
  <2>1. Len(a) \in Nat /\ Len(b) \in Nat
    BY LenProperties
  <2>2. /\ Len(ab) = Len(a) + Len(b)
        /\ \A i \in 1 .. Len(a) + Len(b) :
              ab[i] = IF i <= Len(a) THEN a[i] ELSE b[i - Len(a)]
    BY ConcatProperties
  <2> HIDE DEF ab
  <2>3. \A i \in 1 .. Len(a) : ab[i] = a[i]
    BY <2>1, <2>2
  <2>4. \A i \in 1 .. Len(ab) : i > Len(a) => ab[i] = b[i - Len(a)]
    BY <2>1, <2>2
  <2> QED BY <2>1, <2>2, <2>3, <2>4
<1> HIDE DEF ab
<1>2. Len(a) \in 0 .. 8 /\ Len(b) \in 0 .. 8 /\ Len(ab) \in 0 .. 8
  <2>1. Len(a) \in Nat /\ Len(b) \in Nat
    BY <1>1
  <2>2. Len(a) \in 0 .. 8 /\ Len(b) \in 0 .. 8 /\ Len(a) + Len(b) \in 0 .. 8
    BY <2>1, Summands
  <2> QED BY <1>1, <2>2
<1>3. p[0] = s /\ \A i \in 1 .. Len(a) : p[i] = Applied(a[i], p[i - 1])
  BY <1>2, AfterFollows
<1>4. q[0] = t /\ \A i \in 1 .. Len(b) : q[i] = Applied(b[i], q[i - 1])
  BY <1>2, AfterFollows
<1>5. p[Len(a)] = t /\ \A i \in 1 .. Len(a) : PossibleIn(a[i], p[i - 1])
  BY DEF Leads
<1>6. q[Len(b)] = u /\ \A i \in 1 .. Len(b) : PossibleIn(b[i], q[i - 1])
  BY DEF Leads
<1> HIDE DEF p, q
<1>7. g[1] = s
  <2>1. CASE Len(a) = 0
    BY <1>1, <1>3, <1>4, <1>5, <2>1
  <2>2. CASE Len(a) # 0
    BY <1>1, <1>3, <2>2
  <2> QED BY <2>1, <2>2
<1>8. g[Len(ab) + 1] = u
  BY <1>1, <1>6
<1>9. ASSUME NEW i \in 1 .. Len(ab) PROVE Does(ab[i], g[i], g[i + 1])
  <2>1. CASE i <= Len(a)
    <3>1. i \in 1 .. Len(a)
      BY <1>1, <2>1
    <3>2. g[i] = p[i - 1] /\ ab[i] = a[i]
      BY <1>1, <3>1
    <3>3. g[i + 1] = p[i]
      <4>1. CASE i + 1 <= Len(a)
        BY <1>1, <3>1, <4>1
      <4>2. CASE i = Len(a)
        BY <1>1, <1>4, <1>5, <4>2
      <4> QED BY <1>1, <3>1, <4>1, <4>2
    <3>4. p[i] = Applied(a[i], p[i - 1]) /\ PossibleIn(a[i], p[i - 1])
      BY <1>3, <1>5, <3>1
    <3> HIDE DEF g
    <3> QED BY <3>2, <3>3, <3>4 DEF Does
  <2>2. CASE i > Len(a)
    <3> DEFINE j == i - Len(a)
    <3>1. j \in 1 .. Len(b)
      BY <1>1, <2>2
    <3>2. g[i] = q[j - 1] /\ g[i + 1] = q[j]
      BY <1>1, <2>2
    <3>3. ab[i] = b[j]
      BY <1>1, <2>2
    <3>4. q[j] = Applied(b[j], q[j - 1]) /\ PossibleIn(b[j], q[j - 1])
      BY <1>4, <1>6, <3>1
    <3> HIDE DEF g, j
    <3> QED BY <3>2, <3>3, <3>4 DEF Does
  <2> QED BY <1>1, <2>1, <2>2
<1> HIDE DEF g
<1>10. Leads(ab, g[1], g[Len(ab) + 1])
  BY <1>2, <1>9, StepsLead
<1> QED BY <1>7, <1>8, <1>10 DEF ab

(* A script begins where it is told, each of its statements can be executed,  *)
(* and the last one arrives.                                                  *)
LEMMA LeadsFurther ==
    ASSUME NEW ops, NEW s, NEW t, Len(ops) \in 1 .. 8, Leads(ops, s, t),
           NEW i \in 1 .. Len(ops)
    PROVE  /\ After(ops, s)[0] = s
           /\ PossibleIn(ops[i], After(ops, s)[i - 1])
           /\ Applied(ops[i], After(ops, s)[i - 1]) = After(ops, s)[i]
           /\ After(ops, s)[Len(ops)] = t
  BY AfterFollows DEF Leads

(* A script of one, two, four or seven statements.                            *)

(* A script of one statement.                                                 *)
LEMMA OneLead ==
    ASSUME NEW ops, NEW s0, NEW s1,
           Len(ops) = 1,
           Does(ops[1], s0, s1)
    PROVE  Leads(ops, s0, s1)
<1> DEFINE g == <<s0, s1>>
<1>1. /\ g[1] = s0
      /\ g[2] = s1
  OBVIOUS
<1> HIDE DEF g
<1>2. ASSUME NEW i \in 1 .. Len(ops) PROVE Does(ops[i], g[i], g[i + 1])
  <2>1. CASE i = 1
    BY <1>1, <2>1
  <2> QED BY <2>1
<1>3. Len(ops) \in 0 .. 8 /\ Len(ops) + 1 = 2
  OBVIOUS
<1>4. Leads(ops, g[1], g[Len(ops) + 1])
  BY <1>2, <1>3, StepsLead
<1> QED BY <1>1, <1>3, <1>4

(* A script of two statements.                                                *)
LEMMA TwoLead ==
    ASSUME NEW ops, NEW s0, NEW s1, NEW s2,
           Len(ops) = 2,
           Does(ops[1], s0, s1), Does(ops[2], s1, s2)
    PROVE  Leads(ops, s0, s2)
<1> DEFINE g == <<s0, s1, s2>>
<1>1. /\ g[1] = s0
      /\ g[2] = s1
      /\ g[3] = s2
  OBVIOUS
<1> HIDE DEF g
<1>2. ASSUME NEW i \in 1 .. Len(ops) PROVE Does(ops[i], g[i], g[i + 1])
  <2>1. CASE i = 1
    BY <1>1, <2>1
  <2>2. CASE i = 2
    BY <1>1, <2>2
  <2> QED BY <2>1, <2>2
<1>3. Len(ops) \in 0 .. 8 /\ Len(ops) + 1 = 3
  OBVIOUS
<1>4. Leads(ops, g[1], g[Len(ops) + 1])
  BY <1>2, <1>3, StepsLead
<1> QED BY <1>1, <1>3, <1>4

(* A script of four statements.                                               *)
LEMMA FourLead ==
    ASSUME NEW ops, NEW s0, NEW s1, NEW s2, NEW s3, NEW s4,
           Len(ops) = 4,
           Does(ops[1], s0, s1), Does(ops[2], s1, s2), Does(ops[3], s2, s3),
           Does(ops[4], s3, s4)
    PROVE  Leads(ops, s0, s4)
<1> DEFINE g == <<s0, s1, s2, s3, s4>>
<1>1. /\ g[1] = s0
      /\ g[2] = s1
      /\ g[3] = s2
      /\ g[4] = s3
      /\ g[5] = s4
  OBVIOUS
<1> HIDE DEF g
<1>2. ASSUME NEW i \in 1 .. Len(ops) PROVE Does(ops[i], g[i], g[i + 1])
  <2>1. CASE i = 1
    BY <1>1, <2>1
  <2>2. CASE i = 2
    BY <1>1, <2>2
  <2>3. CASE i = 3
    BY <1>1, <2>3
  <2>4. CASE i = 4
    BY <1>1, <2>4
  <2> QED BY <2>1, <2>2, <2>3, <2>4
<1>3. Len(ops) \in 0 .. 8 /\ Len(ops) + 1 = 5
  OBVIOUS
<1>4. Leads(ops, g[1], g[Len(ops) + 1])
  BY <1>2, <1>3, StepsLead
<1> QED BY <1>1, <1>3, <1>4

(* A script of seven statements.                                              *)
LEMMA SevenLead ==
    ASSUME NEW ops, NEW s0, NEW s1, NEW s2, NEW s3, NEW s4, NEW s5, NEW s6, NEW s7,
           Len(ops) = 7,
           Does(ops[1], s0, s1), Does(ops[2], s1, s2), Does(ops[3], s2, s3),
           Does(ops[4], s3, s4), Does(ops[5], s4, s5), Does(ops[6], s5, s6),
           Does(ops[7], s6, s7)
    PROVE  Leads(ops, s0, s7)
<1> DEFINE g == <<s0, s1, s2, s3, s4, s5, s6, s7>>
<1>1. /\ g[1] = s0
      /\ g[2] = s1
      /\ g[3] = s2
      /\ g[4] = s3
      /\ g[5] = s4
      /\ g[6] = s5
      /\ g[7] = s6
      /\ g[8] = s7
  OBVIOUS
<1> HIDE DEF g
<1>2. ASSUME NEW i \in 1 .. Len(ops) PROVE Does(ops[i], g[i], g[i + 1])
  <2>1. CASE i = 1
    BY <1>1, <2>1
  <2>2. CASE i = 2
    BY <1>1, <2>2
  <2>3. CASE i = 3
    BY <1>1, <2>3
  <2>4. CASE i = 4
    BY <1>1, <2>4
  <2>5. CASE i = 5
    BY <1>1, <2>5
  <2>6. CASE i = 6
    BY <1>1, <2>6
  <2>7. CASE i = 7
    BY <1>1, <2>7
  <2> QED BY <2>1, <2>2, <2>3, <2>4, <2>5, <2>6, <2>7
<1>3. Len(ops) \in 0 .. 8 /\ Len(ops) + 1 = 8
  OBVIOUS
<1>4. Leads(ops, g[1], g[Len(ops) + 1])
  BY <1>2, <1>3, StepsLead
<1> QED BY <1>1, <1>3, <1>4

----------------------------------------------------------------------------
(* What the scripts make of an empty database.                                *)

WithTmp == {Table("tmp")}

WithUsers == WithTmp \union {Table("users"), <<"users", "telegram_id unique">>}

WithLogins == WithUsers \union {<<"users", "last_login_at">>}

WithSessions ==
    WithLogins \union {Table("sessions"), <<"sessions", "users">>,
                       <<"sessions", "index user_id">>}

(* The schema that the scripts up to revision n make.                         *)
Made(n) ==
    CASE n = 0 -> {}
      [] n = 1 -> WithTmp
      [] n = 2 -> WithUsers \union {<<"users", "username not null">>}
      [] n = 3 -> WithLogins
      [] n = 4 -> WithSessions \union
                    {<<"sessions", "user_id bigint">>, <<"sessions", "token_hash key">>,
                     <<"sessions", "index expires_at">>, <<"sessions", "index revoked_at">>}
      [] n = 5 -> WithSessions \union
                    {<<"sessions", "user_id integer">>,
                     <<"sessions", "unique index token_hash">>,
                     Table("spaces"), Table("space_memberships"),
                     <<"space_memberships", "spaces">>, <<"space_memberships", "users">>}

(* The objects of A belong to alembic_version.                                *)
OfVersion(A) == \A o \in A : o[1] = "alembic_version" /\ o[2] \notin Tables

(* A part that is missing can be added to a table that is there.              *)
LEMMA AddPartDoes ==
    ASSUME NEW s, NEW t, NEW p, Table(t) \in s, <<t, p>> \notin s
    PROVE  Does(AddPart(t, p), s, s \union {<<t, p>>})
  BY DEF Does, PossibleIn, AddPart, Statement, Applied

(* A part that is there can be dropped.                                       *)
LEMMA DropPartDoes ==
    ASSUME NEW s, NEW t, NEW p, <<t, p>> \in s
    PROVE  Does(DropPart(t, p), s, s \ {<<t, p>>})
  BY DEF Does, PossibleIn, DropPart, Statement, Applied

(* A column can be given another type.                                        *)
LEMMA ChangeTypeDoes ==
    ASSUME NEW s, NEW t, NEW refs, NEW p, NEW q, <<t, p>> \in s
    PROVE  Does(ChangeType(t, refs, p, q), s, (s \ {<<t, p>>}) \union {<<t, q>>})
  BY DEF Does, PossibleIn, ChangeType, Statement, Applied

(* A table that is missing can be created when the tables it refers to are    *)
(* there.                                                                     *)
LEMMA CreateTableDoes ==
    ASSUME NEW s, NEW t, NEW refs, NEW parts, NEW R, R = {refs[i] : i \in DOMAIN refs},
           Table(t) \notin s, \A r \in R : Table(r) \in s
    PROVE  Does(CreateTable(t, refs, parts), s,
                s \union ({Table(t)} \union ({t} \X (R \union parts))))
  BY DEF Does, PossibleIn, CreateTable, Statement, Applied

(* The same without parts or references.                                      *)
LEMMA PlainTableDoes ==
    ASSUME NEW s, NEW t, Table(t) \notin s
    PROVE  Does(CreateTable(t, <<>>, {}), s, s \union {Table(t)})
<1> DEFINE refs == <<>>
<1>1. {} = {refs[i] : i \in DOMAIN refs}
  OBVIOUS
<1> HIDE DEF refs
<1>2. Does(CreateTable(t, refs, {}), s, s \union ({Table(t)} \union ({t} \X ({} \union {}))))
  BY <1>1, CreateTableDoes
<1>3. {Table(t)} \union ({t} \X ({} \union {})) = {Table(t)}
  OBVIOUS
<1> QED BY <1>2, <1>3 DEF refs

(* A table that none refers to can be dropped, with all its parts.            *)
LEMMA DropTableDoes ==
    ASSUME NEW s, NEW t, NEW refs, Table(t) \in s, \A u \in Tables : <<u, t>> \notin s
    PROVE  Does(DropTable(t, refs), s, {o \in s : o[1] # t})
  BY DEF Does, PossibleIn, DropTable, Statement, Applied

(* NOT NULL can be put on users.username where it is missing.                 *)
LEMMA RequireUsernamesDoes ==
    ASSUME NEW s, Table("users") \in s, <<"users", "username not null">> \notin s
    PROVE  Does(RequireUsernames, s, s \union {<<"users", "username not null">>})
  BY DEF Does, PossibleIn, RequireUsernames, AddPart, Statement, Applied

(* The row of alembic_version can be replaced by that of another revision.    *)
LEMMA StampDoes ==
    ASSUME NEW s, NEW m, NEW n, VersionRow(m) \subseteq s, VersionRow(n) \intersect s = {}
    PROVE  Does(Stamp(m, n), s, (s \ VersionRow(m)) \union VersionRow(n))
  BY DEF Does, PossibleIn, Stamp, Statement, Applied

(* A table with each of two parts.                                            *)
LEMMA PairsOf ==
    ASSUME NEW t, NEW p, NEW q
    PROVE  {t} \X {p, q} = {<<t, p>>, <<t, q>>}
<1>1. ASSUME NEW o \in {t} \X {p, q} PROVE o \in {<<t, p>>, <<t, q>>}
  <2>1. PICK x \in {p, q} : o = <<t, x>>
    OBVIOUS
  <2> QED BY <2>1
<1>2. <<t, p>> \in {t} \X {p, q} /\ <<t, q>> \in {t} \X {p, q}
  OBVIOUS
<1> QED BY <1>1, <1>2

(* The schemas of the six revisions.                                          *)
LEMMA MadeIs ==
    /\ Made(0) = {} /\ Made(1) = WithTmp
    /\ Made(2) = WithUsers \union {<<"users", "username not null">>}
    /\ Made(3) = WithLogins
    /\ Made(4) = WithSessions \union
                    {<<"sessions", "user_id bigint">>, <<"sessions", "token_hash key">>,
                     <<"sessions", "index expires_at">>, <<"sessions", "index revoked_at">>}
    /\ Made(5) = WithSessions \union
                    {<<"sessions", "user_id integer">>,
                     <<"sessions", "unique index token_hash">>,
                     Table("spaces"), Table("space_memberships"),
                     <<"space_memberships", "spaces">>, <<"space_memberships", "users">>}
  BY DEF Made

(* 0001_create_tmp_table.py, upgrade(): creates tmp.                          *)
LEMMA Upgrade0001Leads ==
    ASSUME NEW A, OfVersion(A)
    PROVE  Leads(Upgrade0001, Made(0) \union A, Made(1) \union A)
<1>1. Table("tmp") \notin A
  BY DEF OfVersion, Table
<1>2. Does(CreateTable("tmp", <<>>, {}), A, A \union {Table("tmp")})
  BY <1>1, PlainTableDoes
<1>3. Leads(Upgrade0001, A, A \union {Table("tmp")})
  BY <1>2, OneLead DEF Upgrade0001
<1> QED BY <1>3, MadeIs DEF WithTmp

(* 0002_create_users_table.py, upgrade(): creates users.                      *)
LEMMA Upgrade0002Leads ==
    ASSUME NEW A, OfVersion(A)
    PROVE  Leads(Upgrade0002, Made(1) \union A, Made(2) \union A)
<1> DEFINE s == WithTmp \union A
           parts == {"telegram_id unique", "username not null"}
           op == CreateTable("users", <<>>, parts)
           t == s \union ({Table("users")} \union ({"users"} \X ({} \union parts)))
<1>1. Table("users") \notin s
  BY DEF OfVersion, Table, WithTmp
<1>2. Does(op, s, t)
  <2> HIDE DEF s
  <2>1. {} = {<<>>[i] : i \in DOMAIN <<>>}
    OBVIOUS
  <2> QED BY <1>1, <2>1, CreateTableDoes
<1>3. t = Made(2) \union A
  <2>1. {"users"} \X ({} \union parts)
          = {<<"users", "telegram_id unique">>, <<"users", "username not null">>}
    <3>1. {"users"} \X parts
            = {<<"users", "telegram_id unique">>, <<"users", "username not null">>}
      BY PairsOf
    <3> HIDE DEF parts
    <3> QED BY <3>1
  <2> HIDE DEF parts
  <2> QED BY <2>1, MadeIs DEF WithUsers
<1>4. Leads(Upgrade0002, s, t)
  <2> HIDE DEF s, t
  <2> QED BY <1>2, OneLead DEF Upgrade0002
<1> QED BY <1>3, <1>4, MadeIs

(* 0003_add_last_login_at.py, upgrade(): adds last_login_at, usernames may be *)
(* NULL.                                                                      *)
LEMMA Upgrade0003Leads ==
    ASSUME NEW A, OfVersion(A)
    PROVE  Leads(Upgrade0003, Made(2) \union A, Made(3) \union A)
<1> DEFINE name == <<"users", "username not null">>
           login == <<"users", "last_login_at">>
           s == WithUsers \union {name} \union A
<1>1. Table("users") \in s /\ login \notin s
  BY DEF OfVersion, Table, WithUsers, WithTmp
<1>2. name \notin WithUsers \union A \union {login}
  BY DEF OfVersion, Table, WithUsers, WithTmp
<1>3. Does(AddPart("users", "last_login_at"), s, s \union {login})
  BY <1>1, AddPartDoes
<1>4. Does(DropPart("users", "username not null"), s \union {login}, (s \union {login}) \ {name})
  BY DropPartDoes
<1>5. (s \union {login}) \ {name} = WithLogins \union A
  BY <1>2 DEF WithLogins
<1>6. Leads(Upgrade0003, s, (s \union {login}) \ {name})
  BY <1>3, <1>4, TwoLead DEF Upgrade0003
<1> QED BY <1>5, <1>6, MadeIs

(* 0001_create_tmp_table.py, downgrade().                                     *)
LEMMA Downgrade0001Leads ==
    ASSUME NEW A, OfVersion(A)
    PROVE  Leads(Downgrade0001, Made(1) \union A, Made(0) \union A)
<1> DEFINE s == WithTmp \union A
<1>1. Table("tmp") \in s /\ \A u \in Tables : <<u, "tmp">> \notin s
  BY DEF OfVersion, Table, Tables, WithTmp
<1>2. Does(DropTable("tmp", <<>>), s, {o \in s : o[1] # "tmp"})
  BY <1>1, DropTableDoes
<1>3. {o \in s : o[1] # "tmp"} = A
  BY DEF OfVersion, Table, WithTmp
<1>4. Leads(Downgrade0001, s, {o \in s : o[1] # "tmp"})
  BY <1>2, OneLead DEF Downgrade0001
<1> QED BY <1>3, <1>4, MadeIs

(* 0002_create_users_table.py, downgrade().                                   *)
LEMMA Downgrade0002Leads ==
    ASSUME NEW A, OfVersion(A)
    PROVE  Leads(Downgrade0002, Made(2) \union A, Made(1) \union A)
<1> DEFINE s == Made(2) \union A
<1>1. Table("users") \in s /\ \A u \in Tables : <<u, "users">> \notin s
  BY MadeIs DEF OfVersion, Table, Tables, WithTmp, WithUsers
<1>2. Does(DropTable("users", <<>>), s, {o \in s : o[1] # "users"})
  BY <1>1, DropTableDoes
<1>3. {o \in s : o[1] # "users"} = WithTmp \union A
  <2>1. \A o \in WithTmp \union A : o[1] # "users"
    BY DEF OfVersion, Table, WithTmp
  <2>2. \A o \in {Table("users"), <<"users", "telegram_id unique">>,
                  <<"users", "username not null">>} : o[1] = "users"
    <3>1. /\ Table("users")[1] = "users" /\ <<"users", "telegram_id unique">>[1] = "users"
          /\ <<"users", "username not null">>[1] = "users"
      BY DEF Table
    <3> QED BY <3>1
  <2>3. s = (WithTmp \union A) \union {Table("users"), <<"users", "telegram_id unique">>,
                                     <<"users", "username not null">>}
    BY MadeIs DEF WithUsers
  <2> HIDE DEF s
  <2> QED BY <2>1, <2>2, <2>3
<1>4. Leads(Downgrade0002, s, {o \in s : o[1] # "users"})
  BY <1>2, OneLead DEF Downgrade0002
<1> QED BY <1>3, <1>4, MadeIs

(* 0003_add_last_login_at.py, downgrade(): usernames are required again.      *)
LEMMA Downgrade0003Leads ==
    ASSUME NEW A, OfVersion(A)
    PROVE  Leads(Downgrade0003, Made(3) \union A, Made(2) \union A)
<1> DEFINE name == <<"users", "username not null">>
           login == <<"users", "last_login_at">>
           s == WithLogins \union A
           t == (s \union {name}) \ {login}
<1>1. Table("users") \in s /\ name \notin s /\ login \in s
  BY DEF OfVersion, Table, WithLogins, WithUsers, WithTmp
<1>2. login \notin WithUsers \union A \union {name}
  BY DEF OfVersion, Table, WithUsers, WithTmp
<1>3. Does(RequireUsernames, s, s \union {name})
  BY <1>1, RequireUsernamesDoes
<1>4. Does(DropPart("users", "last_login_at"), s \union {name}, t)
  BY <1>1, DropPartDoes
<1>5. t = (WithUsers \union {name}) \union A
  BY <1>2 DEF WithLogins
<1> HIDE DEF s, t
<1>6. Leads(Downgrade0003, s, t)
  BY <1>3, <1>4, TwoLead DEF Downgrade0003
<1> QED BY <1>5, <1>6, MadeIs DEF s

(* 0004_create_sessions_table.py, upgrade(): sessions and its indexes.        *)
LEMMA Upgrade0004Leads ==
    ASSUME NEW A, OfVersion(A)
    PROVE  Leads(Upgrade0004, Made(3) \union A, Made(4) \union A)
<1> DEFINE parts == {"user_id bigint", "token_hash key"}
           user == <<"sessions", "index user_id">>
           expires == <<"sessions", "index expires_at">>
           revoked == <<"sessions", "index revoked_at">>
           s0 == WithLogins \union A
           s1 == s0 \union ({Table("sessions")} \union ({"sessions"} \X ({"users"} \union parts)))
           s2 == s1 \union {user}
           s3 == s2 \union {expires}
           s4 == s3 \union {revoked}
<1>1. Does(CreateTable("sessions", <<"users">>, parts), s0, s1)
  <2>1. Table("sessions") \notin s0 /\ Table("users") \in s0
    BY DEF OfVersion, Table, WithLogins, WithUsers, WithTmp
  <2>2. {"users"} = {<<"users">>[i] : i \in DOMAIN <<"users">>}
    OBVIOUS
  <2> HIDE DEF s0, parts
  <2> QED BY <2>1, <2>2, CreateTableDoes
<1>2. s1 = s0 \union {Table("sessions"), <<"sessions", "users">>,
                      <<"sessions", "user_id bigint">>, <<"sessions", "token_hash key">>}
  <2>1. {"sessions"} \X ({"users"} \union parts)
          = {<<"sessions", "users">>}
              \union {<<"sessions", "user_id bigint">>, <<"sessions", "token_hash key">>}
    <3>1. {"sessions"} \X {"users"} = {<<"sessions", "users">>}
      BY PairsOf
    <3>2. {"sessions"} \X parts
            = {<<"sessions", "user_id bigint">>, <<"sessions", "token_hash key">>}
      BY PairsOf
    <3>3. {"sessions"} \X ({"users"} \union parts)
            = ({"sessions"} \X {"users"}) \union ({"sessions"} \X parts)
      <4> HIDE DEF parts
      <4> QED OBVIOUS
    <3> QED BY <3>1, <3>2, <3>3
  <2> HIDE DEF s0, parts
  <2> QED BY <2>1
<1>3. /\ Table("sessions") \in s1
      /\ user \notin s0 /\ expires \notin s0 /\ revoked \notin s0
  BY DEF OfVersion, Table, WithLogins, WithUsers, WithTmp
<1>4. user \notin s1 /\ expires \notin s2 /\ revoked \notin s3
  <2> HIDE DEF s0, s1
  <2> QED BY <1>2, <1>3 DEF Table
<1>5. s4 = Made(4) \union A
  <2> HIDE DEF s1
  <2> QED BY <1>2, MadeIs DEF WithSessions
<1> HIDE DEF s0, s1
<1>6. Does(AddPart("sessions", "index user_id"), s1, s2)
  BY <1>3, <1>4, AddPartDoes
<1>7. Does(AddPart("sessions", "index expires_at"), s2, s3)
  BY <1>3, <1>4, AddPartDoes
<1>8. Does(AddPart("sessions", "index revoked_at"), s3, s4)
  BY <1>3, <1>4, AddPartDoes
<1> HIDE DEF s2, s3, s4
<1>9. Leads(Upgrade0004, s0, s4)
  BY <1>1, <1>6, <1>7, <1>8, FourLead DEF Upgrade0004
<1> QED BY <1>5, <1>9, MadeIs DEF s0

(* 0004_create_sessions_table.py, downgrade().                                *)
LEMMA Downgrade0004Leads ==
    ASSUME NEW A, OfVersion(A)
    PROVE  Leads(Downgrade0004, Made(4) \union A, Made(3) \union A)
<1> DEFINE user == <<"sessions", "index user_id">>
           expires == <<"sessions", "index expires_at">>
           revoked == <<"sessions", "index revoked_at">>
           s0 == Made(4) \union A
           s1 == s0 \ {revoked}
           s2 == s1 \ {expires}
           s3 == s2 \ {user}
           s4 == {o \in s3 : o[1] # "sessions"}
<1>1. user \in s0 /\ expires \in s0 /\ revoked \in s0 /\ Table("sessions") \in s0
  BY MadeIs DEF WithSessions
<1>2. user # expires /\ expires # revoked /\ user # revoked
      /\ Table("sessions") \notin {user, expires, revoked}
  BY DEF Table
<1>3. \A o \in WithLogins \union A : o[1] # "sessions" /\ o[2] # "sessions"
  <2>1. \A o \in A : o[1] # "sessions" /\ o[2] # "sessions"
    BY DEF OfVersion, Tables
  <2>2. \A o \in WithLogins : o[1] # "sessions" /\ o[2] # "sessions"
    <3>1. /\ Table("tmp")[1] = "tmp" /\ Table("tmp")[2] = "table"
          /\ Table("users")[1] = "users" /\ Table("users")[2] = "table"
          /\ <<"users", "telegram_id unique">>[1] = "users"
          /\ <<"users", "telegram_id unique">>[2] = "telegram_id unique"
          /\ <<"users", "last_login_at">>[1] = "users"
          /\ <<"users", "last_login_at">>[2] = "last_login_at"
      BY DEF Table
    <3> QED BY <3>1 DEF WithLogins, WithUsers, WithTmp
  <2> QED BY <2>1, <2>2
<1>4. \A o \in s0 \ (WithLogins \union A) : o[1] = "sessions" /\ o[2] # "sessions"
  <2>1. \A x \in {"table", "users", "index user_id", "user_id bigint", "token_hash key",
                 "index expires_at", "index revoked_at"} :
           <<"sessions", x>>[1] = "sessions" /\ <<"sessions", x>>[2] # "sessions"
    OBVIOUS
  <2>2. s0 \ (WithLogins \union A) \subseteq
          {<<"sessions", x>> : x \in {"table", "users", "index user_id", "user_id bigint",
                 "token_hash key", "index expires_at", "index revoked_at"}}
    BY MadeIs DEF WithSessions, Table
  <2> QED BY <2>1, <2>2
<1>5. WithLogins \union A \subseteq s0
  BY MadeIs DEF WithSessions
<1>6. Does(DropPart("sessions", "index revoked_at"), s0, s1)
  BY <1>1, DropPartDoes
<1>7. Does(DropPart("sessions", "index expires_at"), s1, s2)
  BY <1>1, <1>2, DropPartDoes
<1>8. Does(DropPart("sessions", "index user_id"), s2, s3)
  BY <1>1, <1>2, DropPartDoes
<1>9. Does(DropTable("sessions", <<"users">>), s3, s4)
  <2>1. Table("sessions") \in s3
    BY <1>1, <1>2
  <2>2. \A u \in Tables : <<u, "sessions">> \notin s3
    <3> HIDE DEF s0
    <3>1. \A o \in s3 : o[2] # "sessions"
      BY <1>3, <1>4
    <3> HIDE DEF s3
    <3> QED BY <3>1
  <2> QED BY <2>1, <2>2, DropTableDoes
<1>10. s4 = WithLogins \union A
  <2>1. user[1] = "sessions" /\ expires[1] = "sessions" /\ revoked[1] = "sessions"
    OBVIOUS
  <2> HIDE DEF s0, user, expires, revoked
  <2> QED BY <1>3, <1>4, <1>5, <2>1
<1> HIDE DEF s0, s1, s2, s3, s4
<1>11. Leads(Downgrade0004, s0, s4)
  BY <1>6, <1>7, <1>8, <1>9, FourLead DEF Downgrade0004
<1> QED BY <1>10, <1>11, MadeIs DEF s0

(* 0005_create_spaces.py, upgrade(): the spaces, and sessions as the model    *)
(* has it.                                                                    *)
LEMMA Upgrade0005Leads ==
    ASSUME NEW A, OfVersion(A)
    PROVE  Leads(Upgrade0005, Made(4) \union A, Made(5) \union A)
<1> DEFINE big == <<"sessions", "user_id bigint">>
           integer == <<"sessions", "user_id integer">>
           key == <<"sessions", "token_hash key">>
           unique == <<"sessions", "unique index token_hash">>
           expires == <<"sessions", "index expires_at">>
           revoked == <<"sessions", "index revoked_at">>
           spaces == Table("spaces")
           members == {Table("space_memberships"), <<"space_memberships", "spaces">>,
                       <<"space_memberships", "users">>}
           K == WithSessions \union A
           s0 == K \union {big, key, expires, revoked}
           s1 == s0 \union {spaces}
           s2 == s1 \union ({Table("space_memberships")}
                              \union ({"space_memberships"} \X ({"spaces", "users"} \union {})))
           s3 == (s2 \ {big}) \union {integer}
           s4 == s3 \ {expires}
           s5 == s4 \ {revoked}
           s6 == s5 \ {key}
           s7 == s6 \union {unique}
<1>1. /\ spaces \notin K /\ Table("space_memberships") \notin K
      /\ big \notin K /\ key \notin K /\ expires \notin K /\ revoked \notin K
      /\ unique \notin K
  BY DEF WithSessions, WithLogins, WithUsers, WithTmp, Table, OfVersion
<1>2. Table("sessions") \in K /\ Table("users") \in K
  BY DEF WithSessions, WithLogins, WithUsers
<1>3. /\ big # key /\ big # expires /\ big # revoked /\ key # expires /\ key # revoked
      /\ expires # revoked /\ integer \notin {big, key, expires, revoked}
      /\ unique \notin {big, integer, key, expires, revoked}
      /\ {spaces, Table("space_memberships")}
           \intersect {big, integer, unique, key, expires, revoked} = {}
      /\ spaces # Table("space_memberships")
      /\ {big, unique, key, expires, revoked} \intersect members = {}
  BY DEF Table
<1> HIDE DEF K
<1>4. Does(CreateTable("spaces", <<>>, {}), s0, s1)
  BY <1>1, <1>3, PlainTableDoes
<1>5. Does(CreateTable("space_memberships", <<"spaces", "users">>, {}), s1, s2)
  <2>1. Table("space_memberships") \notin s1 /\ \A r \in {"spaces", "users"} : Table(r) \in s1
    <3>1. Table("space_memberships") \notin s1
      BY <1>1, <1>3
    <3>2. Table("spaces") \in s1 /\ Table("users") \in s1
      BY <1>2
    <3> HIDE DEF s1
    <3> QED BY <3>1, <3>2
  <2>2. {"spaces", "users"} = {<<"spaces", "users">>[i] : i \in DOMAIN <<"spaces", "users">>}
    <3>1. DOMAIN <<"spaces", "users">> = {1, 2}
      OBVIOUS
    <3> QED BY <3>1
  <2> HIDE DEF s1
  <2> QED BY <2>1, <2>2, CreateTableDoes
<1>6. s2 = s1 \union members
  <2>1. {"spaces", "users"} \union {} = {"spaces", "users"}
    OBVIOUS
  <2>2. {"space_memberships"} \X {"spaces", "users"}
          = {<<"space_memberships", "spaces">>, <<"space_memberships", "users">>}
    BY PairsOf
  <2> HIDE DEF s1
  <2> QED BY <2>1, <2>2
<1> HIDE DEF s2, big, integer, key, unique, expires, revoked, spaces, members
<1>7. /\ big \in s2 /\ expires \in s3 /\ revoked \in s4 /\ key \in s5
      /\ Table("sessions") \in s6 /\ unique \notin s6
  <2>1. /\ big \in s2 /\ expires \in s2 /\ revoked \in s2 /\ key \in s2
        /\ unique \notin s2
    BY <1>1, <1>3, <1>6
  <2>2. Table("sessions") \in s6
    BY <1>1, <1>2, <1>6
  <2> QED BY <1>3, <2>1, <2>2
<1>8. s7 = K \union {integer, unique, spaces} \union members
  BY <1>1, <1>3, <1>6
<1>9. Does(ChangeType("sessions", <<"users">>, "user_id bigint", "user_id integer"), s2, s3)
  BY <1>7, ChangeTypeDoes DEF big, integer
<1>10. Does(DropPart("sessions", "index expires_at"), s3, s4)
  BY <1>7, DropPartDoes DEF expires
<1>11. Does(DropPart("sessions", "index revoked_at"), s4, s5)
  BY <1>7, DropPartDoes DEF revoked
<1>12. Does(DropPart("sessions", "token_hash key"), s5, s6)
  BY <1>7, DropPartDoes DEF key
<1>13. Does(AddPart("sessions", "unique index token_hash"), s6, s7)
  BY <1>7, AddPartDoes DEF unique
<1>14. s0 = Made(4) \union A /\ s7 = Made(5) \union A
  <2>1. s0 = Made(4) \union A
    BY MadeIs DEF K, big, key, expires, revoked
  <2>2. Made(5) \union A = K \union {integer, unique, spaces} \union members
    BY MadeIs DEF K, integer, unique, spaces, members
  <2> QED BY <1>8, <2>1, <2>2
<1> HIDE DEF s0, s1, s3, s4, s5, s6, s7
<1>15. Leads(Upgrade0005, s0, s7)
  BY <1>4, <1>5, <1>9, <1>10, <1>11, <1>12, <1>13, SevenLead DEF Upgrade0005
<1> QED BY <1>14, <1>15

(* 0005_create_spaces.py, downgrade().                                        *)
LEMMA Downgrade0005Leads ==
    ASSUME NEW A, OfVersion(A)
    PROVE  Leads(Downgrade0005, Made(5) \union A, Made(4) \union A)
<1> DEFINE big == <<"sessions", "user_id bigint">>
           integer == <<"sessions", "user_id integer">>
           key == <<"sessions", "token_hash key">>
           unique == <<"sessions", "unique index token_hash">>
           expires == <<"sessions", "index expires_at">>
           revoked == <<"sessions", "index revoked_at">>
           spaces == Table("spaces")
           members == {Table("space_memberships"), <<"space_memberships", "spaces">>,
                       <<"space_memberships", "users">>}
           K == WithSessions \union A
           s0 == K \union {integer, unique, spaces} \union members
           s1 == s0 \ {unique}
           s2 == s1 \union {key}
           s3 == s2 \union {revoked}
           s4 == s3 \union {expires}
           s5 == (s4 \ {integer}) \union {big}
           s6 == {o \in s5 : o[1] # "space_memberships"}
           s7 == {o \in s6 : o[1] # "spaces"}
<1>1. /\ big \notin K /\ key \notin K /\ expires \notin K /\ revoked \notin K
      /\ unique \notin K /\ integer \notin K
  BY DEF WithSessions, WithLogins, WithUsers, WithTmp, Table, OfVersion
<1>2. Table("sessions") \in K
  BY DEF WithSessions, WithLogins, WithUsers
<1>3. /\ big # key /\ big # expires /\ big # revoked /\ key # expires /\ key # revoked
      /\ expires # revoked /\ integer \notin {big, key, expires, revoked, spaces}
      /\ unique \notin {big, integer, key, expires, revoked, spaces}
      /\ {spaces, Table("space_memberships"), Table("sessions")}
           \intersect {big, integer, unique, key, expires, revoked} = {}
      /\ spaces # Table("space_memberships")
      /\ {big, integer, unique, key, expires, revoked} \intersect members = {}
      /\ {key, expires, revoked} \intersect {spaces} = {}
  BY DEF Table
<1>4. \A o \in K \union {big, key, expires, revoked} :
         o[1] \notin {"spaces", "space_memberships"} /\ o[2] \notin {"spaces", "space_memberships"}
  <2>1. \A o \in A : /\ o[1] \notin {"spaces", "space_memberships"}
                     /\ o[2] \notin {"spaces", "space_memberships"}
    BY DEF OfVersion, Tables
  <2>2. \A o \in WithSessions : /\ o[1] \notin {"spaces", "space_memberships"}
                                /\ o[2] \notin {"spaces", "space_memberships"}
    <3>1. /\ Table("tmp")[1] = "tmp" /\ Table("tmp")[2] = "table"
          /\ Table("users")[1] = "users" /\ Table("users")[2] = "table"
          /\ <<"users", "telegram_id unique">>[1] = "users"
          /\ <<"users", "telegram_id unique">>[2] = "telegram_id unique"
          /\ <<"users", "last_login_at">>[1] = "users"
          /\ <<"users", "last_login_at">>[2] = "last_login_at"
          /\ Table("sessions")[1] = "sessions" /\ Table("sessions")[2] = "table"
          /\ <<"sessions", "users">>[1] = "sessions"
          /\ <<"sessions", "users">>[2] = "users"
          /\ <<"sessions", "index user_id">>[1] = "sessions"
          /\ <<"sessions", "index user_id">>[2] = "index user_id"
      BY DEF Table
    <3> QED BY <3>1 DEF WithSessions, WithLogins, WithUsers, WithTmp
  <2>3. \A o \in {big, key, expires, revoked} :
           o[1] \notin {"spaces", "space_memberships"} /\ o[2] \notin {"spaces", "space_memberships"}
    <3>1. /\ big[1] = "sessions" /\ key[1] = "sessions"
          /\ expires[1] = "sessions" /\ revoked[1] = "sessions"
          /\ big[2] = "user_id bigint" /\ key[2] = "token_hash key"
          /\ expires[2] = "index expires_at" /\ revoked[2] = "index revoked_at"
      OBVIOUS
    <3> HIDE DEF big, key, expires, revoked
    <3> QED BY <3>1
  <2> HIDE DEF big, key, expires, revoked
  <2> QED BY <2>1, <2>2, <2>3
<1>5. /\ \A o \in members : o[1] = "space_memberships"
      /\ \A o \in members : o[2] # "space_memberships"
      /\ spaces[1] = "spaces" /\ spaces[2] = "table"
      /\ spaces \in s0 /\ Table("space_memberships") \in s0
  <2>1. /\ Table("space_memberships")[1] = "space_memberships"
        /\ Table("space_memberships")[2] = "table"
        /\ <<"space_memberships", "spaces">>[1] = "space_memberships"
        /\ <<"space_memberships", "spaces">>[2] = "spaces"
        /\ <<"space_memberships", "users">>[1] = "space_memberships"
        /\ <<"space_memberships", "users">>[2] = "users"
        /\ spaces[1] = "spaces" /\ spaces[2] = "table"
    BY DEF Table
  <2>2. spaces \in s0 /\ Table("space_memberships") \in s0
    OBVIOUS
  <2> QED BY <2>1, <2>2
<1>6. Table("space_memberships") # spaces /\ Table("space_memberships") \in members
  BY <1>3
<1> HIDE DEF K, big, integer, key, unique, expires, revoked, spaces, members
<1>7. /\ unique \in s0 /\ Table("sessions") \in s1 /\ key \notin s1
      /\ Table("sessions") \in s2 /\ revoked \notin s2
      /\ Table("sessions") \in s3 /\ expires \notin s3 /\ integer \in s4
  BY <1>1, <1>2, <1>3
<1>8. s5 = K \union {big, key, expires, revoked} \union {spaces} \union members
  BY <1>1, <1>3
<1> HIDE DEF s5
<1>9. s6 = K \union {big, key, expires, revoked} \union {spaces}
  BY <1>4, <1>5, <1>8
<1>10. s7 = K \union {big, key, expires, revoked}
  <2> HIDE DEF s6
  <2> QED BY <1>4, <1>5, <1>9
<1>11. Does(DropPart("sessions", "unique index token_hash"), s0, s1)
  BY <1>7, DropPartDoes DEF unique
<1>12. Does(AddPart("sessions", "token_hash key"), s1, s2)
  BY <1>7, AddPartDoes DEF key
<1>13. Does(AddPart("sessions", "index revoked_at"), s2, s3)
  BY <1>7, AddPartDoes DEF revoked
<1>14. Does(AddPart("sessions", "index expires_at"), s3, s4)
  BY <1>7, AddPartDoes DEF expires
<1>15. Does(ChangeType("sessions", <<"users">>, "user_id integer", "user_id bigint"), s4, s5)
  BY <1>7, ChangeTypeDoes DEF s5, integer, big
<1>16. Does(DropTable("space_memberships", <<"spaces", "users">>), s5, s6)
  <2>1. Table("space_memberships") \in s5
    BY <1>6, <1>8
  <2>2. \A u \in Tables : <<u, "space_memberships">> \notin s5
    <3>1. \A o \in s5 : o[2] # "space_memberships"
      BY <1>4, <1>5, <1>8
    <3> QED BY <3>1
  <2> QED BY <2>1, <2>2, DropTableDoes
<1>17. Does(DropTable("spaces", <<>>), s6, s7)
  <2> HIDE DEF s6
  <2>1. Table("spaces") \in s6
    BY <1>9 DEF spaces
  <2>2. \A u \in Tables : <<u, "spaces">> \notin s6
    <3>1. \A o \in s6 : o[2] # "spaces"
      BY <1>4, <1>5, <1>9
    <3> QED BY <3>1
  <2> QED BY <2>1, <2>2, DropTableDoes
<1>18. s0 = Made(5) \union A /\ s7 = Made(4) \union A
  <2>1. s0 = Made(5) \union A
    BY MadeIs DEF K, integer, unique, spaces, members
  <2>2. Made(4) \union A = K \union {big, key, expires, revoked}
    BY MadeIs DEF K, big, key, expires, revoked
  <2> QED BY <1>10, <2>1, <2>2
<1> HIDE DEF s0, s1, s2, s3, s4, s6, s7
<1>19. Leads(Downgrade0005, s0, s7)
  BY <1>11, <1>12, <1>13, <1>14, <1>15, <1>16, <1>17, SevenLead DEF Downgrade0005
<1> QED BY <1>18, <1>19

(* The files of src/alembic/versions.                                         *)
LEMMA FiveRevisions == Newest = 5
  BY DEF Newest, Revisions

(* A revision's name is not that of a table, and no two are equal.            *)
LEMMA RevisionNames ==
    /\ \A n \in 1 .. 5 : Revisions[n] # "table" /\ Revisions[n] \notin Tables
    /\ \A m, n \in 1 .. 5 : m # n => Revisions[m] # Revisions[n]
<1>1. /\ Revisions[1] = "0001_create_tmp_table" /\ Revisions[2] = "0002_create_users_table"
      /\ Revisions[3] = "0003_add_last_login_at"
      /\ Revisions[4] = "0004_create_sessions_table" /\ Revisions[5] = "0005_create_spaces"
  BY DEF Revisions
<1>2. \A n \in 1 .. 5 : n \in {1, 2, 3, 4, 5}
  OBVIOUS
<1>3. \A n \in 1 .. 5 : Revisions[n] # "table" /\ Revisions[n] \notin Tables
  <2>1. \A n \in {1, 2, 3, 4, 5} : Revisions[n] # "table"
    BY <1>1
  <2>2. \A n \in {1, 2, 3, 4, 5} : Revisions[n] \notin Tables
    BY <1>1 DEF Tables
  <2> QED BY <1>2, <2>1, <2>2
<1>4. \A m, n \in {1, 2, 3, 4, 5} : m # n => Revisions[m] # Revisions[n]
  BY <1>1
<1> QED BY <1>2, <1>3, <1>4

(* No script has anything to do with alembic_version.                         *)
LEMMA MadeApart ==
    ASSUME NEW n \in 0 .. 5
    PROVE  \A o \in Made(n) : o[1] \in Tables \ {"alembic_version"}
<1> DEFINE parts == {"table", "telegram_id unique", "username not null", "last_login_at",
                     "users", "index user_id", "user_id bigint", "token_hash key",
                     "index expires_at", "index revoked_at", "user_id integer",
                     "unique index token_hash", "spaces"}
           T == {"tmp", "users", "sessions", "spaces", "space_memberships"}
<1>1. WithSessions \subseteq T \X parts
  <2>1. /\ Table("tmp") \in T \X parts /\ Table("users") \in T \X parts
        /\ <<"users", "telegram_id unique">> \in T \X parts
        /\ <<"users", "last_login_at">> \in T \X parts
        /\ Table("sessions") \in T \X parts /\ <<"sessions", "users">> \in T \X parts
        /\ <<"sessions", "index user_id">> \in T \X parts
    BY DEF Table
  <2> HIDE DEF T, parts
  <2> QED BY <2>1 DEF WithSessions, WithLogins, WithUsers, WithTmp
<1>2. Made(n) \subseteq T \X parts
  <2>1. n \in {0, 1, 2, 3, 4, 5}
    OBVIOUS
  <2>2. WithTmp \subseteq WithSessions /\ WithUsers \subseteq WithSessions
        /\ WithLogins \subseteq WithSessions
    BY DEF WithSessions, WithLogins, WithUsers
  <2>3. /\ <<"users", "username not null">> \in T \X parts
        /\ <<"sessions", "user_id bigint">> \in T \X parts
        /\ <<"sessions", "token_hash key">> \in T \X parts
        /\ <<"sessions", "index expires_at">> \in T \X parts
        /\ <<"sessions", "index revoked_at">> \in T \X parts
        /\ <<"sessions", "user_id integer">> \in T \X parts
        /\ <<"sessions", "unique index token_hash">> \in T \X parts
        /\ Table("spaces") \in T \X parts /\ Table("space_memberships") \in T \X parts
        /\ <<"space_memberships", "spaces">> \in T \X parts
        /\ <<"space_memberships", "users">> \in T \X parts
    BY DEF Table
  <2> HIDE DEF T, parts
  <2>4. CASE n \in {0, 1, 2, 3}
    BY <1>1, <2>2, <2>3, <2>4, MadeIs
  <2>5. CASE n = 4
    BY <1>1, <2>3, <2>5, MadeIs
  <2>6. CASE n = 5
    BY <1>1, <2>3, <2>6, MadeIs
  <2> QED BY <2>1, <2>4, <2>5, <2>6
<1>3. T \subseteq Tables \ {"alembic_version"}
  BY DEF Tables
<1> HIDE DEF T, parts
<1> QED BY <1>2, <1>3

(* Every upgrade() takes the schema of its revision's predecessor to that of  *)
(* its revision, whatever alembic_version has.                                *)
LEMMA UpgradesLead ==
    ASSUME NEW n \in 0 .. 4, NEW A, OfVersion(A)
    PROVE  Leads(Upgrades[n + 1], Made(n) \union A, Made(n + 1) \union A)
<1>1. /\ Upgrades[1] = Upgrade0001 /\ Upgrades[2] = Upgrade0002 /\ Upgrades[3] = Upgrade0003
      /\ Upgrades[4] = Upgrade0004 /\ Upgrades[5] = Upgrade0005
  BY DEF Upgrades
<1>2. CASE n = 0
  BY <1>1, <1>2, Upgrade0001Leads
<1>3. CASE n = 1
  BY <1>1, <1>3, Upgrade0002Leads
<1>4. CASE n = 2
  BY <1>1, <1>4, Upgrade0003Leads
<1>5. CASE n = 3
  BY <1>1, <1>5, Upgrade0004Leads
<1>6. CASE n = 4
  BY <1>1, <1>6, Upgrade0005Leads
<1> QED BY <1>2, <1>3, <1>4, <1>5, <1>6

(* Every downgrade() takes the schema of its revision to that of its          *)
(* predecessor.                                                               *)
LEMMA DowngradesLead ==
    ASSUME NEW n \in 1 .. 5, NEW A, OfVersion(A)
    PROVE  Leads(Downgrades[n], Made(n) \union A, Made(n - 1) \union A)
<1>1. /\ Downgrades[1] = Downgrade0001 /\ Downgrades[2] = Downgrade0002
      /\ Downgrades[3] = Downgrade0003 /\ Downgrades[4] = Downgrade0004
      /\ Downgrades[5] = Downgrade0005
  BY DEF Downgrades
<1>2. CASE n = 1
  BY <1>1, <1>2, Downgrade0001Leads
<1>3. CASE n = 2
  BY <1>1, <1>3, Downgrade0002Leads
<1>4. CASE n = 3
  BY <1>1, <1>4, Downgrade0003Leads
<1>5. CASE n = 4
  BY <1>1, <1>5, Downgrade0004Leads
<1>6. CASE n = 5
  BY <1>1, <1>6, Downgrade0005Leads
<1> QED BY <1>2, <1>3, <1>4, <1>5, <1>6

(* SchemaAt is the schema that is spelled out above.                          *)
LEMMA SchemaAtIs == \A n \in 0 .. 5 : SchemaAt[n] = Made(n)
<1> DEFINE Next5(f) == [n \in 0 .. Newest |->
                          IF n = 0 THEN {} ELSE After(Upgrades[n], f[n - 1])[Len(Upgrades[n])]]
           made == [n \in 0 .. Newest |-> Made(n)]
<1>1. ASSUME NEW n \in 1 .. 5
      PROVE  After(Upgrades[n], Made(n - 1))[Len(Upgrades[n])] = Made(n)
  <2>1. OfVersion({}) /\ n - 1 \in 0 .. 4 /\ (n - 1) + 1 = n
    BY DEF OfVersion
  <2>2. Leads(Upgrades[n], Made(n - 1) \union {}, Made(n) \union {})
    BY <2>1, UpgradesLead
  <2>3. Leads(Upgrades[n], Made(n - 1), Made(n))
    <3>1. Made(n - 1) \union {} = Made(n - 1) /\ Made(n) \union {} = Made(n)
      OBVIOUS
    <3> QED BY <2>2, <3>1
  <2> QED BY <2>3 DEF Leads
<1>2. made = Next5(made)
  <2>1. \A n \in 0 .. Newest : made[n] = Next5(made)[n]
    <3> TAKE n \in 0 .. Newest
    <3>1. CASE n = 0
      BY <3>1, MadeIs
    <3>2. CASE n # 0
      <4>1. n \in 1 .. 5 /\ n - 1 \in 0 .. Newest
        BY <3>2, FiveRevisions
      <4>2. made[n] = Made(n) /\ made[n - 1] = Made(n - 1)
        BY <4>1, FiveRevisions
      <4>3. Next5(made)[n] = After(Upgrades[n], made[n - 1])[Len(Upgrades[n])]
        BY <3>2
      <4> HIDE DEF made, Next5
      <4> QED BY <1>1, <4>1, <4>2, <4>3
    <3> QED BY <3>1, <3>2
  <2> QED BY <2>1
<1>3. SchemaAt = Next5(SchemaAt)
  <2> HIDE DEF made
  <2>1. \E f : f = Next5(f)
    BY <1>2
  <2> QED BY <2>1 DEF SchemaAt
<1>4. /\ SchemaAt[0] = {}
      /\ \A n \in 1 .. 5 :
            SchemaAt[n] = After(Upgrades[n], SchemaAt[n - 1])[Len(Upgrades[n])]
  <2> DEFINE f == SchemaAt
  <2>1. f = Next5(f)
    BY <1>3
  <2> HIDE DEF f
  <2>2. f[0] = {} /\ \A n \in 1 .. 5 : f[n] = After(Upgrades[n], f[n - 1])[Len(Upgrades[n])]
    <3> DEFINE g == [n \in 0 .. 5 |->
                       IF n = 0 THEN {} ELSE After(Upgrades[n], f[n - 1])[Len(Upgrades[n])]]
    <3>1. f = g
      BY <2>1, FiveRevisions
    <3>2. g[0] = {} /\ \A n \in 1 .. 5 : g[n] = After(Upgrades[n], f[n - 1])[Len(Upgrades[n])]
      OBVIOUS
    <3> HIDE DEF g
    <3> QED BY <3>1, <3>2
  <2> QED BY <2>2 DEF f
<1>5. \A n \in 1 .. 5 : SchemaAt[n - 1] = Made(n - 1) => SchemaAt[n] = Made(n)
  BY <1>1, <1>4
<1>6. SchemaAt[0] = Made(0)
  BY <1>4, MadeIs
<1>7. SchemaAt[1] = Made(1)
  BY <1>5, <1>6
<1>8. SchemaAt[2] = Made(2)
  BY <1>5, <1>7
<1>9. SchemaAt[3] = Made(3)
  BY <1>5, <1>8
<1>10. SchemaAt[4] = Made(4)
  BY <1>5, <1>9
<1>11. SchemaAt[5] = Made(5)
  BY <1>5, <1>10
<1>12. \A n \in 0 .. 5 : n \in {0, 1, 2, 3, 4, 5}
  OBVIOUS
<1> QED BY <1>6, <1>7, <1>8, <1>9, <1>10, <1>11, <1>12

(* What a database can have at all, by tables.                                *)
LEMMA ObjectsAre ==
    /\ \A n \in 0 .. 5, versioned \in BOOLEAN : Deployed(n, versioned) \subseteq Objects
    /\ \A n \in 0 .. 5 : Made(n) \subseteq Objects /\ VersionRow(n) \subseteq Objects
    /\ Table("alembic_version") \in Objects
    /\ \A o \in Objects : o[1] \in Tables
<1>1. \A n \in 0 .. 5, versioned \in BOOLEAN : Deployed(n, versioned) \subseteq Deployed(n, TRUE)
  BY DEF Deployed
<1>2. \A n \in 0 .. 5 : Deployed(n, TRUE) \subseteq Objects
  BY FiveRevisions DEF Objects
<1>3. \A n \in 0 .. 5 : /\ Made(n) \subseteq Deployed(n, TRUE)
                        /\ VersionRow(n) \subseteq Deployed(n, TRUE)
  BY SchemaAtIs DEF Deployed
<1>4. Table("alembic_version") \in Deployed(0, TRUE)
  BY DEF Deployed
<1>5. ASSUME NEW n \in 0 .. 5, NEW o \in Deployed(n, TRUE) PROVE o[1] \in Tables
  <2>1. CASE o \in Made(n)
    BY <2>1, MadeApart
  <2>2. CASE o \in VersionRow(n)
    BY <2>2 DEF VersionRow, Tables
  <2>3. CASE o = Table("alembic_version")
    <3>1. Table("alembic_version")[1] = "alembic_version"
      BY DEF Table
    <3> QED BY <2>3, <3>1 DEF Tables
  <2> QED BY <2>1, <2>2, <2>3, SchemaAtIs DEF Deployed
<1>6. \A o \in Objects : o[1] \in Tables
  BY <1>5, FiveRevisions DEF Objects
<1>7. \A n \in 0 .. 5, versioned \in BOOLEAN : Deployed(n, versioned) \subseteq Objects
  BY <1>1, <1>2
<1>8. \A n \in 0 .. 5 : Made(n) \subseteq Objects /\ VersionRow(n) \subseteq Objects
  BY <1>2, <1>3
<1>9. Table("alembic_version") \in Objects
  <2>1. 0 \in 0 .. 5
    OBVIOUS
  <2>2. Deployed(0, TRUE) \subseteq Objects
    BY <1>2, <2>1, Zenon
  <2> QED BY <1>4, <2>2
<1> QED BY <1>6, <1>7, <1>8, <1>9

----------------------------------------------------------------------------
(* What a script consists of.                                                 *)

(* A statement changes only tables that it locks.                             *)
WellFormed(op) ==
    /\ op.adds \subseteq Objects
    /\ \A o \in op.adds \union op.drops : o[1] \in LocksOf(op)
    /\ op.emptied \subseteq LocksOf(op)
    /\ LocksOf(op) \subseteq Tables /\ DOMAIN op.locks \subseteq {1, 2, 3}

(* The tables that a statement on t with references locks.                    *)
LEMMA LocksAre ==
    ASSUME NEW op, NEW t \in Tables, NEW refs \in Seq(Tables), Len(refs) <= 2,
           op.locks = <<t>> \o refs
    PROVE  /\ LocksOf(op) = {t} \union {refs[i] : i \in DOMAIN refs}
           /\ LocksOf(op) \subseteq Tables /\ DOMAIN op.locks \subseteq {1, 2, 3}
<1> DEFINE one == <<t>>
           l == one \o refs
<1>1. one \in Seq(Tables) /\ Len(one) = 1 /\ one[1] = t
  OBVIOUS
<1> HIDE DEF one
<1>2. /\ l \in Seq(Tables) /\ Len(l) = 1 + Len(refs)
      /\ \A i \in 1 .. 1 + Len(refs) : l[i] = IF i <= 1 THEN one[i] ELSE refs[i - 1]
  <2>1. /\ l \in Seq(Tables) /\ Len(l) = Len(one) + Len(refs)
        /\ \A i \in 1 .. Len(one) + Len(refs) :
              l[i] = IF i <= Len(one) THEN one[i] ELSE refs[i - Len(one)]
    BY <1>1, ConcatProperties
  <2> HIDE DEF l
  <2> QED BY <1>1, <2>1
<1> HIDE DEF l
<1>3. Len(refs) \in 0 .. 2 /\ DOMAIN refs = 1 .. Len(refs) /\ DOMAIN l = 1 .. 1 + Len(refs)
  <2>1. Len(refs) \in Nat /\ DOMAIN refs = 1 .. Len(refs)
    BY LenProperties
  <2>2. DOMAIN l = 1 .. Len(l)
    BY <1>2, LenProperties
  <2> QED BY <1>2, <2>1, <2>2
<1>4. l[1] = t /\ \A i \in 1 .. Len(refs) : i + 1 \in DOMAIN l /\ l[i + 1] = refs[i]
  BY <1>1, <1>2, <1>3
<1>5. \A i \in DOMAIN l : i = 1 \/ (i - 1 \in DOMAIN refs /\ l[i] = refs[i - 1])
  BY <1>2, <1>3
<1>6. op.locks = l
  BY DEF one, l
<1>7. LocksOf(op) = {t} \union {refs[i] : i \in DOMAIN refs}
  <2>1. \A x \in LocksOf(op) : x \in {t} \union {refs[i] : i \in DOMAIN refs}
    BY <1>4, <1>5, <1>6 DEF LocksOf
  <2>2. t \in LocksOf(op)
    BY <1>3, <1>4, <1>6 DEF LocksOf
  <2>3. \A i \in DOMAIN refs : refs[i] \in LocksOf(op)
    BY <1>3, <1>4, <1>6 DEF LocksOf
  <2> QED BY <2>1, <2>2, <2>3
<1>8. \A i \in DOMAIN refs : refs[i] \in Tables
  BY <1>3
<1> QED BY <1>3, <1>6, <1>7, <1>8

\* the statement is one of a script and leaves alembic_version alone
Scripted(op) == WellFormed(op) /\ "alembic_version" \notin LocksOf(op)

(* The table that a statement on t alone locks.                               *)
LEMMA SingleLock ==
    ASSUME NEW op, NEW t \in Tables, op.locks = <<t>>
    PROVE  LocksOf(op) = {t} /\ DOMAIN op.locks \subseteq {1, 2, 3}
<1>1. DOMAIN <<t>> = {1} /\ <<t>>[1] = t
  OBVIOUS
<1> QED BY <1>1 DEF LocksOf

(* AddPart may be in a script.                                                *)
LEMMA AddPartFits ==
    ASSUME NEW t \in Tables \ {"alembic_version"}, NEW p, <<t, p>> \in Objects
    PROVE  Scripted(AddPart(t, p)) /\ ~AddPart(t, p).named
<1> DEFINE op == AddPart(t, p)
<1>1. /\ op.locks = <<t>> /\ op.adds = {<<t, p>>} /\ op.drops = {} /\ op.emptied = {}
      /\ op.named = FALSE
  BY DEF AddPart, Statement
<1> HIDE DEF op
<1>2. LocksOf(op) = {t} /\ DOMAIN op.locks \subseteq {1, 2, 3}
  BY <1>1, SingleLock
<1>3. <<t, p>>[1] = t
  OBVIOUS
<1>4. Scripted(op)
  BY <1>1, <1>2, <1>3 DEF Scripted, WellFormed
<1> QED BY <1>1, <1>4 DEF op

(* DropPart may be in a script.                                               *)
LEMMA DropPartFits ==
    ASSUME NEW t \in Tables \ {"alembic_version"}, NEW p
    PROVE  Scripted(DropPart(t, p)) /\ ~DropPart(t, p).named
<1> DEFINE op == DropPart(t, p)
<1>1. /\ op.locks = <<t>> /\ op.drops = {<<t, p>>} /\ op.adds = {} /\ op.emptied = {}
      /\ op.named = FALSE
  BY DEF DropPart, Statement
<1> HIDE DEF op
<1>2. LocksOf(op) = {t} /\ DOMAIN op.locks \subseteq {1, 2, 3}
  BY <1>1, SingleLock
<1>3. <<t, p>>[1] = t
  OBVIOUS
<1>4. Scripted(op)
  BY <1>1, <1>2, <1>3 DEF Scripted, WellFormed
<1> QED BY <1>1, <1>4 DEF op

(* RequireUsernames may be in a script; it can fail for the names in users.   *)
LEMMA RequireUsernamesFits == Scripted(RequireUsernames)
<1> DEFINE op == RequireUsernames
           o == <<"users", "username not null">>
<1>1. /\ op.locks = <<"users">> /\ op.adds = {o} /\ op.drops = {} /\ op.emptied = {}
  BY DEF RequireUsernames, AddPart, Statement
<1>2. o \in Objects
  <2>1. o \in Made(2)
    BY MadeIs
  <2> HIDE DEF o
  <2> QED BY <2>1, ObjectsAre
<1>3. o[1] = "users" /\ "users" \in Tables /\ "users" # "alembic_version"
  BY DEF Tables
<1> HIDE DEF op, o
<1>4. LocksOf(op) = {"users"} /\ DOMAIN op.locks \subseteq {1, 2, 3}
  BY <1>1, <1>3, SingleLock
<1>5. Scripted(op)
  BY <1>1, <1>2, <1>3, <1>4 DEF Scripted, WellFormed
<1> QED BY <1>5 DEF op

(* The Stamp changes and locks alembic_version alone.                         *)
LEMMA StampFits ==
    ASSUME NEW m \in 0 .. 5, NEW n \in 0 .. 5
    PROVE  /\ WellFormed(Stamp(m, n)) /\ ~Stamp(m, n).named
           /\ LocksOf(Stamp(m, n)) = {"alembic_version"}
<1> DEFINE op == Stamp(m, n)
<1>1. /\ op.locks = <<"alembic_version">> /\ op.adds = VersionRow(n)
      /\ op.drops = VersionRow(m) /\ op.emptied = {} /\ op.named = FALSE
  BY DEF Stamp, Statement
<1> HIDE DEF op
<1>2. "alembic_version" \in Tables
  BY DEF Tables
<1>3. LocksOf(op) = {"alembic_version"} /\ DOMAIN op.locks \subseteq {1, 2, 3}
  BY <1>1, <1>2, SingleLock
<1>4. \A o \in VersionRow(m) \union VersionRow(n) : o[1] = "alembic_version"
  BY DEF VersionRow
<1>5. WellFormed(op)
  BY <1>1, <1>2, <1>3, <1>4, ObjectsAre DEF WellFormed
<1> QED BY <1>1, <1>3, <1>5 DEF op

(* ChangeType may be in a script.                                             *)
LEMMA ChangeTypeFits ==
    ASSUME NEW t \in Tables \ {"alembic_version"}, NEW p, NEW q, <<t, q>> \in Objects,
           NEW refs \in Seq(Tables \ {"alembic_version"}), Len(refs) <= 2
    PROVE  Scripted(ChangeType(t, refs, p, q)) /\ ~ChangeType(t, refs, p, q).named
<1> DEFINE op == ChangeType(t, refs, p, q)
<1>1. /\ op.locks = <<t>> \o refs /\ op.drops = {<<t, p>>} /\ op.adds = {<<t, q>>}
      /\ op.emptied = {} /\ op.named = FALSE
  BY DEF ChangeType, Statement
<1> HIDE DEF op
<1>2. refs \in Seq(Tables)
  BY SeqMonotonic
<1>3. /\ LocksOf(op) = {t} \union {refs[i] : i \in DOMAIN refs}
      /\ LocksOf(op) \subseteq Tables /\ DOMAIN op.locks \subseteq {1, 2, 3}
  BY <1>1, <1>2, LocksAre
<1>4. <<t, p>>[1] = t /\ <<t, q>>[1] = t
  OBVIOUS
<1>5. \A i \in DOMAIN refs : refs[i] # "alembic_version"
  BY LenProperties
<1>6. Scripted(op)
  <2>1. \A o \in {<<t, p>>, <<t, q>>} : o[1] = t
    BY <1>4
  <2>2. "alembic_version" \notin LocksOf(op)
    BY <1>3, <1>5
  <2>3. \A o \in op.adds \union op.drops : o[1] \in LocksOf(op)
    BY <1>1, <1>3, <2>1
  <2> QED BY <1>1, <1>3, <2>2, <2>3 DEF Scripted, WellFormed
<1> QED BY <1>1, <1>6 DEF op

(* DropTable may be in a script.                                              *)
LEMMA DropTableFits ==
    ASSUME NEW t \in Tables \ {"alembic_version"},
           NEW refs \in Seq(Tables \ {"alembic_version"}), Len(refs) <= 2
    PROVE  Scripted(DropTable(t, refs)) /\ ~DropTable(t, refs).named
<1> DEFINE op == DropTable(t, refs)
<1>1. /\ op.locks = <<t>> \o refs /\ op.drops = {} /\ op.adds = {}
      /\ op.emptied = {t} /\ op.named = FALSE
  BY DEF DropTable, Statement
<1> HIDE DEF op
<1>2. refs \in Seq(Tables)
  BY SeqMonotonic
<1>3. /\ LocksOf(op) = {t} \union {refs[i] : i \in DOMAIN refs}
      /\ LocksOf(op) \subseteq Tables /\ DOMAIN op.locks \subseteq {1, 2, 3}
  BY <1>1, <1>2, LocksAre
<1>4. \A i \in DOMAIN refs : refs[i] # "alembic_version"
  BY LenProperties
<1>5. Scripted(op)
  <2>1. "alembic_version" \notin LocksOf(op)
    BY <1>3, <1>4
  <2> QED BY <1>1, <1>3, <2>1 DEF Scripted, WellFormed
<1> QED BY <1>1, <1>5 DEF op

(* CreateTable may be in a script if the table is not alembic_version.        *)
LEMMA CreateTableFits ==
    ASSUME NEW t \in Tables, NEW refs \in Seq(Tables \ {"alembic_version"}), Len(refs) <= 2,
           NEW parts, CreateTable(t, refs, parts).adds \subseteq Objects
    PROVE  /\ WellFormed(CreateTable(t, refs, parts)) /\ ~CreateTable(t, refs, parts).named
           /\ t # "alembic_version" => Scripted(CreateTable(t, refs, parts))
           /\ refs = <<>> => LocksOf(CreateTable(t, refs, parts)) = {t}
<1> DEFINE op == CreateTable(t, refs, parts)
           R == {refs[i] : i \in DOMAIN refs}
           adds == {Table(t)} \union ({t} \X (R \union parts))
<1>1. /\ op.locks = <<t>> \o refs /\ op.drops = {} /\ op.adds = adds
      /\ op.emptied = {} /\ op.named = FALSE
  BY DEF CreateTable, Statement
<1>2. \A o \in adds : o[1] = t
  <2>1. Table(t)[1] = t
    BY DEF Table
  <2> QED BY <2>1
<1> HIDE DEF adds
<1>3. refs \in Seq(Tables)
  BY SeqMonotonic
<1> HIDE DEF op
<1>4. /\ LocksOf(op) = {t} \union R
      /\ LocksOf(op) \subseteq Tables /\ DOMAIN op.locks \subseteq {1, 2, 3}
  BY <1>1, <1>3, LocksAre
<1>5. "alembic_version" \notin R
  BY LenProperties
<1>6. WellFormed(op)
  BY <1>1, <1>2, <1>4 DEF WellFormed, op
<1>7. refs = <<>> => R = {}
  OBVIOUS
<1> HIDE DEF R
<1>8. t # "alembic_version" => Scripted(op)
  BY <1>4, <1>5, <1>6 DEF Scripted
<1>9. refs = <<>> => LocksOf(op) = {t}
  BY <1>4, <1>7
<1> QED BY <1>1, <1>6, <1>8, <1>9 DEF op

(* Such a statement, which asks for usernames only if names.                  *)
Fits(op, names) == Scripted(op) /\ (op.named => names)

\* a script without its Stamp; names tells whether it asks for usernames
IsBody(ops, names) ==
    /\ \E S : ops \in Seq(S)
    /\ Len(ops) \in 1 .. 7
    /\ \A i \in 1 .. Len(ops) : Fits(ops[i], names)

(* A body of one statement.                                                   *)
LEMMA OneFit ==
    ASSUME NEW names, NEW a,
           Fits(a, names)
    PROVE  IsBody(<<a>>, names)
<1> DEFINE ops == <<a>>
<1>1. /\ ops \in Seq({a}) /\ Len(ops) = 1
      /\ ops[1] = a
  OBVIOUS
<1> HIDE DEF ops
<1>2. ASSUME NEW i \in 1 .. 1 PROVE Fits(ops[i], names)
  <2>1. CASE i = 1
    BY <1>1, <2>1
  <2> QED BY <2>1
<1>3. IsBody(ops, names)
  BY <1>1, <1>2 DEF IsBody
<1> QED BY <1>3 DEF ops

(* A body of two statements.                                                  *)
LEMMA TwoFit ==
    ASSUME NEW names, NEW a, NEW b,
           Fits(a, names), Fits(b, names)
    PROVE  IsBody(<<a, b>>, names)
<1> DEFINE ops == <<a, b>>
<1>1. /\ ops \in Seq({a, b}) /\ Len(ops) = 2
      /\ ops[1] = a /\ ops[2] = b
  OBVIOUS
<1> HIDE DEF ops
<1>2. ASSUME NEW i \in 1 .. 2 PROVE Fits(ops[i], names)
  <2>1. CASE i = 1
    BY <1>1, <2>1
  <2>2. CASE i = 2
    BY <1>1, <2>2
  <2> QED BY <2>1, <2>2
<1>3. IsBody(ops, names)
  BY <1>1, <1>2 DEF IsBody
<1> QED BY <1>3 DEF ops

(* A body of four statements.                                                 *)
LEMMA FourFit ==
    ASSUME NEW names, NEW a, NEW b, NEW c, NEW d,
           Fits(a, names), Fits(b, names), Fits(c, names), Fits(d, names)
    PROVE  IsBody(<<a, b, c, d>>, names)
<1> DEFINE ops == <<a, b, c, d>>
<1>1. /\ ops \in Seq({a, b, c, d}) /\ Len(ops) = 4
      /\ ops[1] = a /\ ops[2] = b /\ ops[3] = c /\ ops[4] = d
  OBVIOUS
<1> HIDE DEF ops
<1>2. ASSUME NEW i \in 1 .. 4 PROVE Fits(ops[i], names)
  <2>1. CASE i = 1
    BY <1>1, <2>1
  <2>2. CASE i = 2
    BY <1>1, <2>2
  <2>3. CASE i = 3
    BY <1>1, <2>3
  <2>4. CASE i = 4
    BY <1>1, <2>4
  <2> QED BY <2>1, <2>2, <2>3, <2>4
<1>3. IsBody(ops, names)
  BY <1>1, <1>2 DEF IsBody
<1> QED BY <1>3 DEF ops

(* A body of seven statements.                                                *)
LEMMA SevenFit ==
    ASSUME NEW names, NEW a, NEW b, NEW c, NEW d, NEW e, NEW f, NEW g,
           Fits(a, names), Fits(b, names), Fits(c, names), Fits(d, names),
           Fits(e, names), Fits(f, names), Fits(g, names)
    PROVE  IsBody(<<a, b, c, d, e, f, g>>, names)
<1> DEFINE ops == <<a, b, c, d, e, f, g>>
<1>1. /\ ops \in Seq({a, b, c, d, e, f, g}) /\ Len(ops) = 7
      /\ ops[1] = a /\ ops[2] = b /\ ops[3] = c /\ ops[4] = d /\ ops[5] = e /\ ops[6] = f /\ ops[7] = g
  OBVIOUS
<1> HIDE DEF ops
<1>2. ASSUME NEW i \in 1 .. 7 PROVE Fits(ops[i], names)
  <2>1. CASE i = 1
    BY <1>1, <2>1
  <2>2. CASE i = 2
    BY <1>1, <2>2
  <2>3. CASE i = 3
    BY <1>1, <2>3
  <2>4. CASE i = 4
    BY <1>1, <2>4
  <2>5. CASE i = 5
    BY <1>1, <2>5
  <2>6. CASE i = 6
    BY <1>1, <2>6
  <2>7. CASE i = 7
    BY <1>1, <2>7
  <2> QED BY <2>1, <2>2, <2>3, <2>4, <2>5, <2>6, <2>7
<1>3. IsBody(ops, names)
  BY <1>1, <1>2 DEF IsBody
<1> QED BY <1>3 DEF ops


(* What the scripts add belongs to the schema of some revision.               *)
LEMMA ScriptObjects ==
    /\ Table("tmp") \in Objects /\ Table("users") \in Objects /\ Table("sessions") \in Objects
    /\ Table("spaces") \in Objects /\ Table("space_memberships") \in Objects
    /\ <<"users", "telegram_id unique">> \in Objects
    /\ <<"users", "username not null">> \in Objects
    /\ <<"users", "last_login_at">> \in Objects
    /\ <<"sessions", "users">> \in Objects
    /\ <<"sessions", "index user_id">> \in Objects
    /\ <<"sessions", "user_id bigint">> \in Objects
    /\ <<"sessions", "token_hash key">> \in Objects
    /\ <<"sessions", "index expires_at">> \in Objects
    /\ <<"sessions", "index revoked_at">> \in Objects
    /\ <<"sessions", "user_id integer">> \in Objects
    /\ <<"sessions", "unique index token_hash">> \in Objects
    /\ <<"space_memberships", "spaces">> \in Objects
    /\ <<"space_memberships", "users">> \in Objects
<1>1. Made(2) \subseteq Objects /\ Made(4) \subseteq Objects /\ Made(5) \subseteq Objects
  BY ObjectsAre
<1>2. /\ <<"users", "username not null">> \in Made(2)
      /\ <<"sessions", "user_id bigint">> \in Made(4)
      /\ <<"sessions", "token_hash key">> \in Made(4)
      /\ <<"sessions", "index expires_at">> \in Made(4)
      /\ <<"sessions", "index revoked_at">> \in Made(4)
  BY MadeIs
<1>3. /\ <<"sessions", "user_id integer">> \in Made(5)
      /\ <<"sessions", "unique index token_hash">> \in Made(5)
      /\ Table("spaces") \in Made(5) /\ Table("space_memberships") \in Made(5)
      /\ <<"space_memberships", "spaces">> \in Made(5)
      /\ <<"space_memberships", "users">> \in Made(5)
      /\ WithSessions \subseteq Made(5)
  BY MadeIs
<1>4. /\ Table("sessions") \in WithSessions /\ <<"sessions", "users">> \in WithSessions
      /\ <<"sessions", "index user_id">> \in WithSessions
      /\ <<"users", "last_login_at">> \in WithLogins /\ WithLogins \subseteq WithSessions
      /\ Table("users") \in WithUsers /\ <<"users", "telegram_id unique">> \in WithUsers
      /\ WithUsers \subseteq WithLogins
      /\ Table("tmp") \in WithTmp /\ WithTmp \subseteq WithUsers
  BY DEF WithSessions, WithLogins, WithUsers, WithTmp
<1> QED BY <1>1, <1>2, <1>3, <1>4

(* The tables that the scripts create.                                        *)
LEMMA CreatesFit ==
    /\ Fits(CreateTable("tmp", <<>>, {}), FALSE)
    /\ Fits(CreateTable("users", <<>>, {"telegram_id unique", "username not null"}), FALSE)
    /\ Fits(CreateTable("sessions", <<"users">>, {"user_id bigint", "token_hash key"}), FALSE)
    /\ Fits(CreateTable("spaces", <<>>, {}), FALSE)
    /\ Fits(CreateTable("space_memberships", <<"spaces", "users">>, {}), FALSE)
<1> DEFINE U == Tables \ {"alembic_version"}
<1>1. /\ "tmp" \in U /\ "users" \in U /\ "sessions" \in U /\ "spaces" \in U
      /\ "space_memberships" \in U
  BY DEF Tables
<1>2. /\ <<>> \in Seq(U) /\ Len(<<>>) <= 2 /\ <<"users">> \in Seq(U) /\ Len(<<"users">>) <= 2
      /\ <<"spaces", "users">> \in Seq(U) /\ Len(<<"spaces", "users">>) <= 2
  BY <1>1
<1>3. ASSUME NEW t \in U, NEW refs \in Seq(U), Len(refs) <= 2, NEW parts,
             CreateTable(t, refs, parts).adds \subseteq Objects
      PROVE  Fits(CreateTable(t, refs, parts), FALSE)
  BY <1>3, CreateTableFits DEF Fits
<1>4. ASSUME NEW t, Table(t) \in Objects
      PROVE  CreateTable(t, <<>>, {}).adds \subseteq Objects
  BY <1>4 DEF CreateTable, Statement
<1>5. CreateTable("users", <<>>, {"telegram_id unique", "username not null"}).adds
        = {Table("users")} \union {<<"users", "telegram_id unique">>,
                                   <<"users", "username not null">>}
  <2> DEFINE parts == {"telegram_id unique", "username not null"}
             refs == <<>>
  <2>1. {"users"} \X parts
          = {<<"users", "telegram_id unique">>, <<"users", "username not null">>}
    BY PairsOf
  <2>2. {refs[i] : i \in DOMAIN refs} = {}
    OBVIOUS
  <2> HIDE DEF parts, refs
  <2>3. CreateTable("users", refs, parts).adds
          = {Table("users")} \union ({"users"} \X ({refs[i] : i \in DOMAIN refs} \union parts))
    BY DEF CreateTable, Statement
  <2>4. {} \union parts = parts
    OBVIOUS
  <2> QED BY <2>1, <2>2, <2>3, <2>4 DEF parts, refs
<1>6. CreateTable("sessions", <<"users">>, {"user_id bigint", "token_hash key"}).adds
        = {Table("sessions")} \union ({<<"sessions", "users">>}
            \union {<<"sessions", "user_id bigint">>, <<"sessions", "token_hash key">>})
  <2> DEFINE parts == {"user_id bigint", "token_hash key"}
             refs == <<"users">>
  <2>1. {"sessions"} \X parts
          = {<<"sessions", "user_id bigint">>, <<"sessions", "token_hash key">>}
    BY PairsOf
  <2>2. {"sessions"} \X {"users"} = {<<"sessions", "users">>}
    BY PairsOf
  <2>3. {refs[i] : i \in DOMAIN refs} = {"users"}
    OBVIOUS
  <2> HIDE DEF parts, refs
  <2>4. CreateTable("sessions", refs, parts).adds
          = {Table("sessions")} \union ({"sessions"} \X ({refs[i] : i \in DOMAIN refs} \union parts))
    BY DEF CreateTable, Statement
  <2>5. {"sessions"} \X ({"users"} \union parts)
          = ({"sessions"} \X {"users"}) \union ({"sessions"} \X parts)
    OBVIOUS
  <2> QED BY <2>1, <2>2, <2>3, <2>4, <2>5 DEF parts, refs
<1>7. CreateTable("space_memberships", <<"spaces", "users">>, {}).adds
        = {Table("space_memberships")} \union
            {<<"space_memberships", "spaces">>, <<"space_memberships", "users">>}
  <2> DEFINE R == {"spaces", "users"}
             refs == <<"spaces", "users">>
  <2>1. {"space_memberships"} \X R
          = {<<"space_memberships", "spaces">>, <<"space_memberships", "users">>}
    BY PairsOf
  <2>2. {refs[i] : i \in DOMAIN refs} = R
    <3>1. DOMAIN refs = {1, 2}
      OBVIOUS
    <3> QED BY <3>1
  <2> HIDE DEF R, refs
  <2>3. CreateTable("space_memberships", refs, {}).adds
          = {Table("space_memberships")}
              \union ({"space_memberships"} \X ({refs[i] : i \in DOMAIN refs} \union {}))
    BY DEF CreateTable, Statement
  <2>4. R \union {} = R
    OBVIOUS
  <2> QED BY <2>1, <2>2, <2>3, <2>4 DEF refs
<1> HIDE DEF U
<1>8. /\ Fits(CreateTable("tmp", <<>>, {}), FALSE)
      /\ Fits(CreateTable("spaces", <<>>, {}), FALSE)
  BY <1>1, <1>2, <1>3, <1>4, ScriptObjects
<1>9. Fits(CreateTable("users", <<>>, {"telegram_id unique", "username not null"}), FALSE)
  <2>1. CreateTable("users", <<>>, {"telegram_id unique", "username not null"}).adds
          \subseteq Objects
    BY <1>5, ScriptObjects
  <2> QED BY <1>1, <1>2, <1>3, <2>1
<1>10. Fits(CreateTable("sessions", <<"users">>, {"user_id bigint", "token_hash key"}), FALSE)
  <2>1. CreateTable("sessions", <<"users">>, {"user_id bigint", "token_hash key"}).adds
          \subseteq Objects
    BY <1>6, ScriptObjects
  <2> QED BY <1>1, <1>2, <1>3, <2>1
<1>11. Fits(CreateTable("space_memberships", <<"spaces", "users">>, {}), FALSE)
  <2>1. CreateTable("space_memberships", <<"spaces", "users">>, {}).adds \subseteq Objects
    BY <1>7, ScriptObjects
  <2> QED BY <1>1, <1>2, <1>3, <2>1
<1> QED BY <1>8, <1>9, <1>10, <1>11

(* No upgrade() asks for usernames or touches alembic_version.                *)
LEMMA UpgradesFit == \A n \in 0 .. 4 : IsBody(Upgrades[n + 1], FALSE)
<1> DEFINE U == Tables \ {"alembic_version"}
<1>1. "users" \in U /\ "sessions" \in U /\ <<"users">> \in Seq(U) /\ Len(<<"users">>) <= 2
  BY DEF Tables
<1> HIDE DEF U
<1>3. IsBody(Upgrade0001, FALSE)
  BY CreatesFit, OneFit DEF Upgrade0001
<1>4. IsBody(Upgrade0002, FALSE)
  BY CreatesFit, OneFit DEF Upgrade0002
<1>5. IsBody(Upgrade0003, FALSE)
  <2>1. Fits(AddPart("users", "last_login_at"), FALSE)
    BY <1>1, ScriptObjects, AddPartFits DEF Fits, U
  <2>2. Fits(DropPart("users", "username not null"), FALSE)
    BY <1>1, DropPartFits DEF Fits, U
  <2> QED BY <2>1, <2>2, TwoFit DEF Upgrade0003
<1>6. IsBody(Upgrade0004, FALSE)
  <2>1. Fits(AddPart("sessions", "index user_id"), FALSE)
    BY <1>1, ScriptObjects, AddPartFits DEF Fits, U
  <2>2. Fits(AddPart("sessions", "index expires_at"), FALSE)
    BY <1>1, ScriptObjects, AddPartFits DEF Fits, U
  <2>3. Fits(AddPart("sessions", "index revoked_at"), FALSE)
    BY <1>1, ScriptObjects, AddPartFits DEF Fits, U
  <2> QED BY <2>1, <2>2, <2>3, CreatesFit, FourFit DEF Upgrade0004
<1>7. IsBody(Upgrade0005, FALSE)
  <2>1. Fits(ChangeType("sessions", <<"users">>, "user_id bigint", "user_id integer"), FALSE)
    BY <1>1, ScriptObjects, ChangeTypeFits DEF Fits, U
  <2>2. /\ Fits(DropPart("sessions", "index expires_at"), FALSE)
        /\ Fits(DropPart("sessions", "index revoked_at"), FALSE)
        /\ Fits(DropPart("sessions", "token_hash key"), FALSE)
    BY <1>1, DropPartFits DEF Fits, U
  <2>3. Fits(AddPart("sessions", "unique index token_hash"), FALSE)
    BY <1>1, ScriptObjects, AddPartFits DEF Fits, U
  <2> QED BY <2>1, <2>2, <2>3, CreatesFit, SevenFit DEF Upgrade0005
<1>8. /\ Upgrades[1] = Upgrade0001 /\ Upgrades[2] = Upgrade0002 /\ Upgrades[3] = Upgrade0003
      /\ Upgrades[4] = Upgrade0004 /\ Upgrades[5] = Upgrade0005
  BY DEF Upgrades
<1>9. \A n \in 0 .. 4 : n + 1 \in {1, 2, 3, 4, 5}
  OBVIOUS
<1> QED BY <1>3, <1>4, <1>5, <1>6, <1>7, <1>8, <1>9

(* Of the downgrade()s that of revision 3 alone asks for usernames.           *)
LEMMA DowngradesFit == \A n \in 1 .. 5 : IsBody(Downgrades[n], n = 3)
<1> DEFINE U == Tables \ {"alembic_version"}
           none == <<>>
           refs == <<"spaces", "users">>
           one == <<"users">>
<1>1. /\ "tmp" \in U /\ "users" \in U /\ "sessions" \in U /\ "spaces" \in U
      /\ "space_memberships" \in U
  BY DEF Tables
<1>2. /\ none \in Seq(U) /\ Len(none) <= 2 /\ refs \in Seq(U) /\ Len(refs) <= 2
      /\ one \in Seq(U) /\ Len(one) <= 2
  BY <1>1
<1> HIDE DEF none, refs, one
<1>3. IsBody(Downgrade0001, FALSE)
  <2>1. Fits(DropTable("tmp", none), FALSE)
    BY <1>1, <1>2, DropTableFits DEF Fits
  <2> QED BY <2>1, OneFit DEF Downgrade0001, none
<1>4. IsBody(Downgrade0002, FALSE)
  <2>1. Fits(DropTable("users", none), FALSE)
    BY <1>1, <1>2, DropTableFits DEF Fits
  <2> QED BY <2>1, OneFit DEF Downgrade0002, none
<1>5. IsBody(Downgrade0003, TRUE)
  <2>1. Fits(RequireUsernames, TRUE)
    BY RequireUsernamesFits DEF Fits
  <2>2. Fits(DropPart("users", "last_login_at"), TRUE)
    BY <1>1, DropPartFits DEF Fits
  <2> QED BY <2>1, <2>2, TwoFit DEF Downgrade0003
<1>6. IsBody(Downgrade0004, FALSE)
  <2>1. /\ Fits(DropPart("sessions", "index revoked_at"), FALSE)
        /\ Fits(DropPart("sessions", "index expires_at"), FALSE)
        /\ Fits(DropPart("sessions", "index user_id"), FALSE)
    BY <1>1, DropPartFits DEF Fits
  <2>2. Fits(DropTable("sessions", one), FALSE)
    BY <1>1, <1>2, DropTableFits DEF Fits
  <2> QED BY <2>1, <2>2, FourFit DEF Downgrade0004, one
<1>7. IsBody(Downgrade0005, FALSE)
  <2>1. Fits(DropPart("sessions", "unique index token_hash"), FALSE)
    BY <1>1, DropPartFits DEF Fits
  <2>2. Fits(AddPart("sessions", "token_hash key"), FALSE)
    BY <1>1, ScriptObjects, AddPartFits DEF Fits
  <2>3. Fits(AddPart("sessions", "index revoked_at"), FALSE)
    BY <1>1, ScriptObjects, AddPartFits DEF Fits
  <2>4. Fits(AddPart("sessions", "index expires_at"), FALSE)
    BY <1>1, ScriptObjects, AddPartFits DEF Fits
  <2>5. Fits(ChangeType("sessions", one, "user_id integer", "user_id bigint"), FALSE)
    BY <1>1, <1>2, ScriptObjects, ChangeTypeFits DEF Fits
  <2>6. Fits(DropTable("space_memberships", refs), FALSE)
    BY <1>1, <1>2, DropTableFits DEF Fits
  <2>7. Fits(DropTable("spaces", none), FALSE)
    BY <1>1, <1>2, DropTableFits DEF Fits
  <2> QED BY <2>1, <2>2, <2>3, <2>4, <2>5, <2>6, <2>7, SevenFit
          DEF Downgrade0005, one, refs, none
<1>8. /\ Downgrades[1] = Downgrade0001 /\ Downgrades[2] = Downgrade0002
      /\ Downgrades[3] = Downgrade0003 /\ Downgrades[4] = Downgrade0004
      /\ Downgrades[5] = Downgrade0005
  BY DEF Downgrades
<1>9. ASSUME NEW n \in 1 .. 5 PROVE IsBody(Downgrades[n], n = 3)
  <2>1. CASE n \in {1, 2, 4, 5}
    <3>1. IsBody(Downgrades[n], FALSE)
      BY <1>3, <1>4, <1>6, <1>7, <1>8, <2>1
    <3>2. (n = 3) = FALSE
      BY <2>1
    <3> QED BY <3>1, <3>2
  <2>2. CASE n = 3
    <3>1. IsBody(Downgrades[n], TRUE)
      BY <1>5, <1>8, <2>2
    <3>2. (n = 3) = TRUE
      BY <2>2
    <3> QED BY <3>1, <3>2
  <2> QED BY <2>1, <2>2
<1> QED BY <1>9

(* What there is of alembic_version once a revision is recorded.              *)
Recorded(n) == VersionRow(n) \union {Table("alembic_version")}

(* Two revisions have no row of alembic_version in common.                    *)
LEMMA RecordedIs ==
    /\ \A n \in 0 .. 5 : OfVersion(Recorded(n))
    /\ \A n \in 0 .. 5 : \A o \in VersionRow(n) : o # Table("alembic_version")
    /\ \A m, n \in 0 .. 5 : m # n => VersionRow(m) \intersect VersionRow(n) = {}
<1>1. VersionRow(0) = {} /\ \A n \in 1 .. 5 : VersionRow(n) = {<<"alembic_version", Revisions[n]>>}
  BY DEF VersionRow
<1>2. \A n \in 0 .. 5 : n = 0 \/ n \in 1 .. 5
  OBVIOUS
<1>3. "table" \notin Tables
  BY DEF Tables
<1>4. ASSUME NEW n \in 1 .. 5
      PROVE  /\ \A o \in VersionRow(n) : o[1] = "alembic_version" /\ o[2] = Revisions[n]
             /\ Revisions[n] # "table" /\ Revisions[n] \notin Tables
  BY <1>1, RevisionNames
<1>5. Table("alembic_version")[1] = "alembic_version" /\ Table("alembic_version")[2] = "table"
  BY DEF Table
<1>6. \A n \in 0 .. 5 : OfVersion(Recorded(n))
  BY <1>1, <1>2, <1>3, <1>4, <1>5 DEF OfVersion, Recorded
<1>7. \A n \in 0 .. 5 : \A o \in VersionRow(n) : o # Table("alembic_version")
  BY <1>1, <1>2, <1>4, <1>5
<1>8. ASSUME NEW m \in 0 .. 5, NEW n \in 0 .. 5, m # n
      PROVE  VersionRow(m) \intersect VersionRow(n) = {}
  <2>1. CASE m = 0 \/ n = 0
    BY <1>1, <2>1
  <2>2. CASE m \in 1 .. 5 /\ n \in 1 .. 5
    <3>1. Revisions[m] # Revisions[n]
      BY <1>8, <2>2, RevisionNames
    <3> QED BY <1>4, <2>2, <3>1
  <2> QED BY <1>2, <2>1, <2>2
<1> QED BY <1>6, <1>7, <1>8

(* A database at revision n is the schema of n and the record of n.           *)
LEMMA BaseIs ==
    ASSUME NEW n \in 0 .. 5, NEW fresh \in BOOLEAN
    PROVE  /\ Base(n, fresh) = IF fresh /\ n = 0 THEN {} ELSE Made(n) \union Recorded(n)
           /\ Base(n, fresh) \subseteq Objects
<1>1. SchemaAt[n] = Made(n)
  BY SchemaAtIs
<1>2. VersionRow(0) = {} /\ Made(0) = {}
  BY MadeIs DEF VersionRow
<1>3. Base(n, fresh) = IF fresh /\ n = 0 THEN {} ELSE Made(n) \union Recorded(n)
  BY <1>1, <1>2 DEF Base, Deployed, Recorded
<1>4. Base(n, fresh) \subseteq Objects
  <2>1. (n # 0 \/ ~fresh) \in BOOLEAN
    OBVIOUS
  <2> QED BY <2>1, ObjectsAre DEF Base
<1> QED BY <1>3, <1>4

(* The statements of two scripts, one after the other.                        *)
LEMMA Concat ==
    ASSUME NEW S, NEW T, NEW a \in Seq(S), NEW b \in Seq(T), NEW ab, ab = a \o b
    PROVE  /\ a \in Seq(S \union T) /\ b \in Seq(S \union T) /\ ab \in Seq(S \union T)
           /\ Len(a) \in Nat /\ Len(b) \in Nat /\ Len(ab) = Len(a) + Len(b)
           /\ \A i \in 1 .. Len(ab) : ab[i] = IF i <= Len(a) THEN a[i] ELSE b[i - Len(a)]
<1>1. a \in Seq(S \union T) /\ b \in Seq(S \union T)
  BY SeqMonotonic
<1>2. ab \in Seq(S \union T) /\ Len(ab) = Len(a) + Len(b)
      /\ \A i \in 1 .. Len(a) + Len(b) : ab[i] = IF i <= Len(a) THEN a[i] ELSE b[i - Len(a)]
  BY <1>1, ConcatProperties
<1>3. Len(a) \in Nat /\ Len(b) \in Nat
  BY LenProperties
<1> QED BY <1>1, <1>2, <1>3


(* The Stamp makes revision n the recorded one.                               *)
LEMMA StampEnds ==
    ASSUME NEW m \in 0 .. 5, NEW n \in 0 .. 5, m # n
    PROVE  Does(Stamp(m, n), Made(n) \union Recorded(m), Made(n) \union Recorded(n))
<1> DEFINE s == Made(n) \union Recorded(m)
           v == Table("alembic_version")
<1>1. \A o \in Made(n) : o[1] # "alembic_version"
  BY MadeApart
<1>2. \A o \in VersionRow(m) \union VersionRow(n) : o[1] = "alembic_version"
  BY DEF VersionRow
<1>3. VersionRow(n) \intersect VersionRow(m) = {}
  BY RecordedIs
<1>4. v \notin VersionRow(m) /\ v \notin VersionRow(n)
  BY RecordedIs
<1> HIDE DEF v
<1>5. VersionRow(m) \subseteq s /\ VersionRow(n) \intersect s = {}
  BY <1>1, <1>2, <1>3, <1>4 DEF Recorded, v
<1>6. (s \ VersionRow(m)) \union VersionRow(n) = Made(n) \union Recorded(n)
  BY <1>1, <1>2, <1>4 DEF Recorded, v
<1> HIDE DEF s
<1>7. Does(Stamp(m, n), s, (s \ VersionRow(m)) \union VersionRow(n))
  BY <1>5, StampDoes
<1> QED BY <1>6, <1>7 DEF s

(* A script is its statements and the Stamp.                                  *)
LEMMA BodyAndStamp ==
    ASSUME NEW body, NEW names, IsBody(body, names), NEW m \in 0 .. 5, NEW n \in 0 .. 5, m # n,
           Leads(body, Made(m) \union Recorded(m), Made(n) \union Recorded(m)),
           NEW ops, ops = body \o <<Stamp(m, n)>>
    PROVE  /\ Len(ops) = Len(body) + 1 /\ Len(body) \in 1 .. 7
           /\ \A i \in 1 .. Len(body) : ops[i] = body[i] /\ Fits(ops[i], names)
           /\ ops[Len(ops)] = Stamp(m, n)
           /\ Leads(ops, Made(m) \union Recorded(m), Made(n) \union Recorded(n))
<1> DEFINE stamp == Stamp(m, n)
           one == <<stamp>>
<1>1. one \in Seq({stamp}) /\ Len(one) = 1 /\ one[1] = stamp
  OBVIOUS
<1> HIDE DEF one
<1>2. PICK S : body \in Seq(S)
  BY DEF IsBody
<1>3. /\ Len(body) \in 1 .. 7
      /\ \A i \in 1 .. Len(body) : Fits(body[i], names)
  BY DEF IsBody
<1>4. ops = body \o one
  BY DEF one, stamp
<1>5. /\ body \in Seq(S \union {stamp}) /\ one \in Seq(S \union {stamp})
      /\ Len(ops) = Len(body) + Len(one)
      /\ \A i \in 1 .. Len(ops) : ops[i] = IF i <= Len(body) THEN body[i] ELSE one[i - Len(body)]
  BY <1>1, <1>2, <1>4, Concat
<1>6. Len(ops) = Len(body) + 1 /\ Len(body) + Len(one) <= 8
  <2>1. Len(body) \in 1 .. 7 /\ Len(one) = 1 /\ Len(ops) = Len(body) + Len(one)
    BY <1>1, <1>3, <1>5
  <2>2. \A x \in 1 .. 7 : \A y, z : y = 1 /\ z = x + y => z = x + 1 /\ x + y <= 8
    OBVIOUS
  <2> QED BY <2>1, <2>2, Zenon
<1>7. \A i \in 1 .. Len(body) : ops[i] = body[i]
  BY <1>3, <1>5, <1>6
<1>8. ops[Len(ops)] = stamp
  BY <1>1, <1>3, <1>5, <1>6
<1>9. Leads(one, Made(n) \union Recorded(m), Made(n) \union Recorded(n))
  BY <1>1, StampEnds, OneLead DEF stamp
<1>10. Leads(body \o one, Made(m) \union Recorded(m), Made(n) \union Recorded(n))
  BY <1>5, <1>6, <1>9, ConcatLeads
<1> QED BY <1>3, <1>4, <1>6, <1>7, <1>8, <1>10 DEF stamp

----------------------------------------------------------------------------
(* Where a script leads.                                                      *)

\* the command leads from revision n to revision k
Course(command, n, fresh, k) ==
    /\ n \in 0 .. 5 /\ k \in 0 .. 5 /\ fresh \in BOOLEAN
    /\ \/ command = "upgrade head" /\ n < 5 /\ k = n + 1
       \/ command = "downgrade -1" /\ n > 0 /\ k = n - 1 /\ ~fresh

(* A script that takes revision n to k, records it, and is put together from  *)
(* statements that change what they lock.                                     *)
IsScript(ops, command, n, fresh, k) ==
    /\ Len(ops) \in 2 .. 8
    /\ ops[Len(ops)] = Stamp(n, k)
    /\ \A i \in 1 .. Len(ops) - 1 :
          \/ Scripted(ops[i]) /\ (ops[i].named => command = "downgrade -1" /\ n = 3)
          \/ fresh /\ n = 0 /\ i = 1
    /\ fresh /\ n = 0 =>
          /\ Len(ops) = 3 /\ ops[1] = CreateTable("alembic_version", <<>>, {})
          /\ ops[2] = CreateTable("tmp", <<>>, {})
    /\ ~fresh /\ n = 0 => Len(ops) = 2 /\ ops[1] = CreateTable("tmp", <<>>, {})
    /\ Leads(ops, Base(n, fresh), Base(k, fresh))

(* Arithmetic of revisions and statements.                                    *)
LEMMA SmallNumbers ==
    /\ \A n \in 0 .. 5 : n < 5 => n \in 0 .. 4 /\ n # n + 1 /\ n + 1 # 0
    /\ \A n \in 0 .. 5 : n > 0 => n \in 1 .. 5 /\ n # n - 1 /\ n # 0
    /\ \A x \in 1 .. 7 : x + 1 \in 2 .. 8 /\ (x + 1) - 1 = x
    /\ 3 \in 2 .. 8 /\ 3 - 1 = 2 /\ \A i \in 1 .. 2 : i = 1 \/ i = 2
    /\ 0 \in 0 .. 5 /\ 1 \in 0 .. 5 /\ (0 # 1) = TRUE /\ (1 = 0) = FALSE /\ 0 + 1 = 1
    /\ 1 + 1 = 2 /\ 1 \in 1 .. 1
  OBVIOUS

(* Where a command leads from where.                                          *)
LEMMA CourseIs ==
    ASSUME NEW command, NEW n, NEW k, NEW fresh, Course(command, n, fresh, k)
    PROVE  /\ n \in 0 .. 5 /\ k \in 0 .. 5 /\ fresh \in BOOLEAN /\ n # k
           /\ fresh => k # 0
           /\ \/ command = "upgrade head" /\ n \in 0 .. 4 /\ k = n + 1
              \/ command = "downgrade -1" /\ n \in 1 .. 5 /\ k = n - 1 /\ n # 0 /\ ~fresh
  BY SmallNumbers, Zenon DEF Course

(* A script of three statements.                                              *)
LEMMA ThreeLead ==
    ASSUME NEW ops, NEW s0, NEW s1, NEW s2, NEW s3,
           Len(ops) = 3,
           Does(ops[1], s0, s1), Does(ops[2], s1, s2), Does(ops[3], s2, s3)
    PROVE  Leads(ops, s0, s3)
<1> DEFINE g == <<s0, s1, s2, s3>>
<1>1. /\ g[1] = s0
      /\ g[2] = s1
      /\ g[3] = s2
      /\ g[4] = s3
  OBVIOUS
<1> HIDE DEF g
<1>2. ASSUME NEW i \in 1 .. Len(ops) PROVE Does(ops[i], g[i], g[i + 1])
  <2>1. CASE i = 1
    BY <1>1, <2>1
  <2>2. CASE i = 2
    BY <1>1, <2>2
  <2>3. CASE i = 3
    BY <1>1, <2>3
  <2> QED BY <2>1, <2>2, <2>3
<1>3. Len(ops) \in 0 .. 8 /\ Len(ops) + 1 = 4
  OBVIOUS
<1>4. Leads(ops, g[1], g[Len(ops) + 1])
  BY <1>2, <1>3, StepsLead
<1> QED BY <1>1, <1>3, <1>4

(* The parts of a sequence that is put together from single statements.       *)
LEMMA OneIs == \A x : Len(<<x>>) = 1 /\ <<x>>[1] = x
  OBVIOUS

(* Three statements, one after the other.                                     *)
LEMMA ThreeInOne ==
    ASSUME NEW a, NEW b, NEW c
    PROVE  LET ops == (<<a>> \o <<b>>) \o <<c>>
           IN  Len(ops) = 3 /\ ops[1] = a /\ ops[2] = b /\ ops[3] = c
<1> DEFINE one == <<a>>
           two == <<b>>
           three == <<c>>
           A == {a}
           B == {b}
           C == {c}
           ab == one \o two
           ops == ab \o three
<1>1. one \in Seq(A) /\ two \in Seq(B) /\ three \in Seq(C)
  OBVIOUS
<1>2. Len(one) = 1 /\ one[1] = a /\ Len(two) = 1 /\ two[1] = b /\ Len(three) = 1 /\ three[1] = c
  OBVIOUS
<1>3. ab = one \o two
  OBVIOUS
<1>4. ops = ab \o three
  OBVIOUS
<1> HIDE DEF one, two, three, A, B, C, ab, ops
<1>5. /\ ab \in Seq(A \union B) /\ Len(ab) = Len(one) + Len(two)
      /\ \A i \in 1 .. Len(ab) : ab[i] = IF i <= Len(one) THEN one[i] ELSE two[i - Len(one)]
  BY <1>1, <1>3, Concat
<1>6. Len(ab) = 2 /\ ab[1] = a /\ ab[2] = b
  BY <1>2, <1>5
<1>7. ab \in Seq(A \union B)
  BY <1>5
<1>8. /\ Len(ops) = Len(ab) + Len(three)
      /\ \A i \in 1 .. Len(ops) : ops[i] = IF i <= Len(ab) THEN ab[i] ELSE three[i - Len(ab)]
  BY <1>1, <1>4, <1>7, Concat
<1>9. Len(ops) = 3 /\ ops[1] = a /\ ops[2] = b /\ ops[3] = c
  BY <1>2, <1>6, <1>8
<1> QED BY <1>9 DEF ops, ab, one, two, three

(* The first script, which creates alembic_version as well.                   *)
LEMMA FirstScript == IsScript(Script("upgrade head", 0, TRUE), "upgrade head", 0, TRUE, 1)
<1> DEFINE ops == Script("upgrade head", 0, TRUE)
           a == CreateTable("alembic_version", <<>>, {})
           b == CreateTable("tmp", <<>>, {})
           c == Stamp(0, 1)
           v == Table("alembic_version")
<1>1. ops = (<<a>> \o <<b>>) \o <<c>>
  <2>1. Upgrades[1] = <<b>>
    BY DEF Upgrades, Upgrade0001
  <2>2. 0 + 1 = 1
    OBVIOUS
  <2> HIDE DEF a, b, c
  <2>3. Script("upgrade head", 0, TRUE)
          = (IF TRUE /\ 0 = 0 THEN <<a>> ELSE <<>>) \o Upgrades[1] \o <<c>>
    BY <2>2, Zenon DEF Script, a, c
  <2>4. (IF TRUE /\ 0 = 0 THEN <<a>> ELSE <<>>) = <<a>>
    OBVIOUS
  <2> HIDE DEF ops
  <2> QED BY <2>1, <2>3, <2>4, Zenon DEF ops
<1> HIDE DEF ops, a, b, c
<1>2. Len(ops) = 3 /\ ops[1] = a /\ ops[2] = b /\ ops[3] = c
  <2> DEFINE abc == (<<a>> \o <<b>>) \o <<c>>
  <2>1. Len(abc) = 3 /\ abc[1] = a /\ abc[2] = b /\ abc[3] = c
    BY ThreeInOne
  <2> HIDE DEF abc
  <2> QED BY <1>1, <2>1, Zenon DEF abc
<1>3. Len(ops) \in 2 .. 8 /\ Len(ops) - 1 = 2 /\ \A i \in 1 .. 2 : i = 1 \/ i = 2
  BY <1>2, SmallNumbers, Zenon
<1>4. \A i \in 1 .. Len(ops) - 1 : (Scripted(ops[i]) /\ ~ops[i].named) \/ i = 1
  <2>1. Scripted(b) /\ ~b.named
    BY CreatesFit DEF b, Fits
  <2> QED BY <1>2, <1>3, <2>1, Zenon
<1>5. Does(a, {}, {v})
  <2>1. Does(a, {}, {} \union {v})
    BY PlainTableDoes DEF a
  <2> QED BY <2>1
<1>6. Does(b, {v}, {v} \union {Table("tmp")})
  <2>1. Table("tmp") # v
    BY DEF Table
  <2> HIDE DEF v
  <2> QED BY <2>1, PlainTableDoes DEF b
<1>7. 0 \in 0 .. 5 /\ 1 \in 0 .. 5 /\ (0 # 1) = TRUE
  BY SmallNumbers, Zenon
<1>8. Does(c, {v} \union {Table("tmp")}, Made(1) \union Recorded(1))
  <2>1. Made(1) \union Recorded(0) = {v} \union {Table("tmp")}
    BY MadeIs DEF Recorded, VersionRow, WithTmp
  <2>2. Does(Stamp(0, 1), Made(1) \union Recorded(0), Made(1) \union Recorded(1))
    BY <1>7, StampEnds, Zenon
  <2> QED BY <2>1, <2>2, Zenon DEF c
<1> HIDE DEF v
<1>9. Leads(ops, {}, Made(1) \union Recorded(1))
  BY <1>2, <1>5, <1>6, <1>8, ThreeLead, Zenon
<1>10. Base(0, TRUE) = {} /\ Base(1, TRUE) = Made(1) \union Recorded(1)
  <2>1. TRUE \in BOOLEAN
    OBVIOUS
  <2>2. /\ Base(0, TRUE) = IF TRUE /\ 0 = 0 THEN {} ELSE Made(0) \union Recorded(0)
        /\ Base(1, TRUE) = IF TRUE /\ 1 = 0 THEN {} ELSE Made(1) \union Recorded(1)
    BY <1>7, <2>1, BaseIs, Zenon
  <2>3. (1 = 0) = FALSE
    OBVIOUS
  <2> QED BY <2>2, <2>3, Zenon
<1>11. Leads(ops, Base(0, TRUE), Base(1, TRUE))
  BY <1>9, <1>10, Zenon
<1>12. ops[Len(ops)] = Stamp(0, 1)
  BY <1>2, Zenon DEF c
<1>13. IsScript(ops, "upgrade head", 0, TRUE, 1)
  BY <1>2, <1>3, <1>4, <1>11, <1>12, Zenon DEF IsScript, a, b
<1> QED BY <1>13 DEF ops

(* Any other script.                                                          *)
LEMMA FurtherScript ==
    ASSUME NEW command, NEW n, NEW k, NEW fresh, Course(command, n, fresh, k), ~(fresh /\ n = 0),
           NEW body, NEW names, IsBody(body, names), names => command = "downgrade -1" /\ n = 3,
           Leads(body, Made(n) \union Recorded(n), Made(k) \union Recorded(n)),
           n = 0 => body = <<CreateTable("tmp", <<>>, {})>>
    PROVE  IsScript(body \o <<Stamp(n, k)>>, command, n, fresh, k)
<1>1. /\ n \in 0 .. 5 /\ k \in 0 .. 5 /\ fresh \in BOOLEAN
      /\ n # k /\ (fresh => k # 0)
  BY CourseIs, Zenon
<1> DEFINE ops == body \o <<Stamp(n, k)>>
           b == CreateTable("tmp", <<>>, {})
<1>2. /\ Len(ops) = Len(body) + 1 /\ Len(body) \in 1 .. 7
      /\ \A i \in 1 .. Len(body) : ops[i] = body[i] /\ Fits(ops[i], names)
      /\ ops[Len(ops)] = Stamp(n, k)
      /\ Leads(ops, Made(n) \union Recorded(n), Made(k) \union Recorded(k))
  BY <1>1, BodyAndStamp, Zenon
<1> HIDE DEF ops
<1>3. Base(n, fresh) = Made(n) \union Recorded(n) /\ Base(k, fresh) = Made(k) \union Recorded(k)
  <2>1. /\ Base(n, fresh) = IF fresh /\ n = 0 THEN {} ELSE Made(n) \union Recorded(n)
        /\ Base(k, fresh) = IF fresh /\ k = 0 THEN {} ELSE Made(k) \union Recorded(k)
    BY <1>1, BaseIs, Zenon
  <2> QED BY <1>1, <2>1, Zenon
<1>4. \A x \in 1 .. 7 : x + 1 \in 2 .. 8 /\ (x + 1) - 1 = x
  BY SmallNumbers, Zenon
<1>5. Len(ops) \in 2 .. 8 /\ Len(ops) - 1 = Len(body)
  BY <1>2, <1>4, Zenon
<1>6. n = 0 => Len(ops) = 2 /\ ops[1] = b
  <2> HAVE n = 0
  <2>1. body = <<b>>
    OBVIOUS
  <2>2. Len(<<b>>) = 1 /\ <<b>>[1] = b /\ 1 + 1 = 2 /\ 1 \in 1 .. 1
    <3>1. \A x : Len(<<x>>) = 1 /\ <<x>>[1] = x
      BY OneIs, Zenon
    <3> QED BY <3>1, SmallNumbers, Zenon
  <2>3. Len(body) = 1 /\ body[1] = b
    BY <2>1, <2>2, Zenon
  <2>4. Len(ops) = 2
    BY <1>2, <2>2, <2>3, Zenon
  <2>5. 1 \in 1 .. Len(body)
    BY <2>2, <2>3, Zenon
  <2> QED BY <1>2, <2>3, <2>4, <2>5, Zenon
<1>7. \A i \in 1 .. Len(ops) - 1 :
         Scripted(ops[i]) /\ (ops[i].named => command = "downgrade -1" /\ n = 3)
  BY <1>2, <1>5, Zenon DEF Fits
<1>8. Leads(ops, Base(n, fresh), Base(k, fresh))
  BY <1>2, <1>3
<1>9. ops[Len(ops)] = Stamp(n, k)
  BY <1>2
<1>10. IsScript(ops, command, n, fresh, k)
  BY <1>1, <1>5, <1>6, <1>7, <1>8, <1>9, Zenon DEF IsScript
<1> QED BY <1>10 DEF ops

(* The script of any command at any revision is as IsScript has it.           *)
LEMMA ScriptParts ==
    ASSUME NEW command, NEW n, NEW k, NEW fresh, Course(command, n, fresh, k)
    PROVE  IsScript(Script(command, n, fresh), command, n, fresh, k)
<1> DEFINE ops == Script(command, n, fresh)
<1>1. n \in 0 .. 5 /\ k \in 0 .. 5 /\ fresh \in BOOLEAN
  BY CourseIs
<1>2. OfVersion(Recorded(n))
  BY <1>1, RecordedIs, Zenon
<1>3. CASE fresh /\ n = 0
  <2>1. command = "upgrade head" /\ k = 1 /\ fresh = TRUE /\ n = 0
    <3>1. fresh = TRUE /\ n = 0
      BY <1>1, <1>3, Zenon
    <3>2. command = "upgrade head" /\ k = n + 1
      BY <1>3, CourseIs, Zenon
    <3> QED BY <3>1, <3>2, SmallNumbers, Zenon
  <2>2. IsScript(Script("upgrade head", 0, TRUE), "upgrade head", 0, TRUE, 1)
    BY FirstScript
  <2> QED BY <2>1, <2>2, Zenon
<1>4. CASE ~(fresh /\ n = 0) /\ command = "upgrade head"
  <2> DEFINE body == Upgrades[n + 1]
  <2>1. n \in 0 .. 4 /\ k = n + 1
    <3>1. command # "downgrade -1"
      BY <1>4
    <3> QED BY <3>1, CourseIs, Zenon
  <2>2. IsBody(body, FALSE)
    BY <2>1, UpgradesFit
  <2>3. Leads(body, Made(n) \union Recorded(n), Made(k) \union Recorded(n))
    BY <1>2, <2>1, UpgradesLead
  <2>4. n = 0 => body = <<CreateTable("tmp", <<>>, {})>>
    BY DEF Upgrades, Upgrade0001
  <2> HIDE DEF body
  <2>5. <<>> \o body = body
    <3>1. PICK S : body \in Seq(S)
      BY <2>2 DEF IsBody
    <3> QED BY <3>1, ConcatEmptySeq
  <2>6. ops = (<<>> \o body) \o <<Stamp(n, n + 1)>>
    BY <1>4 DEF Script, body
  <2>7. ops = body \o <<Stamp(n, k)>>
    BY <2>1, <2>5, <2>6
  <2> QED BY <1>4, <2>2, <2>3, <2>4, <2>7, FurtherScript, Zenon
<1>5. CASE command = "downgrade -1"
  <2> DEFINE body == Downgrades[n]
  <2>1. n \in 1 .. 5 /\ k = n - 1 /\ n # 0 /\ ~fresh
    <3>1. command # "upgrade head"
      BY <1>5
    <3> QED BY <3>1, CourseIs, Zenon
  <2>2. IsBody(body, n = 3)
    BY <2>1, DowngradesFit
  <2>3. Leads(body, Made(n) \union Recorded(n), Made(k) \union Recorded(n))
    BY <1>2, <2>1, DowngradesLead
  <2>4. ops = body \o <<Stamp(n, k)>>
    BY <1>5, <2>1 DEF Script
  <2> HIDE DEF body
  <2>5. PICK names \in BOOLEAN : IsBody(body, names) /\ (names => n = 3)
    <3>1. CASE n = 3
      <4>1. (n = 3) = TRUE
        BY <3>1, Zenon
      <4> QED BY <2>2, <3>1, <4>1, Zenon
    <3>2. CASE n # 3
      <4>1. (n = 3) = FALSE
        BY <3>2, Zenon
      <4> QED BY <2>2, <4>1, Zenon
    <3> QED BY <3>1, <3>2
  <2>6. IsScript(body \o <<Stamp(n, k)>>, command, n, fresh, k)
    BY <1>5, <2>1, <2>3, <2>5, FurtherScript, Zenon
  <2> QED BY <2>4, <2>6, Zenon
<1>6. command \in {"upgrade head", "downgrade -1"}
  BY DEF Course
<1> QED BY <1>3, <1>4, <1>5, <1>6

(* A database at revision n has the row of n and of no other revision.        *)
LEMMA RowsOf ==
    ASSUME NEW n \in 0 .. 5, NEW fresh \in BOOLEAN, NEW k \in 1 .. 5
    PROVE  VersionRow(k) \subseteq Base(n, fresh) <=> k = n
<1> DEFINE v == Table("alembic_version")
<1>1. k \in 0 .. 5
  OBVIOUS
<1>2. VersionRow(k) = {<<"alembic_version", Revisions[k]>>}
  BY DEF VersionRow
<1>3. Base(n, fresh) = IF fresh /\ n = 0 THEN {} ELSE Made(n) \union Recorded(n)
  BY BaseIs
<1>4. CASE k = n
  BY <1>3, <1>4 DEF Recorded
<1>5. CASE k # n
  <2>1. VersionRow(k) \intersect VersionRow(n) = {}
    BY <1>1, <1>5, RecordedIs
  <2>2. \A o \in VersionRow(k) : o # v /\ o[1] = "alembic_version"
    BY <1>1, <1>2, RecordedIs
  <2>3. \A o \in Made(n) : o[1] # "alembic_version"
    BY MadeApart
  <2> HIDE DEF v
  <2>4. VersionRow(k) \intersect Base(n, fresh) = {}
    BY <1>3, <2>1, <2>2, <2>3 DEF Recorded, v
  <2>5. VersionRow(k) # {}
    BY <1>2
  <2> QED BY <1>5, <2>4, <2>5
<1> QED BY <1>4, <1>5

(* RevisionOf reads the revision that the database is at.                     *)
LEMMA RevisionIs ==
    ASSUME NEW n \in 0 .. 5, NEW fresh \in BOOLEAN
    PROVE  RevisionOf(Base(n, fresh)) = n
<1> DEFINE s == Base(n, fresh)
<1>1. \A k \in 1 .. 5 : VersionRow(k) \subseteq s <=> k = n
  BY RowsOf
<1> HIDE DEF s
<1>2. CASE n = 0
  <2>1. ~ \E k \in 1 .. Newest : VersionRow(k) \subseteq s
    BY <1>1, <1>2, FiveRevisions
  <2> QED BY <1>2, <2>1 DEF RevisionOf, s
<1>3. CASE n # 0
  <2>1. n \in 1 .. Newest /\ VersionRow(n) \subseteq s
    BY <1>1, <1>3, FiveRevisions
  <2>2. \A k \in 1 .. Newest : VersionRow(k) \subseteq s => k = n
    BY <1>1, FiveRevisions
  <2>3. (CHOOSE k \in 1 .. Newest : VersionRow(k) \subseteq s) = n
    BY <2>1, <2>2
  <2> QED BY <2>1, <2>3 DEF RevisionOf, s
<1> QED BY <1>2, <1>3

(* What a database has of the tables of the first scripts.                    *)
LEMMA BaseHas ==
    ASSUME NEW n \in 0 .. 5, NEW fresh \in BOOLEAN
    PROVE  /\ Table("tmp") \in Base(n, fresh) <=> n # 0
           /\ Table("alembic_version") \in Base(n, fresh) <=> ~(fresh /\ n = 0)
           /\ n # 0 => Base(n, fresh) = Base(n, TRUE) /\ Base(n, fresh) = Base(n, FALSE)
<1>1. /\ Base(n, fresh) = IF fresh /\ n = 0 THEN {} ELSE Made(n) \union Recorded(n)
      /\ Base(n, TRUE) = IF n = 0 THEN {} ELSE Made(n) \union Recorded(n)
      /\ Base(n, FALSE) = Made(n) \union Recorded(n)
  <2>1. TRUE \in BOOLEAN /\ FALSE \in BOOLEAN
    OBVIOUS
  <2>2. Base(n, fresh) = IF fresh /\ n = 0 THEN {} ELSE Made(n) \union Recorded(n)
    BY BaseIs
  <2>3. Base(n, TRUE) = IF TRUE /\ n = 0 THEN {} ELSE Made(n) \union Recorded(n)
    BY <2>1, BaseIs, Zenon
  <2>4. Base(n, FALSE) = IF FALSE /\ n = 0 THEN {} ELSE Made(n) \union Recorded(n)
    BY <2>1, BaseIs, Zenon
  <2> QED BY <2>2, <2>3, <2>4
<1>2. Table("alembic_version") \in Recorded(n)
  BY DEF Recorded
<1>3. Table("tmp") \notin Recorded(n)
  BY DEF Recorded, VersionRow, Table
<1>4. Table("tmp") \in Made(n) <=> n # 0
  <2>1. Table("tmp") \in WithTmp
    BY DEF WithTmp
  <2>2. WithTmp \subseteq WithSessions /\ WithTmp \subseteq WithUsers /\ WithTmp \subseteq WithLogins
    BY DEF WithSessions, WithLogins, WithUsers
  <2>3. n \in {0, 1, 2, 3, 4, 5}
    OBVIOUS
  <2>4. Made(0) = {} /\ \A k \in {1, 2, 3, 4, 5} : WithTmp \subseteq Made(k)
    BY <2>2, MadeIs
  <2> QED BY <2>1, <2>3, <2>4
<1> QED BY <1>1, <1>2, <1>3, <1>4

----------------------------------------------------------------------------
(* Table by table.                                                            *)

(* Two schemas that have the same of every table are equal.                   *)
LEMMA TableByTable ==
    ASSUME NEW s, NEW t, \A o \in s : o[1] \in Tables, \A o \in t : o[1] \in Tables,
           \A u \in Tables : Of(u, s) = Of(u, t)
    PROVE  s = t
  BY DEF Of

(* What a statement makes of a table depends on that table alone, and it      *)
(* changes none that it does not lock.                                        *)
LEMMA AppliedOf ==
    ASSUME NEW op, WellFormed(op), NEW u, NEW s, NEW t
    PROVE  /\ u \notin LocksOf(op) => Of(u, Applied(op, s)) = Of(u, s)
           /\ Of(u, s) = Of(u, t) => Of(u, Applied(op, s)) = Of(u, Applied(op, t))
           /\ s \subseteq Objects => Applied(op, s) \subseteq Objects
<1>1. /\ \A o \in op.adds : o[1] \in LocksOf(op)
      /\ \A o \in op.drops : o[1] \in LocksOf(op)
      /\ op.emptied \subseteq LocksOf(op)
      /\ op.adds \subseteq Objects
  BY DEF WellFormed
<1>2. \A o : o \in Applied(op, s) <=> (o \in s /\ o[1] \notin op.emptied /\ o \notin op.drops) \/ o \in op.adds
  BY DEF Applied
<1>3. \A o : o \in Applied(op, t) <=> (o \in t /\ o[1] \notin op.emptied /\ o \notin op.drops) \/ o \in op.adds
  BY DEF Applied
<1>4. ASSUME u \notin LocksOf(op) PROVE Of(u, Applied(op, s)) = Of(u, s)
  BY <1>1, <1>2, <1>4 DEF Of
<1>5. ASSUME Of(u, s) = Of(u, t) PROVE Of(u, Applied(op, s)) = Of(u, Applied(op, t))
  <2>1. \A o : o[1] = u => (o \in s <=> o \in t)
    BY <1>5 DEF Of
  <2>2. \A o : o[1] = u => (o \in Applied(op, s) <=> o \in Applied(op, t))
    BY <1>2, <1>3, <2>1
  <2> QED BY <2>2 DEF Of
<1>6. ASSUME s \subseteq Objects PROVE Applied(op, s) \subseteq Objects
  BY <1>1, <1>2, <1>6
<1> QED BY <1>4, <1>5, <1>6

(* The statements that create the tables of the first script.                 *)
LEMMA CreatesAre ==
    ASSUME NEW t \in {"alembic_version", "tmp"}
    PROVE  /\ WellFormed(CreateTable(t, <<>>, {})) /\ ~CreateTable(t, <<>>, {}).named
           /\ LocksOf(CreateTable(t, <<>>, {})) = {t}
           /\ CreateTable(t, <<>>, {}).absent = {Table(t)}
<1> DEFINE refs == <<>>
           op == CreateTable(t, refs, {})
<1>1. t \in Tables
  BY DEF Tables
<1>2. refs \in Seq(Tables \ {"alembic_version"}) /\ Len(refs) <= 2
  OBVIOUS
<1>3. {refs[i] : i \in DOMAIN refs} = {}
  OBVIOUS
<1>4. refs = <<>>
  OBVIOUS
<1> HIDE DEF refs
<1>5. op.adds = {Table(t)} \union ({t} \X ({refs[i] : i \in DOMAIN refs} \union {}))
      /\ op.absent = {Table(t)}
  BY DEF CreateTable, Statement
<1>6. Table(t) \in Objects
  BY ObjectsAre, ScriptObjects
<1>7. op.adds \subseteq Objects
  <2>1. {t} \X ({refs[i] : i \in DOMAIN refs} \union {}) = {}
    BY <1>3
  <2> QED BY <1>5, <1>6, <2>1
<1> HIDE DEF op
<1>8. WellFormed(op) /\ ~op.named /\ (refs = <<>> => LocksOf(op) = {t})
  BY <1>1, <1>2, <1>7, CreateTableFits DEF op
<1> QED BY <1>4, <1>5, <1>8 DEF op, refs

(* An index below the last one.                                               *)
LEMMA NotLast == \A x \in 2 .. 8 : \A j \in 1 .. x : j # x => j \in 1 .. x - 1
  OBVIOUS

(* An index of a script.                                                      *)
LEMMA Within == \A n \in 0 .. 8 : \A i \in 0 .. n : i \in 0 .. 8 /\ i <= n
  OBVIOUS

(* Every statement of a script, the Stamp included, changes what it locks;    *)
(* one that asks for usernames is of downgrade() of revision 3;               *)
(* alembic_version is locked by the last one, or by the first script.         *)
LEMMA StatementFits ==
    ASSUME NEW ops, NEW command, NEW n, NEW fresh, NEW k, Course(command, n, fresh, k),
           IsScript(ops, command, n, fresh, k), NEW i \in 1 .. Len(ops)
    PROVE  /\ WellFormed(ops[i])
           /\ ops[i].named => command = "downgrade -1" /\ n = 3
           /\ n # 0 /\ i # Len(ops) => "alembic_version" \notin LocksOf(ops[i])
<1>1. n \in 0 .. 5 /\ k \in 0 .. 5
  BY CourseIs, Zenon
<1>2. CASE i = Len(ops)
  <2>1. ops[i] = Stamp(n, k)
    BY <1>2, Zenon DEF IsScript
  <2>2. WellFormed(Stamp(n, k)) /\ ~Stamp(n, k).named
    BY <1>1, StampFits, Zenon
  <2> QED BY <1>2, <2>1, <2>2, Zenon
<1>3. CASE i # Len(ops)
  <2>1. i \in 1 .. Len(ops) - 1
    <3>1. Len(ops) \in 2 .. 8
      BY Zenon DEF IsScript
    <3> QED BY <1>3, <3>1, NotLast, Zenon
  <2>2. \/ Scripted(ops[i]) /\ (ops[i].named => command = "downgrade -1" /\ n = 3)
        \/ fresh /\ n = 0 /\ i = 1
    BY <2>1, Zenon DEF IsScript
  <2>3. CASE fresh /\ n = 0 /\ i = 1
    <3> DEFINE t == "alembic_version"
    <3>1. t \in {"alembic_version", "tmp"}
      OBVIOUS
    <3>2. ops[i] = CreateTable(t, <<>>, {})
      BY <2>3, Zenon DEF IsScript
    <3> HIDE DEF t
    <3>3. WellFormed(ops[i]) /\ ~ops[i].named
      BY <3>1, <3>2, CreatesAre, Zenon
    <3> QED BY <2>3, <3>3, Zenon
  <2> QED BY <2>2, <2>3, Zenon DEF Scripted
<1> QED BY <1>2, <1>3

(* A script works on the objects of the scripts.                              *)
LEMMA AfterObjects ==
    ASSUME NEW ops, NEW s, Len(ops) \in 0 .. 8, s \subseteq Objects,
           \A i \in 1 .. Len(ops) : WellFormed(ops[i])
    PROVE  \A i \in 0 .. Len(ops) : After(ops, s)[i] \subseteq Objects
<1> DEFINE a == After(ops, s)
           T == {k \in 0 .. 8 : k <= Len(ops) => a[k] \subseteq Objects}
<1>1. /\ a[0] = s
      /\ \A i \in 1 .. Len(ops) : a[i] = Applied(ops[i], a[i - 1])
  BY AfterFollows
<1> HIDE DEF a
<1>2. \A k \in 0 .. 7 : k \in T => k + 1 \in T
  <2> SUFFICES ASSUME NEW k \in 0 .. 7, k \in T, k + 1 <= Len(ops)
               PROVE  a[k + 1] \subseteq Objects
    OBVIOUS
  <2>1. a[k] \subseteq Objects
    OBVIOUS
  <2>2. k + 1 \in 1 .. Len(ops) /\ (k + 1) - 1 = k
    OBVIOUS
  <2>3. a[k + 1] = Applied(ops[k + 1], a[k])
    BY <1>1, <2>2
  <2>4. WellFormed(ops[k + 1])
    BY <2>2
  <2> QED BY <2>1, <2>3, <2>4, AppliedOf
<1>3. 0 \in T
  BY <1>1
<1>4. \A k \in 0 .. 8 : k \in T
  <2> HIDE DEF T
  <2> QED BY <1>2, <1>3, EightSteps
<1>5. \A i \in 0 .. Len(ops) : i \in 0 .. 8 /\ i <= Len(ops)
  BY Within, Zenon
<1>6. \A i \in 0 .. Len(ops) : a[i] \subseteq Objects
  BY <1>4, <1>5, Zenon
<1> QED BY <1>6, Zenon DEF a

----------------------------------------------------------------------------
(* A run and its invariant.                                                   *)

\* the revision the script leads to
Target(m) == IF run[m].command = "upgrade head" THEN run[m].at + 1 ELSE run[m].at - 1

(* The fields of a run.                                                       *)
LEMMA RunIs ==
    ASSUME MigrationsTypeOK, NEW m \in Migrators
    PROVE  /\ run[m].stage \in {"idle", "running", "done", "failed"}
           /\ run[m].command \in {"upgrade head", "downgrade -1"}
           /\ run[m].read \in 0 .. 5 /\ run[m].at \in 0 .. 5
           /\ run[m].fresh \in BOOLEAN /\ run[m].disturbed \in BOOLEAN
           /\ run[m].next \in Nat \ {0}
           /\ run[m].held \subseteq Tables /\ run[m].mine \subseteq Objects
  BY FiveRevisions DEF MigrationsTypeOK, RunRecord, Commands

(* Arithmetic of the revision that a run has read.                            *)
LEMMA ReadSteps ==
    /\ \A n \in 0 .. 5 : n # 5 => n < 5
    /\ \A n \in 0 .. 5 : ~(n < 5) => n = 5
    /\ \A n \in 0 .. 5 : n + 1 \in 0 .. 5 \/ n = 5
    /\ \A n \in 0 .. 5 : n > 0 => n - 1 \in 0 .. 5 /\ n # 0
    /\ \A x \in Nat \ {0}, y \in 2 .. 8 : x <= y => x \in 1 .. y
    /\ \A n \in 0 .. 5 : n # 0 => n > 0
  OBVIOUS

(* A run that has not finished is within a script of its command.             *)
LEMMA CourseOf ==
    ASSUME MigrationsTypeOK, NEW m \in Migrators, CourseInv(m), Running(m), ~Finished(m)
    PROVE  /\ Course(run[m].command, run[m].at, run[m].fresh, Target(m))
           /\ IsScript(ScriptOf(m), run[m].command, run[m].at, run[m].fresh, Target(m))
           /\ run[m].next \in 1 .. Len(ScriptOf(m)) /\ Len(ScriptOf(m)) \in 2 .. 8
           /\ run[m].command = "downgrade -1" => run[m].at = run[m].read
<1> DEFINE c == run[m].command
           rd == run[m].read
           at == run[m].at
           f == run[m].fresh
           ops == ScriptOf(m)
           nx == run[m].next
<1>1. /\ c \in {"upgrade head", "downgrade -1"}
      /\ rd \in 0 .. 5 /\ at \in 0 .. 5 /\ f \in BOOLEAN /\ nx \in Nat \ {0}
  BY RunIs
<1>2. /\ IF c = "upgrade head" THEN rd <= at ELSE rd > 0 /\ at \in {rd - 1, rd}
      /\ nx <= Len(ops)
      /\ f => rd = 0
  BY DEF CourseInv
<1>3. IF c = "upgrade head" THEN at # 5 ELSE at # rd - 1
  BY FiveRevisions DEF Finished
<1>4. Target(m) = IF c = "upgrade head" THEN at + 1 ELSE at - 1
  BY DEF Target
<1>5. ops = Script(c, at, f)
  BY DEF ScriptOf
<1> HIDE DEF c, rd, at, f, ops, nx
<1>6. Course(c, at, f, Target(m)) /\ (c = "downgrade -1" => at = rd)
  <2>1. CASE c = "upgrade head"
    <3>1. at < 5 /\ at + 1 \in 0 .. 5
      BY <1>1, <1>3, <2>1, ReadSteps, Zenon
    <3>2. Target(m) = at + 1
      BY <1>4, <2>1, Zenon
    <3>3. Course(c, at, f, at + 1)
      BY <1>1, <2>1, <3>1, Zenon DEF Course
    <3>4. c # "downgrade -1"
      BY <2>1
    <3> QED BY <3>2, <3>3, <3>4, Zenon
  <2>2. CASE c # "upgrade head"
    <3>1. c = "downgrade -1" /\ at = rd /\ rd > 0
      BY <1>1, <1>2, <1>3, <2>2, Zenon
    <3>2. at > 0 /\ at - 1 \in 0 .. 5
      BY <1>1, <3>1, ReadSteps, Zenon
    <3>3. ~f
      BY <1>1, <1>2, <3>1, ReadSteps, Zenon
    <3>4. Target(m) = at - 1
      BY <1>4, <2>2, Zenon
    <3>5. Course(c, at, f, at - 1)
      BY <1>1, <3>1, <3>2, <3>3, Zenon DEF Course
    <3> QED BY <3>1, <3>4, <3>5, Zenon
  <2> QED BY <2>1, <2>2
<1>7. IsScript(ops, c, at, f, Target(m))
  BY <1>5, <1>6, ScriptParts, Zenon
<1>8. Len(ops) \in 2 .. 8
  BY <1>7, Zenon DEF IsScript
<1>9. nx \in 1 .. Len(ops)
  BY <1>1, <1>2, <1>8, ReadSteps, Zenon
<1> QED BY <1>6, <1>7, <1>8, <1>9 DEF c, at, f, ops, rd, nx

(* What is known of the next statement of a run.                              *)
LEMMA NextStatement ==
    ASSUME MigrationsTypeOK, NEW m \in Migrators, CourseInv(m), Running(m), ~Finished(m)
    PROVE  LET base == Base(run[m].at, run[m].fresh)
               after == After(ScriptOf(m), base)
               i == run[m].next
           IN  /\ WellFormed(StatementOf(m))
               /\ StatementOf(m).named => run[m].command = "downgrade -1" /\ run[m].at = 3
               /\ Planned(m) = after[i - 1] /\ Planned(m) \subseteq Objects
               /\ PossibleIn(StatementOf(m), Planned(m))
               /\ Applied(StatementOf(m), Planned(m)) = after[i]
               /\ after[Len(ScriptOf(m))] = Base(Target(m), run[m].fresh)
<1> DEFINE c == run[m].command
           at == run[m].at
           f == run[m].fresh
           ops == ScriptOf(m)
           i == run[m].next
           base == Base(at, f)
           after == After(ops, base)
           op == ops[i]
<1>1. /\ Course(c, at, f, Target(m))
      /\ IsScript(ops, c, at, f, Target(m))
      /\ i \in 1 .. Len(ops) /\ Len(ops) \in 2 .. 8
  BY CourseOf
<1>2. Planned(m) = after[i - 1]
  BY DEF Planned
<1>3. StatementOf(m) = op
  BY DEF StatementOf
<1>4. at \in 0 .. 5 /\ f \in BOOLEAN
  BY RunIs
<1> HIDE DEF c, at, f, ops, i
<1>5. WellFormed(op) /\ (op.named => c = "downgrade -1" /\ at = 3)
  BY <1>1, StatementFits, Zenon
<1>6. Leads(ops, base, Base(Target(m), f))
  BY <1>1, Zenon DEF IsScript
<1>7. /\ PossibleIn(op, after[i - 1])
      /\ Applied(op, after[i - 1]) = after[i]
      /\ after[Len(ops)] = Base(Target(m), f)
  <2>1. \A x \in 2 .. 8 : x \in 1 .. 8
    OBVIOUS
  <2>2. Len(ops) \in 1 .. 8
    BY <1>1, <2>1, Zenon
  <2>3. i \in 1 .. Len(ops)
    BY <1>1
  <2> HIDE DEF base
  <2> QED BY <1>6, <2>2, <2>3, LeadsFurther
<1>8. Planned(m) \subseteq Objects
  <2>1. base \subseteq Objects
    BY <1>4, BaseIs, Zenon
  <2>2. \A j \in 1 .. Len(ops) : WellFormed(ops[j])
    BY <1>1, StatementFits, Zenon
  <2>3. \A x \in 2 .. 8 : x \in 0 .. 8 /\ \A j \in 1 .. x : j - 1 \in 0 .. x
    OBVIOUS
  <2>4. Len(ops) \in 0 .. 8 /\ i - 1 \in 0 .. Len(ops)
    BY <1>1, <2>3, Zenon
  <2> HIDE DEF base
  <2>5. \A j \in 0 .. Len(ops) : after[j] \subseteq Objects
    BY <2>1, <2>2, <2>4, AfterObjects, Zenon
  <2> QED BY <1>2, <2>4, <2>5, Zenon
<1> QED BY <1>2, <1>3, <1>5, <1>7, <1>8, Zenon DEF c, at, f, ops, i

(* The parts of the invariant, for one run.                                   *)
LEMMA InvIs ==
    ASSUME MigrationsInv, NEW m \in Migrators
    PROVE  /\ MigrationsTypeOK /\ CourseInv(m) /\ LockInv(m) /\ ViewInv(m)
           /\ StampInv(m) /\ AloneInv(m) /\ FailsAloneOnlyForNames
           /\ \E n \in 0 .. 5, fresh \in BOOLEAN : schema = Base(n, fresh)
           /\ schema \subseteq Objects
  BY FiveRevisions DEF MigrationsInv, MigrationsTypeOK

(* What was planned is a schema.                                              *)
LEMMA PlannedIsOf ==
    ASSUME MigrationsTypeOK, NEW m \in Migrators, CourseInv(m), Running(m)
    PROVE  /\ Planned(m) \subseteq Objects /\ Found(m) \subseteq Objects
           /\ Finished(m) => Planned(m) = Base(run[m].at, run[m].fresh)
<1>1. Base(run[m].at, run[m].fresh) \subseteq Objects /\ Found(m) \subseteq Objects
  <2>1. run[m].at \in 0 .. 5 /\ run[m].fresh \in BOOLEAN /\ run[m].read \in 0 .. 5
    BY RunIs
  <2> QED BY <2>1, BaseIs DEF Found
<1>2. Finished(m) => Planned(m) = Base(run[m].at, run[m].fresh)
  BY DEF Planned
<1>3. ~Finished(m) => Planned(m) \subseteq Objects
  BY NextStatement
<1> QED BY <1>1, <1>2, <1>3

(* A run sees what it has made of the tables it holds, and what is committed  *)
(* of the others.                                                             *)
LEMMA ViewOf ==
    ASSUME MigrationsInv, NEW m \in Migrators
    PROVE  /\ View(m) \subseteq Objects
           /\ \A t : t \in run[m].held => Of(t, View(m)) = Of(t, run[m].mine)
           /\ \A t : t \notin run[m].held => Of(t, View(m)) = Of(t, schema)
<1>1. schema \subseteq Objects /\ run[m].mine \subseteq Objects
  BY InvIs, RunIs
<1>2. \A o \in run[m].mine : o[1] \in run[m].held
  BY InvIs DEF LockInv
<1> QED BY <1>1, <1>2 DEF View, Of

(* If the database is what the run took it for, it sees what was planned.     *)
LEMMA ViewAsPlanned ==
    ASSUME MigrationsInv, NEW m \in Migrators, Running(m), schema = Found(m)
    PROVE  View(m) = Planned(m)
<1>1. View(m) \subseteq Objects /\ Planned(m) \subseteq Objects
  BY InvIs, ViewOf, PlannedIsOf
<1>2. \A t \in Tables : Of(t, View(m)) = Of(t, Planned(m))
  <2> TAKE t \in Tables
  <2>1. IF t \in run[m].held
        THEN Of(t, schema) = Of(t, Found(m)) => Of(t, run[m].mine) = Of(t, Planned(m))
        ELSE Of(t, Found(m)) = Of(t, Planned(m))
    BY InvIs DEF ViewInv
  <2> QED BY <2>1, ViewOf
<1>3. \A o \in Objects : o[1] \in Tables
  BY ObjectsAre
<1> QED BY <1>1, <1>2, <1>3, TableByTable

(* What a run alone depends on itself and on what is committed.               *)
LEMMA RunUnchanged ==
    ASSUME NEW m \in Migrators, schema' = schema,
           run'[m].stage = run[m].stage, run'[m].command = run[m].command,
           run'[m].read = run[m].read, run'[m].at = run[m].at, run'[m].fresh = run[m].fresh,
           run'[m].next = run[m].next, run'[m].held = run[m].held, run'[m].mine = run[m].mine,
           CourseInv(m), ViewInv(m), StampInv(m)
    PROVE  CourseInv(m)' /\ ViewInv(m)' /\ StampInv(m)'
<1>1. /\ Running(m)' <=> Running(m)
      /\ Finished(m)' <=> Finished(m)
      /\ ScriptOf(m)' = ScriptOf(m) /\ Found(m)' = Found(m)
  BY DEF Running, Finished, ScriptOf, Found
<1>2. Planned(m)' = Planned(m)
  BY <1>1 DEF Planned
<1>3. FirstInv(m)' <=> FirstInv(m)
  BY <1>1 DEF FirstInv
<1> QED BY <1>1, <1>2, <1>3 DEF CourseInv, ViewInv, StampInv

\* the conjuncts of LockInv that are about m alone
LocksInv(m) ==
    /\ \A o \in run[m].mine : o[1] \in run[m].held
    /\ ~Running(m) \/ (run[m].read = Newest /\ run[m].command = "upgrade head") =>
         run[m].held = {}

(* The conjunct of FailsAloneOnlyForNames about m.                            *)
FailsRightly(m) ==
    run[m].stage = "failed" /\ ~run[m].disturbed =>
        /\ run[m].command = "downgrade -1"
        /\ run[m].read = 0 \/ run[m].at = 3

(* A step of m that commits nothing.                                          *)
LEMMA StepKeeps ==
    ASSUME MigrationsInv, MigrationsTypeOK', schema' = schema, NEW m \in Migrators,
           \A n \in Migrators \ {m} : run'[n] = run[n], Running(m)' => Running(m),
           CourseInv(m)', ViewInv(m)', StampInv(m)', AloneInv(m)', LocksInv(m)',
           \A n \in Migrators \ {m} : run'[m].held \intersect run[n].held = {},
           FailsRightly(m)'
    PROVE  MigrationsInv'
<1>1. ASSUME NEW n \in Migrators \ {m}
      PROVE  /\ CourseInv(n)' /\ ViewInv(n)' /\ StampInv(n)' /\ AloneInv(n)'
             /\ LocksInv(n)' /\ FailsRightly(n)'
             /\ \A l \in Migrators \ {n} : (run[n].held \intersect run[l].held)' = {}
  <2>1. run'[n] = run[n]
    OBVIOUS
  <2>2. CourseInv(n) /\ ViewInv(n) /\ StampInv(n) /\ AloneInv(n) /\ LockInv(n)
    BY InvIs
  <2>3. CourseInv(n)' /\ ViewInv(n)' /\ StampInv(n)'
    BY <2>1, <2>2, RunUnchanged
  <2>4. AloneInv(n)'
    <3>1. Found(n)' = Found(n) /\ (Running(n)' <=> Running(n))
      BY <2>1 DEF Found, Running
    <3>2. \A l \in Migrators \ {n} : Running(l)' => Running(l)
      BY DEF Running
    <3> QED BY <2>1, <2>2, <3>1, <3>2 DEF AloneInv
  <2>5. LocksInv(n)'
    BY <2>1, <2>2 DEF LockInv, LocksInv, Running
  <2>6. FailsRightly(n)'
    BY <2>1, InvIs DEF FailsRightly, FailsAloneOnlyForNames
  <2>7. \A l \in Migrators \ {n} : (run[n].held \intersect run[l].held)' = {}
    <3> TAKE l \in Migrators \ {n}
    <3>1. CASE l = m
      BY <2>1, <3>1
    <3>2. CASE l # m
      BY <2>1, <2>2, <3>2 DEF LockInv
    <3> QED BY <3>1, <3>2
  <2> QED BY <2>3, <2>4, <2>5, <2>6, <2>7
<1>2. \A l \in Migrators \ {m} : (run[m].held \intersect run[l].held)' = {}
  OBVIOUS
<1>3. \A n \in Migrators : /\ CourseInv(n)' /\ ViewInv(n)' /\ StampInv(n)' /\ AloneInv(n)'
                           /\ LocksInv(n)' /\ FailsRightly(n)'
  BY <1>1
<1>4. \A n \in Migrators : LockInv(n)'
  BY <1>1, <1>2, <1>3 DEF LocksInv, LockInv
<1>5. FailsAloneOnlyForNames'
  BY <1>3 DEF FailsRightly, FailsAloneOnlyForNames
<1>6. (\E n \in 0 .. Newest, fresh \in BOOLEAN : schema = Base(n, fresh))'
  <2>1. \E n \in 0 .. 5, fresh \in BOOLEAN : schema = Base(n, fresh)
    BY InvIs
  <2> QED BY <2>1, FiveRevisions
<1> QED BY <1>3, <1>4, <1>5, <1>6 DEF MigrationsInv

----------------------------------------------------------------------------
(* One lemma for every action.                                                *)

(* A run whose transaction is rolled back leaves the database as it was.      *)
LEMMA RollbackKeeps ==
    ASSUME MigrationsInv, NEW m \in Migrators, Running(m), NEW killed \in BOOLEAN,
           Rollback(m, killed),
           ~killed /\ ~run[m].disturbed =>
             run[m].command = "downgrade -1" /\ (run[m].read = 0 \/ run[m].at = 3)
    PROVE  MigrationsInv'
<1>1. /\ MigrationsTypeOK /\ run[m] \in RunRecord /\ run \in [Migrators -> RunRecord]
      /\ LockInv(m)
  BY InvIs DEF MigrationsTypeOK
<1> DEFINE r == [run[m] EXCEPT !.stage = "failed", !.held = {}, !.mine = {},
                               !.disturbed = @ \/ killed]
<1>2. /\ run' = [run EXCEPT ![m] = r]
      /\ UNCHANGED <<schema, nameless, writing, runs>>
  BY DEF Rollback
<1>3. r \in RunRecord
  BY <1>1 DEF RunRecord
<1>4. /\ r.stage = "failed" /\ r.held = {} /\ r.mine = {}
      /\ r.command = run[m].command /\ r.read = run[m].read /\ r.at = run[m].at
      /\ r.disturbed = (run[m].disturbed \/ killed)
  BY <1>1 DEF RunRecord
<1> HIDE DEF r
<1>5. run'[m] = r /\ \A n \in Migrators \ {m} : run'[n] = run[n]
  BY <1>1, <1>2
<1>6. MigrationsTypeOK'
  BY <1>1, <1>2, <1>3 DEF MigrationsTypeOK
<1>7. ~Running(m)'
  BY <1>4, <1>5 DEF Running
<1>8. CourseInv(m)' /\ ViewInv(m)' /\ StampInv(m)' /\ AloneInv(m)'
  BY <1>7 DEF CourseInv, ViewInv, StampInv, AloneInv
<1>9. LocksInv(m)'
  BY <1>4, <1>5 DEF LocksInv
<1>10. FailsRightly(m)'
  BY <1>4, <1>5 DEF FailsRightly
<1>11. \A n \in Migrators \ {m} : run'[m].held \intersect run[n].held = {}
  BY <1>4, <1>5
<1> QED BY <1>2, <1>5, <1>6, <1>7, <1>8, <1>9, <1>10, <1>11, StepKeeps

(* Who is alone fails only where usernames are required.                      *)
LEMMA FailKeeps ==
    ASSUME MigrationsInv, NEW m \in Migrators, Fail(m)
    PROVE  MigrationsInv'
<1>1. /\ Running(m) /\ ~Finished(m) /\ Rollback(m, FALSE)
      /\ Possible(m) => StatementOf(m).named
  BY DEF Fail
<1>2. ASSUME ~run[m].disturbed
      PROVE  run[m].command = "downgrade -1" /\ run[m].at = 3
  <2>1. schema = Found(m)
    BY <1>1, <1>2, InvIs DEF AloneInv
  <2>2. View(m) = Planned(m)
    BY <1>1, <2>1, ViewAsPlanned
  <2>3. /\ PossibleIn(StatementOf(m), Planned(m))
        /\ StatementOf(m).named => run[m].command = "downgrade -1" /\ run[m].at = 3
    BY <1>1, InvIs, NextStatement
  <2>4. Possible(m)
    BY <2>2, <2>3 DEF Possible, PossibleIn
  <2> QED BY <1>1, <2>3, <2>4
<1> QED BY <1>1, <1>2, RollbackKeeps

(* So does every run that is killed or fails.                                 *)
LEMMA AbortKeeps ==
    ASSUME MigrationsInv, NEW m \in Migrators, Killed(m) \/ AbortRun(m)
    PROVE  MigrationsInv'
<1>1. Rollback(m, TRUE)
  BY DEF Killed, AbortRun
<1>2. Running(m)
  BY DEF Killed, AbortRun, Deadlocked, WaitsForWriter, WaitsFor, Waiting, Executing
<1> QED BY <1>1, <1>2, RollbackKeeps

(* A set of up to three indexes has a least one.                              *)
LEMMA LeastOf ==
    ASSUME NEW S, S \subseteq {1, 2, 3}, S # {}
    PROVE  \E i \in S : \A j \in S : i <= j
<1>1. CASE 1 \in S
  BY <1>1
<1>2. CASE 1 \notin S /\ 2 \in S
  BY <1>2
<1>3. CASE S = {3}
  BY <1>3
<1> QED BY <1>1, <1>2, <1>3

(* A run that waits, waits for one table that it does not hold.               *)
LEMMA WantsOne ==
    ASSUME MigrationsInv, NEW m \in Migrators, Waiting(m)
    PROVE  /\ Running(m) /\ ~Finished(m)
           /\ Wants(m) \in Tables /\ Wants(m) \notin run[m].held
<1>1. Running(m) /\ ~Finished(m) /\ Missing(m) # {}
  BY DEF Waiting, Executing
<1> DEFINE op == StatementOf(m)
<1>2. WellFormed(op)
  BY <1>1, InvIs, NextStatement
<1>3. LocksOf(op) \subseteq Tables /\ DOMAIN op.locks \subseteq {1, 2, 3}
  BY <1>2 DEF WellFormed
<1>4. Missing(m) = {i \in DOMAIN op.locks : op.locks[i] \notin run[m].held}
  BY DEF Missing
<1> DEFINE first == CHOOSE i \in Missing(m) : \A j \in Missing(m) : i <= j
<1>5. first \in Missing(m)
  <2>1. Missing(m) \subseteq {1, 2, 3}
    BY <1>3, <1>4
  <2>2. \E i \in Missing(m) : \A j \in Missing(m) : i <= j
    BY <1>1, <2>1, LeastOf
  <2> QED BY <2>2
<1>6. Wants(m) = op.locks[first]
  BY DEF Wants
<1> HIDE DEF op, first
<1>7. Wants(m) \in LocksOf(op) /\ Wants(m) \notin run[m].held
  BY <1>4, <1>5, <1>6 DEF LocksOf
<1> QED BY <1>1, <1>3, <1>7

(* A lock that is granted: what the run sees of the table is what is          *)
(* committed.                                                                 *)
LEMMA LockKeeps ==
    ASSUME MigrationsInv, NEW m \in Migrators, Lock(m)
    PROVE  MigrationsInv'
<1> DEFINE t == Wants(m)
           r == [run[m] EXCEPT !.held = @ \union {t}, !.mine = @ \union {o \in schema : o[1] = t}]
<1>1. /\ Waiting(m) /\ HoldersOf(t) = {}
      /\ run' = [run EXCEPT ![m] = r]
      /\ UNCHANGED <<schema, nameless, writing, runs>>
  BY DEF Lock
<1>2. /\ MigrationsTypeOK /\ run[m] \in RunRecord /\ run \in [Migrators -> RunRecord]
      /\ schema \subseteq Objects
      /\ CourseInv(m) /\ LockInv(m) /\ ViewInv(m) /\ StampInv(m) /\ AloneInv(m)
      /\ FailsRightly(m)
  BY InvIs DEF MigrationsTypeOK, FailsAloneOnlyForNames, FailsRightly
<1>3. Running(m) /\ ~Finished(m) /\ t \in Tables /\ t \notin run[m].held
  BY <1>1, WantsOne
<1> HIDE DEF t
<1>4. r \in RunRecord
  BY <1>2, <1>3 DEF RunRecord
<1>5. /\ r.stage = run[m].stage /\ r.command = run[m].command /\ r.read = run[m].read
      /\ r.at = run[m].at /\ r.fresh = run[m].fresh /\ r.next = run[m].next
      /\ r.disturbed = run[m].disturbed
      /\ r.held = run[m].held \union {t} /\ r.mine = run[m].mine \union Of(t, schema)
  BY <1>2 DEF RunRecord, Of
<1> HIDE DEF r
<1>6. run'[m] = r /\ \A n \in Migrators \ {m} : run'[n] = run[n]
  BY <1>1, <1>2
<1>7. MigrationsTypeOK'
  BY <1>1, <1>2, <1>4 DEF MigrationsTypeOK
<1>8. /\ Running(m)' /\ ~Finished(m)' /\ ScriptOf(m)' = ScriptOf(m) /\ Found(m)' = Found(m)
  BY <1>3, <1>5, <1>6 DEF Running, Finished, ScriptOf, Found
<1>9. Planned(m)' = Planned(m)
  BY <1>3, <1>5, <1>6, <1>8 DEF Planned
<1>10. schema' = schema
  BY <1>1
<1>11. CourseInv(m)'
  BY <1>2, <1>3, <1>5, <1>6, <1>8, <1>10 DEF CourseInv
<1>12. \A u : Of(u, run'[m].mine) = IF u = t THEN Of(t, schema) ELSE Of(u, run[m].mine)
  <2>1. \A o \in run[m].mine : o[1] # t
    BY <1>2, <1>3 DEF LockInv
  <2> QED BY <1>5, <1>6, <2>1 DEF Of
<1>13. ViewInv(m)'
  <2> SUFFICES ASSUME NEW u \in Tables
               PROVE  IF u \in run'[m].held
                      THEN Of(u, schema) = Of(u, Found(m)) =>
                             Of(u, run'[m].mine) = Of(u, Planned(m))
                      ELSE Of(u, Found(m)) = Of(u, Planned(m))
    BY <1>8, <1>9, <1>10 DEF ViewInv
  <2>1. IF u \in run[m].held
        THEN Of(u, schema) = Of(u, Found(m)) => Of(u, run[m].mine) = Of(u, Planned(m))
        ELSE Of(u, Found(m)) = Of(u, Planned(m))
    BY <1>2, <1>3 DEF ViewInv
  <2>2. run'[m].held = run[m].held \union {t}
    BY <1>5, <1>6
  <2> QED BY <1>3, <1>12, <2>1, <2>2
<1>14. StampInv(m)'
  <2>1. CASE run[m].at # run[m].read
    BY <1>2, <1>3, <1>5, <1>6, <1>8, <1>10, <2>1 DEF StampInv
  <2>2. CASE run[m].at = run[m].read
    <3>1. FirstInv(m)
      BY <1>2, <1>3, <2>2 DEF StampInv
    <3>2. run'[m].held = run[m].held \union {t} /\ run'[m].next = run[m].next
          /\ run'[m].read = run[m].read /\ run'[m].at = run[m].at /\ run'[m].fresh = run[m].fresh
      BY <1>5, <1>6
    <3>3. FirstInv(m)'
      BY <1>8, <1>10, <1>12, <3>1, <3>2 DEF FirstInv
    <3> QED BY <2>2, <3>2, <3>3 DEF StampInv
  <2> QED BY <2>1, <2>2
<1>15. AloneInv(m)'
  <2>1. \A n \in Migrators \ {m} : Running(n)' <=> Running(n)
    BY <1>6 DEF Running
  <2> QED BY <1>2, <1>3, <1>5, <1>6, <1>8, <1>10, <2>1 DEF AloneInv
<1>16. LocksInv(m)'
  <2>1. ~(run[m].read = Newest /\ run[m].command = "upgrade head")
    <3>1. run[m].read \in 0 .. 5 /\ run[m].at \in 0 .. 5
      BY <1>2, RunIs
    <3>2. run[m].command = "upgrade head" => run[m].read <= run[m].at /\ run[m].at # 5
      BY <1>2, <1>3, FiveRevisions DEF CourseInv, Finished
    <3>3. \A x \in 0 .. 5 : 5 <= x => x = 5
      OBVIOUS
    <3> QED BY <3>1, <3>2, <3>3, FiveRevisions, Zenon
  <2>2. \A o \in run[m].mine : o[1] \in run[m].held
    BY <1>2 DEF LockInv
  <2>3. \A o \in run'[m].mine : o[1] \in run'[m].held
    BY <1>5, <1>6, <2>2 DEF Of
  <2> QED BY <1>5, <1>6, <1>8, <2>1, <2>3 DEF LocksInv
<1>17. FailsRightly(m)'
  BY <1>8 DEF FailsRightly, Running
<1>18. \A n \in Migrators \ {m} : run'[m].held \intersect run[n].held = {}
  <2> TAKE n \in Migrators \ {m}
  <2>1. run[m].held \intersect run[n].held = {}
    BY <1>2 DEF LockInv
  <2>2. t \notin run[n].held
    BY <1>1 DEF HoldersOf
  <2> QED BY <1>5, <1>6, <2>1, <2>2
<1> QED BY <1>3, <1>6, <1>7, <1>10, <1>11, <1>13, <1>14, <1>15, <1>16, <1>17, <1>18, StepKeeps

(* A statement that waits for nothing holds what it locks.                    *)
LEMMA LocksHeld ==
    ASSUME NEW m, Missing(m) = {}
    PROVE  LocksOf(StatementOf(m)) \subseteq run[m].held
  BY DEF Missing, LocksOf

(* Arithmetic of the statements within a script and of its end.               *)
LEMMA ScriptEnds ==
    /\ \A x \in 2 .. 8 : \A i \in 1 .. x : \A j \in 1 .. i - 1 : j \in 1 .. x /\ (i = x => j # x)
    /\ \A x \in 2 .. 8 : \A i \in 1 .. x : i # x =>
          /\ i + 1 \in 1 .. x /\ (i + 1) - 1 = i /\ i + 1 <= x
          /\ \A j \in 1 .. i - 1 : j \in 1 .. (i + 1) - 1
    /\ \A i \in 1 .. 8 : i \in 1 .. i /\ i + 1 > 1 /\ (i > 1 \/ i = 1) /\ (i > 2 \/ i = 2 \/ i = 1)
    /\ 3 > 2 /\ 3 > 1 /\ 2 > 1 /\ ~(1 > 1) /\ ~(1 + 1 > 2)
    /\ \A j \in 1 .. 1 - 1 : FALSE
    /\ \A j \in 1 .. 2 - 1 : j = 1
    /\ 2 # 3 /\ 1 # 2 /\ 1 # 3
  OBVIOUS

(* The run gets beyond its first script only if the database is what it took  *)
(* it for.                                                                    *)
LEMMA StampFound ==
    ASSUME MigrationsInv, NEW m \in Migrators, Executing(m), Missing(m) = {},
           run[m].next = Len(ScriptOf(m)), run[m].at = run[m].read
    PROVE  "alembic_version" \in run[m].held /\ schema = Found(m)
<1> DEFINE av == "alembic_version"
           ops == ScriptOf(m)
           op == StatementOf(m)
           c == run[m].command
           rd == run[m].read
           f == run[m].fresh
           i == run[m].next
           k == Target(m)
<1>1. /\ Running(m) /\ ~Finished(m) /\ Possible(m)
      /\ MigrationsTypeOK /\ CourseInv(m) /\ StampInv(m)
  BY InvIs DEF Executing
<1>2. /\ Course(c, rd, f, k) /\ IsScript(ops, c, rd, f, k)
      /\ i \in 1 .. Len(ops) /\ Len(ops) \in 2 .. 8
  BY <1>1, CourseOf, Zenon
<1>3. /\ rd \in 0 .. 5 /\ f \in BOOLEAN /\ k \in 0 .. 5
  BY <1>2, CourseIs, Zenon
<1>4. FirstInv(m)
  BY <1>1 DEF StampInv
<1>5. op = Stamp(rd, k)
  BY <1>2, Zenon DEF StatementOf, IsScript
<1>6. LocksOf(op) = {av} /\ op.needs = VersionRow(rd)
  <2>1. LocksOf(Stamp(rd, k)) = {av}
    BY <1>3, StampFits, Zenon
  <2>2. Stamp(rd, k).needs = VersionRow(rd)
    BY DEF Stamp, Statement
  <2> QED BY <1>5, <2>1, <2>2, Zenon
<1>7. av \in run[m].held
  BY <1>6, LocksHeld
<1>8. PICK n \in 0 .. 5, b \in BOOLEAN : schema = Base(n, b)
  BY InvIs
<1>9. Found(m) = Base(rd, f)
  BY DEF Found
<1>10. CASE rd # 0
  <2>1. VersionRow(rd) \subseteq View(m)
    BY <1>1, <1>6 DEF Possible
  <2>2. \A j \in 1 .. i - 1 : av \notin LocksOf(ops[j])
    <3> DEFINE x == Len(ops)
    <3>1. x \in 2 .. 8 /\ i \in 1 .. x /\ i = x
      BY <1>2
    <3> HIDE DEF x, i
    <3>2. \A j \in 1 .. i - 1 : j \in 1 .. x /\ j # x
      BY <3>1, ScriptEnds
    <3> USE DEF x, i
    <3> TAKE j \in 1 .. i - 1
    <3>3. j \in 1 .. Len(ops) /\ j # Len(ops)
      BY <3>2
    <3> QED BY <1>2, <1>10, <3>3, StatementFits, Zenon
  <2>3. Of(av, run[m].mine) = Of(av, schema)
    BY <1>4, <1>7, <2>2, Zenon DEF FirstInv
  <2>4. Of(av, View(m)) = Of(av, schema)
    BY <1>7, <2>3, ViewOf
  <2>5. \A o \in VersionRow(rd) : o[1] = av
    BY DEF VersionRow
  <2>6. VersionRow(rd) \subseteq schema
    BY <2>1, <2>4, <2>5 DEF Of
  <2>7. rd \in 1 .. 5
    BY <1>3, <1>10
  <2>8. rd = n
    BY <1>8, <2>6, <2>7, RowsOf, Zenon
  <2>9. schema = Base(rd, b)
    BY <1>8, <2>8, Zenon
  <2>10. Base(rd, b) = Base(rd, TRUE) /\ Base(rd, f) = Base(rd, TRUE)
    BY <1>3, <1>8, <1>10, BaseHas, Zenon
  <2> QED BY <1>7, <1>9, <2>9, <2>10, Zenon
<1>11. CASE rd = 0
  <2>1. /\ f => Len(ops) = 3
        /\ ~f => Len(ops) = 2
    BY <1>2, <1>11, Zenon DEF IsScript
  <2>2. /\ f => i > 1 /\ i > 2
        /\ ~f => i > 1
    BY <2>1, ScriptEnds, Zenon
  <2>3. /\ f => Table("alembic_version") \notin schema
        /\ Table("tmp") \notin schema
    BY <1>4, <1>11, <2>2, Zenon DEF FirstInv
  <2>4. n = 0
    BY <1>8, <2>3, BaseHas, Zenon
  <2>5. f => b
    BY <1>8, <2>3, BaseHas, Zenon
  <2>6. ~f => Table("alembic_version") \in schema
    BY <1>1, Zenon DEF CourseInv
  <2>7. ~f => ~b
    BY <1>8, <2>4, <2>6, BaseHas, Zenon
  <2>8. f = b
    BY <1>3, <1>8, <2>5, <2>7, Zenon
  <2> QED BY <1>7, <1>8, <1>9, <1>11, <2>4, <2>8, Zenon
<1> QED BY <1>10, <1>11

(* Within the first script.                                                   *)
LEMMA FirstKeeps ==
    ASSUME MigrationsInv, NEW m \in Migrators, Executing(m), Missing(m) = {},
           run[m].next # Len(ScriptOf(m)), run[m].at = run[m].read
    PROVE  /\ \A t \in run[m].held :
                 (\A i \in 1 .. (run[m].next + 1) - 1 : t \notin LocksOf(ScriptOf(m)[i])) =>
                    Of(t, Applied(StatementOf(m), run[m].mine)) = Of(t, schema)
           /\ run[m].read = 0 =>
                 /\ run[m].fresh =>
                      /\ "alembic_version" \in run[m].held
                      /\ Table("alembic_version") \notin schema
                 /\ run[m].next + 1 > (IF run[m].fresh THEN 2 ELSE 1) =>
                      "tmp" \in run[m].held /\ Table("tmp") \notin schema
<1> DEFINE ops == ScriptOf(m)
           op == StatementOf(m)
           c == run[m].command
           rd == run[m].read
           f == run[m].fresh
           i == run[m].next
           k == Target(m)
           held == run[m].held
           mine == run[m].mine
<1>1. /\ Running(m) /\ ~Finished(m) /\ Possible(m)
      /\ MigrationsTypeOK /\ CourseInv(m) /\ StampInv(m)
  BY InvIs DEF Executing
<1>2. /\ Course(c, rd, f, k) /\ IsScript(ops, c, rd, f, k)
      /\ i \in 1 .. Len(ops) /\ Len(ops) \in 2 .. 8
  BY <1>1, CourseOf, Zenon
<1>3. FirstInv(m)
  BY <1>1 DEF StampInv
<1>4. op = ops[i] /\ WellFormed(op)
  BY <1>1, NextStatement DEF StatementOf
<1>5. LocksOf(op) \subseteq held
  BY LocksHeld
<1>6. i # Len(ops) /\ f \in BOOLEAN
  BY <1>2, CourseIs, Zenon
<1>7. op.absent \intersect View(m) = {}
  BY <1>1 DEF Possible
\* a table that must not exist and was not touched yet
<1>8. ASSUME NEW t, LocksOf(op) = {t}, op.absent = {Table(t)},
             \A j \in 1 .. i - 1 : t \notin LocksOf(ops[j])
      PROVE  t \in held /\ Table(t) \notin schema
  <2>1. t \in held
    BY <1>5, <1>8
  <2>2. Of(t, mine) = Of(t, schema)
    BY <1>3, <1>8, <2>1, Zenon DEF FirstInv
  <2>3. Of(t, View(m)) = Of(t, schema)
    BY <2>1, <2>2, ViewOf
  <2>4. Table(t) \notin View(m)
    BY <1>7, <1>8
  <2>5. Table(t)[1] = t
    BY DEF Table
  <2>6. Table(t) \notin schema
    BY <2>3, <2>4, <2>5 DEF Of
  <2> QED BY <2>1, <2>6
<1>9. /\ \A j \in 1 .. i - 1 : j \in 1 .. (i + 1) - 1
      /\ i \in 1 .. (i + 1) - 1
      /\ i = 1 \/ i > 1
      /\ i = 2 \/ i = 1 \/ i > 2
  <2> DEFINE x == Len(ops)
  <2>1. x \in 2 .. 8 /\ i \in 1 .. x
    BY <1>2
  <2> HIDE DEF x, i
  <2> QED BY <2>1
<1>10. ASSUME NEW t \in held,
              \A j \in 1 .. (i + 1) - 1 : t \notin LocksOf(ops[j])
       PROVE  Of(t, Applied(op, mine)) = Of(t, schema)
  <2>1. t \notin LocksOf(op) /\ \A j \in 1 .. i - 1 : t \notin LocksOf(ops[j])
    BY <1>4, <1>9, <1>10, Zenon
  <2>2. Of(t, mine) = Of(t, schema)
    BY <1>3, <1>10, <2>1, Zenon DEF FirstInv
  <2>3. Of(t, Applied(op, mine)) = Of(t, mine)
    <3>1. WellFormed(op) /\ t \notin LocksOf(op)
      BY <1>4, <2>1
    <3> HIDE DEF op, mine
    <3> QED BY <3>1, AppliedOf
  <2> QED BY <2>2, <2>3
<1>11. ASSUME rd = 0, f
       PROVE  "alembic_version" \in held /\ Table("alembic_version") \notin schema
  <2>1. CASE i > 1
    BY <1>3, <1>11, <2>1, Zenon DEF FirstInv
  <2>2. CASE i = 1
    <3> DEFINE t == "alembic_version"
    <3>1. t \in {"alembic_version", "tmp"}
      OBVIOUS
    <3>2. op = CreateTable(t, <<>>, {})
      BY <1>2, <1>4, <1>11, <2>2, Zenon DEF IsScript
    <3>3. \A j \in 1 .. i - 1 : FALSE
      BY <2>2, ScriptEnds, Zenon
    <3> HIDE DEF t
    <3>4. LocksOf(op) = {t} /\ op.absent = {Table(t)}
      BY <3>1, <3>2, CreatesAre, Zenon
    <3>5. t \in held /\ Table(t) \notin schema
      BY <1>8, <3>3, <3>4, Zenon
    <3> QED BY <3>5 DEF t
  <2> QED BY <1>9, <2>1, <2>2
<1>12. ASSUME rd = 0, i + 1 > (IF f THEN 2 ELSE 1)
       PROVE  "tmp" \in held /\ Table("tmp") \notin schema
  <2>1. CASE i > IF f THEN 2 ELSE 1
    BY <1>3, <1>12, <2>1, Zenon DEF FirstInv
  <2>2. CASE ~(i > IF f THEN 2 ELSE 1)
    <3> DEFINE t == "tmp"
               av == "alembic_version"
    <3>1. t \in {"alembic_version", "tmp"} /\ av \in {"alembic_version", "tmp"} /\ t # av
      OBVIOUS
    <3>2. /\ f => i = 2
          /\ ~f => i = 1
      <4>1. f => ~(i > 2) /\ i + 1 > 2
        BY <1>12, <2>2
      <4>2. ~f => ~(i > 1)
        BY <2>2
      <4>3. i = 1 => ~(i + 1 > 2)
        BY ScriptEnds, Zenon
      <4> QED BY <1>9, <4>1, <4>2, <4>3, Zenon
    <3>3. op = CreateTable(t, <<>>, {})
      BY <1>2, <1>4, <1>6, <1>12, <3>2, Zenon DEF IsScript
    <3>4. f => ops[1] = CreateTable(av, <<>>, {})
      BY <1>2, <1>12, Zenon DEF IsScript
    <3> HIDE DEF t, av
    <3>5. LocksOf(op) = {t} /\ op.absent = {Table(t)}
      BY <3>1, <3>3, CreatesAre, Zenon
    <3>6. f => LocksOf(ops[1]) = {av}
      BY <3>1, <3>4, CreatesAre, Zenon
    <3>7. \A j \in 1 .. i - 1 : t \notin LocksOf(ops[j])
      <4>1. CASE f
        <5>1. \A j \in 1 .. i - 1 : j = 1
          BY <3>2, <4>1, ScriptEnds, Zenon
        <5>2. t \notin LocksOf(ops[1])
          BY <3>1, <3>6, <4>1
        <5> QED BY <5>1, <5>2, Zenon
      <4>2. CASE ~f
        BY <3>2, <4>2, ScriptEnds, Zenon
      <4> QED BY <4>1, <4>2
    <3>8. t \in held /\ Table(t) \notin schema
      BY <1>8, <3>5, <3>7, Zenon
    <3> QED BY <3>8 DEF t
  <2> QED BY <2>1, <2>2
<1> QED BY <1>10, <1>11, <1>12

(* A statement that is executed, within the script or as its end.             *)
LEMMA ExecuteKeeps ==
    ASSUME MigrationsInv, NEW m \in Migrators, Execute(m)
    PROVE  MigrationsInv'
<1> DEFINE op == StatementOf(m)
           ops == ScriptOf(m)
           nx == run[m].next
           at == run[m].at
           last == nx = Len(ops)
           step == IF run[m].command = "upgrade head" THEN 1 ELSE -1
           mine == Applied(op, run[m].mine)
           r == [run[m] EXCEPT !.mine = mine, !.next = IF last THEN 1 ELSE @ + 1,
                               !.at = IF last THEN @ + step ELSE @]
<1>1. /\ Executing(m) /\ Missing(m) = {}
      /\ UNCHANGED <<schema, nameless, writing, runs>>
  BY DEF Execute
<1>2. run' = [run EXCEPT ![m] = r]
  BY DEF Execute
<1>3. /\ MigrationsTypeOK /\ run[m] \in RunRecord /\ run \in [Migrators -> RunRecord]
      /\ CourseInv(m) /\ LockInv(m) /\ ViewInv(m) /\ StampInv(m) /\ AloneInv(m)
  BY InvIs DEF MigrationsTypeOK
<1>4. Running(m) /\ ~Finished(m)
  BY <1>1 DEF Executing
<1>5. /\ Course(run[m].command, at, run[m].fresh, Target(m))
      /\ nx \in 1 .. Len(ops) /\ Len(ops) \in 2 .. 8
      /\ run[m].command = "downgrade -1" => at = run[m].read
  BY <1>3, <1>4, CourseOf
<1>6. Target(m) \in 0 .. 5 /\ at \in 0 .. 5 /\ Target(m) = at + step
  <2>1. Target(m) \in 0 .. 5 /\ at \in 0 .. 5
    BY <1>5, CourseIs, Zenon
  <2>2. Target(m) = at + step
    BY <1>3, RunIs DEF Target
  <2> QED BY <2>1, <2>2
<1>7. WellFormed(op) /\ LocksOf(op) \subseteq run[m].held
  BY <1>1, <1>3, <1>4, NextStatement, LocksHeld
<1>8. mine \subseteq Objects
  <2>1. run[m].mine \subseteq Objects
    BY <1>3, RunIs
  <2> HIDE DEF op
  <2> QED BY <1>7, <2>1, AppliedOf
<1> HIDE DEF op, mine, step
<1>9. /\ r.stage = run[m].stage /\ r.command = run[m].command /\ r.read = run[m].read
      /\ r.fresh = run[m].fresh /\ r.held = run[m].held /\ r.disturbed = run[m].disturbed
      /\ r.mine = mine
      /\ r.next = (IF last THEN 1 ELSE nx + 1)
      /\ r.at = (IF last THEN Target(m) ELSE at)
  BY <1>3, <1>6 DEF RunRecord
<1>10. r \in RunRecord
  <2>1. (IF last THEN 1 ELSE nx + 1) \in Nat \ {0}
    <3>1. \A x \in 2 .. 8 : \A i \in 1 .. x : i + 1 \in Nat \ {0} /\ 1 \in Nat \ {0}
      OBVIOUS
    <3>2. nx + 1 \in Nat \ {0} /\ 1 \in Nat \ {0}
      BY <1>5, <3>1, Zenon
    <3> QED BY <3>2, Zenon
  <2>2. (IF last THEN at + step ELSE at) \in 0 .. Newest
    BY <1>6, FiveRevisions
  <2> QED BY <1>3, <1>8, <2>1, <2>2 DEF RunRecord
<1> HIDE DEF r
<1>11. run'[m] = r /\ \A n \in Migrators \ {m} : run'[n] = run[n]
  BY <1>2, <1>3
<1>12. MigrationsTypeOK'
  BY <1>1, <1>2, <1>3, <1>10 DEF MigrationsTypeOK
<1>13. Running(m)' /\ schema' = schema
  BY <1>1, <1>4, <1>9, <1>11 DEF Running
<1>14. Found(m)' = Found(m)
  BY <1>9, <1>11 DEF Found
<1>15. ~last => ~Finished(m)' /\ ScriptOf(m)' = ops
  BY <1>4, <1>9, <1>11 DEF Finished, ScriptOf
\* within the script
<1>16. ASSUME ~last
       PROVE  /\ Planned(m)' = Applied(op, Planned(m))
              /\ CourseInv(m)' /\ StampInv(m)'
  <2>1. nx + 1 \in 1 .. Len(ops) /\ (nx + 1) - 1 = nx /\ nx + 1 <= Len(ops) /\ nx + 1 > 1
    <3> DEFINE x == Len(ops)
    <3>1. x \in 2 .. 8 /\ nx \in 1 .. x /\ nx # x
      BY <1>5, <1>16
    <3> HIDE DEF x, nx
    <3>2. \A y \in 2 .. 8 : \A i \in 1 .. y : i # y =>
             i + 1 \in 1 .. y /\ (i + 1) - 1 = i /\ i + 1 <= y /\ i + 1 > 1
      OBVIOUS
    <3> QED BY <3>1, <3>2, Zenon DEF x
  <2>2. run'[m].next = nx + 1 /\ run'[m].at = at
    BY <1>9, <1>11, <1>16
  <2>3. Planned(m)' = Applied(op, Planned(m))
    <3>1. Planned(m)' = After(ops, Base(at, run[m].fresh))[nx]
      BY <1>9, <1>11, <1>15, <1>16, <2>1, <2>2 DEF Planned
    <3> QED BY <1>3, <1>4, <3>1, NextStatement DEF op
  <2>4. CourseInv(m)'
    <3>1. IF run[m].command = "upgrade head" THEN run[m].read <= at
          ELSE run[m].read > 0 /\ at \in {run[m].read - 1, run[m].read}
      BY <1>3, <1>4 DEF CourseInv
    <3>2. IF run[m].fresh THEN run[m].read = 0 ELSE Table("alembic_version") \in schema
      BY <1>3, <1>4 DEF CourseInv
    <3> HIDE DEF nx, ops
    <3> QED BY <1>9, <1>11, <1>13, <1>15, <1>16, <2>1, <2>2, <3>1, <3>2, Zenon DEF CourseInv
  <2>5. StampInv(m)'
    <3>1. CASE at # run[m].read
      <4>1. "alembic_version" \in run[m].held /\ schema = Found(m)
        BY <1>3, <1>4, <3>1 DEF StampInv
      <4> QED BY <1>9, <1>11, <1>13, <1>14, <2>2, <3>1, <4>1 DEF StampInv
    <3>2. CASE at = run[m].read
      <4>1. FirstInv(m)'
        BY <1>1, <1>9, <1>11, <1>13, <1>15, <1>16, <2>1, <2>2, <3>2, FirstKeeps
           DEF FirstInv, mine, op
      <4> QED BY <1>9, <1>11, <2>2, <3>2, <4>1 DEF StampInv
    <3> QED BY <3>1, <3>2
  <2> QED BY <2>3, <2>4, <2>5
\* to the next revision
<1>17. ASSUME last
       PROVE  /\ Planned(m)' = Applied(op, Planned(m))
              /\ CourseInv(m)' /\ StampInv(m)'
  <2>1. run'[m].next = 1 /\ run'[m].at = Target(m)
    BY <1>9, <1>11, <1>17
  <2>2. /\ Target(m) # run[m].read
        /\ IF run[m].command = "upgrade head" THEN run[m].read <= Target(m)
           ELSE /\ run[m].read > 0 /\ Target(m) \in {run[m].read - 1, run[m].read}
                /\ Target(m) = run[m].read - 1
    <3> DEFINE rd == run[m].read
    <3>1. rd \in 0 .. 5 /\ run[m].command \in {"upgrade head", "downgrade -1"}
      BY <1>3, RunIs
    <3>2. /\ run[m].command = "upgrade head" => rd <= at
          /\ run[m].command # "upgrade head" => rd > 0
      BY <1>3, <1>4 DEF CourseInv
    <3>3. \A x, y \in 0 .. 5 : /\ x <= y => y + 1 # x /\ x <= y + 1
                               /\ x - 1 # x /\ x + -1 = x - 1
      OBVIOUS
    <3>4. CASE run[m].command = "upgrade head"
      <4>1. step = 1
        BY <3>4 DEF step
      <4>2. Target(m) = at + 1
        BY <1>6, <4>1, Zenon
      <4> QED BY <1>6, <3>1, <3>2, <3>3, <3>4, <4>2, Zenon
    <3>5. CASE run[m].command # "upgrade head"
      <4>1. step = -1 /\ at = rd /\ rd > 0
        BY <1>5, <3>1, <3>2, <3>5 DEF step
      <4>2. Target(m) = rd + -1
        BY <1>6, <4>1, Zenon
      <4>3. Target(m) = rd - 1
        BY <3>1, <3>3, <4>2, Zenon
      <4> QED BY <3>1, <3>3, <3>5, <4>1, <4>3, Zenon
    <3> QED BY <3>4, <3>5
  \* the next script is as long as any
  <2>3. ~Finished(m)' => Len(ScriptOf(m)') \in 2 .. 8
    <3> SUFFICES ASSUME ~Finished(m)' PROVE Len(ScriptOf(m)') \in 2 .. 8
      OBVIOUS
    <3> DEFINE c == run[m].command
               f == run[m].fresh
               k == Target(m)
    <3>1. c = "upgrade head" /\ k # 5
      <4>1. IF c = "upgrade head" THEN k # 5 ELSE k # run[m].read - 1
        BY <1>9, <1>11, <2>1, FiveRevisions DEF Finished
      <4> QED BY <2>2, <4>1, Zenon
    <3>2. ScriptOf(m)' = Script("upgrade head", k, f)
      BY <1>9, <1>11, <2>1, <3>1 DEF ScriptOf
    <3>3. k \in 0 .. 5 /\ f \in BOOLEAN
      BY <1>3, <1>6, RunIs
    <3> HIDE DEF k, f
    <3>4. k < 5 /\ k + 1 \in 0 .. 5
      BY <3>1, <3>3, ReadSteps, Zenon
    <3>5. Course("upgrade head", k, f, k + 1)
      BY <3>3, <3>4, Zenon DEF Course
    <3>6. IsScript(Script("upgrade head", k, f), "upgrade head", k, f, k + 1)
      BY <3>5, ScriptParts, Zenon
    <3> QED BY <3>2, <3>6, Zenon DEF IsScript
  <2>4. Planned(m)' = Applied(op, Planned(m))
    <3>1. Applied(op, Planned(m)) = Base(Target(m), run[m].fresh)
      BY <1>3, <1>4, <1>17, NextStatement DEF op
    <3>2. ~Finished(m)' => Planned(m)' = Base(Target(m), run[m].fresh)
      <4> SUFFICES ASSUME ~Finished(m)' PROVE Planned(m)' = Base(Target(m), run[m].fresh)
        OBVIOUS
      <4> DEFINE next == ScriptOf(m)'
                 base == Base(Target(m), run[m].fresh)
      <4>1. Planned(m)' = After(next, base)[1 - 1]
        BY <1>9, <1>11, <2>1 DEF Planned
      <4>2. After(next, base)[0] = base
        <5>1. Len(next) \in 0 .. 8
          BY <2>3
        <5> HIDE DEF next, base
        <5> QED BY <5>1, AfterFollows
      <4> QED BY <4>1, <4>2
    <3>3. Finished(m)' => Planned(m)' = Base(Target(m), run[m].fresh)
      BY <1>9, <1>11, <2>1 DEF Planned
    <3> QED BY <3>1, <3>2, <3>3
  <2>5. CourseInv(m)'
    <3>1. IF run[m].command = "upgrade head" THEN run[m].read <= Target(m)
          ELSE run[m].read > 0 /\ Target(m) \in {run[m].read - 1, run[m].read}
      BY <2>2
    <3>2. IF run[m].fresh THEN run[m].read = 0 ELSE Table("alembic_version") \in schema
      BY <1>3, <1>4 DEF CourseInv
    <3>3. 1 <= IF Finished(m)' THEN 1 ELSE Len(ScriptOf(m)')
      <4>1. 1 <= 1 /\ \A x \in 2 .. 8 : 1 <= x
        OBVIOUS
      <4> QED BY <2>3, <4>1, Zenon
    <3> QED BY <1>9, <1>11, <1>13, <2>1, <3>1, <3>2, <3>3, Zenon DEF CourseInv
  <2>6. StampInv(m)'
    <3>1. "alembic_version" \in run[m].held /\ schema = Found(m)
      <4>1. CASE at # run[m].read
        BY <1>3, <1>4, <4>1 DEF StampInv
      <4>2. CASE at = run[m].read
        BY <1>1, <1>17, <4>2, StampFound
      <4> QED BY <4>1, <4>2
    <3> QED BY <1>9, <1>11, <1>13, <1>14, <2>1, <2>2, <3>1 DEF StampInv
  <2> QED BY <2>4, <2>5, <2>6
<1>18. Planned(m)' = Applied(op, Planned(m)) /\ CourseInv(m)' /\ StampInv(m)'
  BY <1>16, <1>17
<1>19. ViewInv(m)'
  <2> SUFFICES ASSUME NEW t \in Tables
               PROVE  IF t \in run[m].held
                      THEN Of(t, schema) = Of(t, Found(m)) =>
                             Of(t, mine) = Of(t, Applied(op, Planned(m)))
                      ELSE Of(t, Found(m)) = Of(t, Applied(op, Planned(m)))
    BY <1>9, <1>11, <1>13, <1>14, <1>18 DEF ViewInv
  <2>1. IF t \in run[m].held
        THEN Of(t, schema) = Of(t, Found(m)) => Of(t, run[m].mine) = Of(t, Planned(m))
        ELSE Of(t, Found(m)) = Of(t, Planned(m))
    BY <1>3, <1>4 DEF ViewInv
  <2>2. Of(t, run[m].mine) = Of(t, Planned(m)) => Of(t, mine) = Of(t, Applied(op, Planned(m)))
    BY <1>7, AppliedOf DEF mine
  <2>3. t \notin run[m].held => Of(t, Applied(op, Planned(m))) = Of(t, Planned(m))
    BY <1>7, AppliedOf
  <2> QED BY <2>1, <2>2, <2>3
<1>20. AloneInv(m)'
  <2>1. \A n \in Migrators \ {m} : Running(n)' <=> Running(n)
    BY <1>11 DEF Running
  <2> QED BY <1>3, <1>4, <1>9, <1>11, <1>13, <1>14, <2>1 DEF AloneInv
<1>21. LocksInv(m)'
  <2>1. ~(run[m].read = Newest /\ run[m].command = "upgrade head")
    <3>1. run[m].read \in 0 .. 5 /\ at \in 0 .. 5
      BY <1>3, RunIs
    <3>2. run[m].command = "upgrade head" => run[m].read <= at /\ at # 5
      BY <1>3, <1>4, FiveRevisions DEF CourseInv, Finished
    <3>3. \A x \in 0 .. 5 : 5 <= x => x = 5
      OBVIOUS
    <3> QED BY <3>1, <3>2, <3>3, FiveRevisions, Zenon
  <2>2. \A o \in mine : o[1] \in run[m].held
    <3>1. \A o \in run[m].mine : o[1] \in run[m].held
      BY <1>3 DEF LockInv
    <3>2. \A o \in op.adds : o[1] \in run[m].held
      BY <1>7 DEF WellFormed
    <3> QED BY <3>1, <3>2 DEF mine, Applied
  <2> QED BY <1>9, <1>11, <1>13, <2>1, <2>2 DEF LocksInv
<1>22. FailsRightly(m)'
  BY <1>13 DEF FailsRightly, Running
<1>23. \A n \in Migrators \ {m} : run'[m].held \intersect run[n].held = {}
  BY <1>3, <1>9, <1>11 DEF LockInv
<1> QED BY <1>4, <1>11, <1>12, <1>13, <1>18, <1>19, <1>20, <1>21, <1>22, <1>23, StepKeeps

(* What a run that has finished commits.                                      *)
LEMMA CommitIs ==
    ASSUME MigrationsInv, NEW m \in Migrators, Running(m), Finished(m)
    PROVE  \/ run[m].at = run[m].read /\ run[m].held = {} /\ View(m) = schema
           \/ /\ "alembic_version" \in run[m].held
              /\ View(m) = Base(run[m].at, run[m].fresh)
              /\ Table("alembic_version") \in View(m)
<1> DEFINE c == run[m].command
           rd == run[m].read
           at == run[m].at
           f == run[m].fresh
<1>1. /\ MigrationsTypeOK /\ CourseInv(m) /\ LockInv(m) /\ StampInv(m)
  BY InvIs
<1>2. /\ rd \in 0 .. 5 /\ at \in 0 .. 5 /\ f \in BOOLEAN
      /\ c \in {"upgrade head", "downgrade -1"}
  BY <1>1, RunIs
<1>3. /\ IF c = "upgrade head" THEN at = 5 ELSE at = rd - 1
      /\ IF c = "upgrade head" THEN TRUE ELSE rd > 0
      /\ f => rd = 0
  BY <1>1, FiveRevisions DEF CourseInv, Finished
<1>4. CASE at = rd
  <2>1. c = "upgrade head" /\ rd = Newest
    <3> HIDE DEF c, rd, at, f
    <3>1. \A x \in 0 .. 5 : x # x - 1
      OBVIOUS
    <3> QED BY <1>2, <1>3, <1>4, <3>1, FiveRevisions, Zenon
  <2>2. run[m].held = {}
    BY <1>1, <2>1 DEF LockInv
  <2>3. run[m].mine = {}
    BY <1>1, <2>2 DEF LockInv
  <2>4. View(m) = schema
    BY <2>2, <2>3 DEF View
  <2> QED BY <1>4, <2>2, <2>4
<1>5. CASE at # rd
  <2>1. "alembic_version" \in run[m].held /\ schema = Found(m)
    BY <1>1, <1>5 DEF StampInv
  <2>2. View(m) = Base(at, f)
    BY <1>1, <2>1, ViewAsPlanned, PlannedIsOf
  <2>3. ~(f /\ at = 0)
    <3> HIDE DEF c, rd, at, f
    <3>1. 5 # 0 /\ ~(0 > 0)
      OBVIOUS
    <3> QED BY <1>2, <1>3, <3>1, Zenon
  <2>4. Table("alembic_version") \in Base(at, f)
    BY <1>2, <2>3, BaseHas, Zenon
  <2> QED BY <2>1, <2>2, <2>4, Zenon
<1> QED BY <1>4, <1>5

(* The other runs, when one commits what it has made of alembic_version.      *)
LEMMA OthersKeep ==
    ASSUME MigrationsInv, NEW m \in Migrators, NEW n \in Migrators \ {m}, run'[n] = run[n],
           "alembic_version" \in run[m].held, Table("alembic_version") \in View(m),
           schema' = View(m), Running(m)
    PROVE  CourseInv(n)' /\ ViewInv(n)' /\ StampInv(n)' /\ AloneInv(n)'
<1>1. /\ CourseInv(n) /\ ViewInv(n) /\ StampInv(n) /\ AloneInv(n) /\ LockInv(n)
  BY InvIs
<1>2. run[n].held \intersect run[m].held = {}
  BY <1>1 DEF LockInv
<1>3. "alembic_version" \notin run[n].held
  BY <1>2
<1>4. \A t \in run[n].held : Of(t, schema') = Of(t, schema)
  BY <1>2, ViewOf
<1>5. /\ Running(n)' <=> Running(n)
      /\ Finished(n)' <=> Finished(n)
      /\ ScriptOf(n)' = ScriptOf(n) /\ Found(n)' = Found(n)
  BY DEF Running, Finished, ScriptOf, Found
<1>6. Planned(n)' = Planned(n)
  BY <1>5 DEF Planned
<1>7. CourseInv(n)'
  BY <1>1, <1>5 DEF CourseInv
<1>8. ViewInv(n)'
  BY <1>1, <1>4, <1>5, <1>6 DEF ViewInv
<1>9. StampInv(n)'
  <2> SUFFICES ASSUME Running(n) PROVE run[n].at = run[n].read /\ FirstInv(n)'
    BY <1>5 DEF StampInv
  <2>1. run[n].at = run[n].read /\ FirstInv(n)
    BY <1>1, <1>3 DEF StampInv
  <2>2. "tmp" \in run[n].held => (Table("tmp") \in schema' <=> Table("tmp") \in schema)
    <3>1. Table("tmp")[1] = "tmp"
      BY DEF Table
    <3> QED BY <1>4, <3>1 DEF Of
  <2> QED BY <1>3, <1>4, <1>5, <2>1, <2>2 DEF FirstInv
<1>10. AloneInv(n)'
  <2>1. Running(n) => run[n].disturbed
    BY <1>1 DEF AloneInv
  <2> QED BY <1>5, <2>1 DEF AloneInv
<1> QED BY <1>7, <1>8, <1>9, <1>10

(* A run that has finished commits: the database gets to the revision at its  *)
(* end.                                                                       *)
LEMMA CommitKeeps ==
    ASSUME MigrationsInv, NEW m \in Migrators, Commit(m)
    PROVE  MigrationsInv'
<1> DEFINE r == [run[m] EXCEPT !.stage = "done", !.held = {}, !.mine = {}]
<1>1. /\ Running(m) /\ Finished(m) /\ schema' = View(m)
      /\ nameless' = (nameless /\ Table("users") \in View(m))
      /\ UNCHANGED <<writing, runs>>
  BY DEF Commit
<1>2. run' = [run EXCEPT ![m] = r]
  BY DEF Commit
<1>3. /\ MigrationsTypeOK /\ run[m] \in RunRecord /\ run \in [Migrators -> RunRecord]
  BY InvIs DEF MigrationsTypeOK
<1>4. r \in RunRecord
  BY <1>3 DEF RunRecord
<1>5. r.stage = "done" /\ r.held = {} /\ r.mine = {}
  BY <1>3 DEF RunRecord
<1> HIDE DEF r
<1>6. run'[m] = r /\ \A n \in Migrators \ {m} : run'[n] = run[n]
  BY <1>2, <1>3
<1>7. MigrationsTypeOK'
  <2>1. View(m) \subseteq Objects
    BY ViewOf
  <2>2. nameless' \in BOOLEAN
    BY <1>1
  <2> QED BY <1>1, <1>2, <1>3, <1>4, <2>1, <2>2 DEF MigrationsTypeOK
<1>8. ~Running(m)' /\ run'[m].held = {} /\ run'[m].mine = {} /\ run'[m].stage # "failed"
  BY <1>5, <1>6 DEF Running
<1>9. CourseInv(m)' /\ ViewInv(m)' /\ StampInv(m)' /\ AloneInv(m)' /\ LocksInv(m)' /\ FailsRightly(m)'
  BY <1>8 DEF CourseInv, ViewInv, StampInv, AloneInv, LocksInv, FailsRightly
<1>10. \A n \in Migrators \ {m} : run'[m].held \intersect run[n].held = {}
  BY <1>8
<1>11. CASE schema' = schema
  BY <1>6, <1>7, <1>8, <1>9, <1>10, <1>11, StepKeeps
<1>12. CASE /\ "alembic_version" \in run[m].held
            /\ View(m) = Base(run[m].at, run[m].fresh)
            /\ Table("alembic_version") \in View(m)
  <2>1. ASSUME NEW n \in Migrators \ {m}
        PROVE  /\ CourseInv(n)' /\ ViewInv(n)' /\ StampInv(n)' /\ AloneInv(n)'
               /\ LocksInv(n)' /\ FailsRightly(n)'
               /\ \A l \in Migrators \ {n} : (run[n].held \intersect run[l].held)' = {}
    <3>1. run'[n] = run[n]
      BY <1>6
    <3>2. CourseInv(n)' /\ ViewInv(n)' /\ StampInv(n)' /\ AloneInv(n)'
      BY <1>1, <1>12, <3>1, OthersKeep
    <3>3. LockInv(n)
      BY InvIs
    <3>4. LocksInv(n)'
      BY <3>1, <3>3 DEF LockInv, LocksInv, Running
    <3>5. FailsRightly(n)'
      BY <3>1, InvIs DEF FailsRightly, FailsAloneOnlyForNames
    <3>6. \A l \in Migrators \ {n} : (run[n].held \intersect run[l].held)' = {}
      <4> TAKE l \in Migrators \ {n}
      <4>1. CASE l = m
        BY <1>8, <4>1
      <4>2. CASE l # m
        BY <1>6, <3>1, <3>3, <4>2 DEF LockInv
      <4> QED BY <4>1, <4>2
    <3> QED BY <3>2, <3>4, <3>5, <3>6
  <2>2. \A l \in Migrators \ {m} : (run[m].held \intersect run[l].held)' = {}
    BY <1>8
  <2>3. \A n \in Migrators : /\ CourseInv(n)' /\ ViewInv(n)' /\ StampInv(n)' /\ AloneInv(n)'
                             /\ LocksInv(n)' /\ FailsRightly(n)'
    BY <1>9, <2>1
  <2>4. \A n \in Migrators : LockInv(n)'
    BY <2>1, <2>2, <2>3 DEF LocksInv, LockInv
  <2>5. FailsAloneOnlyForNames'
    BY <2>3 DEF FailsRightly, FailsAloneOnlyForNames
  <2>6. (\E n \in 0 .. Newest, fresh \in BOOLEAN : schema = Base(n, fresh))'
    <3>1. run[m].at \in 0 .. 5 /\ run[m].fresh \in BOOLEAN
      BY <1>3, RunIs
    <3> QED BY <1>1, <1>12, <3>1, FiveRevisions
  <2> QED BY <1>7, <2>3, <2>4, <2>5, <2>6 DEF MigrationsInv
<1> QED BY <1>1, <1>11, <1>12, CommitIs

(* A run before it begins.                                                    *)
LEMMA IdleRecord == Idle \in RunRecord
  BY FiveRevisions DEF Idle, RunRecord, Commands

(* A run begins and reads the revision.                                       *)
LEMMA BeginKeeps ==
    ASSUME MigrationsInv, NEW m \in Migrators, NEW command \in Commands, Begin(m, command)
    PROVE  MigrationsInv'
<1> DEFINE v == RevisionOf(schema)
           f == Table("alembic_version") \notin schema
           alone == \A n \in Migrators : ~Running(n)
           failed == command = "downgrade -1" /\ v = 0
           stage == IF failed THEN "failed" ELSE "running"
           disturbed == ~alone
           r == [Idle EXCEPT !.stage = stage, !.command = command, !.read = v, !.at = v,
                             !.fresh = f, !.disturbed = disturbed]
           other(n) == [run[n] EXCEPT !.disturbed = @ \/ Running(n)]
<1>1. /\ ~Running(m) /\ runs < MaxRuns /\ runs' = runs + 1
      /\ UNCHANGED <<schema, nameless, writing>>
  BY DEF Begin
<1>2. run' = [n \in Migrators |-> IF n = m THEN r ELSE other(n)]
  BY Zenon DEF Begin
<1>3. /\ MigrationsTypeOK /\ run \in [Migrators -> RunRecord] /\ runs \in 0 .. MaxRuns
  BY InvIs DEF MigrationsTypeOK
<1>4. PICK k \in 0 .. 5, b \in BOOLEAN : schema = Base(k, b)
  BY InvIs
<1>5. v = k
  BY <1>4, RevisionIs
<1>6. f <=> (b /\ k = 0)
  BY <1>4, BaseHas
<1>7. schema = Base(k, f)
  <2>1. CASE k = 0
    <3>1. f = b
      BY <1>4, <1>6, <2>1
    <3> QED BY <1>4, <3>1
  <2>2. CASE k # 0
    <3>1. f = FALSE
      BY <1>6, <2>2
    <3>2. Base(k, b) = Base(k, FALSE)
      BY <1>4, <2>2, BaseHas, Zenon
    <3> QED BY <1>4, <3>1, <3>2
  <2> QED BY <2>1, <2>2
<1>8. /\ v \in 0 .. Newest /\ f \in BOOLEAN /\ disturbed \in BOOLEAN
      /\ stage \in {"idle", "running", "done", "failed"}
  <2>1. v \in 0 .. Newest
    BY <1>5, FiveRevisions
  <2>2. f \in BOOLEAN /\ disturbed \in BOOLEAN
    BY Zenon
  <2>3. stage \in {"idle", "running", "done", "failed"}
    BY Zenon
  <2> QED BY <2>1, <2>2, <2>3
<1> HIDE DEF v, f, stage, disturbed
<1>9. /\ r \in RunRecord
      /\ r.stage = stage /\ r.command = command /\ r.read = v /\ r.at = v /\ r.fresh = f
      /\ r.next = 1 /\ r.held = {} /\ r.mine = {} /\ r.disturbed = disturbed
  <2>1. r = [Idle EXCEPT !.stage = stage, !.command = command, !.read = v, !.at = v,
                         !.fresh = f, !.disturbed = disturbed]
    OBVIOUS
  <2> HIDE DEF r
  <2>2. Idle.next = 1 /\ Idle.held = {} /\ Idle.mine = {}
    BY DEF Idle
  <2> QED BY <1>8, <2>1, <2>2, IdleRecord DEF RunRecord
<1>10. (stage = IF failed THEN "failed" ELSE "running") /\ (disturbed <=> ~alone)
  BY Zenon DEF stage, disturbed
<1> HIDE DEF r, alone, failed
<1>11. run'[m] = r
  BY <1>2
<1>12. ASSUME NEW n \in Migrators \ {m}
       PROVE  /\ run'[n] = other(n) /\ run'[n] \in RunRecord
              /\ run'[n].stage = run[n].stage /\ run'[n].command = run[n].command
              /\ run'[n].read = run[n].read /\ run'[n].at = run[n].at
              /\ run'[n].fresh = run[n].fresh /\ run'[n].next = run[n].next
              /\ run'[n].held = run[n].held /\ run'[n].mine = run[n].mine
              /\ run'[n].disturbed = (run[n].disturbed \/ Running(n))
  <2>1. run'[n] = other(n) /\ run[n] \in RunRecord
    BY <1>2, <1>3
  <2>2. Running(n) \in BOOLEAN
    BY DEF Running
  <2> QED BY <2>1, <2>2 DEF RunRecord
<1>13. MigrationsTypeOK'
  <2>1. run' \in [Migrators -> RunRecord]
    <3>1. \A n \in Migrators : run'[n] \in RunRecord
      BY <1>9, <1>11, <1>12
    <3>2. run' = [n \in Migrators |-> run'[n]]
      BY <1>2
    <3> QED BY <3>1, <3>2
  <2>2. runs' \in 0 .. MaxRuns
    BY <1>1, <1>3, MaxRunsIsNat
  <2> QED BY <1>1, <1>3, <2>1, <2>2 DEF MigrationsTypeOK
<1>14. schema' = schema
  BY <1>1
<1>15. ASSUME NEW n \in Migrators \ {m}
       PROVE  /\ CourseInv(n)' /\ ViewInv(n)' /\ StampInv(n)' /\ AloneInv(n)'
              /\ LocksInv(n)' /\ FailsRightly(n)'
  <2>1. CourseInv(n) /\ ViewInv(n) /\ StampInv(n) /\ AloneInv(n) /\ LockInv(n)
    BY InvIs
  <2>2. CourseInv(n)' /\ ViewInv(n)' /\ StampInv(n)'
    BY <1>12, <1>14, <2>1, RunUnchanged
  <2>3. Running(n)' <=> Running(n)
    BY <1>12 DEF Running
  <2>4. AloneInv(n)'
    BY <1>12, <2>3 DEF AloneInv
  <2>5. LocksInv(n)'
    BY <1>12, <2>1, <2>3 DEF LockInv, LocksInv
  <2>6. FailsRightly(n)'
    BY <1>12, InvIs DEF FailsRightly, FailsAloneOnlyForNames
  <2> QED BY <2>2, <2>4, <2>5, <2>6
<1>16. FailsRightly(m)'
  <2>1. r.stage = "failed" => command = "downgrade -1" /\ v = 0
    BY <1>9, <1>10 DEF failed
  <2> QED BY <1>9, <1>11, <2>1 DEF FailsRightly
<1>17. LocksInv(m)'
  BY <1>9, <1>11 DEF LocksInv
<1>18. \A n \in Migrators : LockInv(n)'
  <2> TAKE n \in Migrators
  <2>1. LocksInv(n)'
    BY <1>15, <1>17
  <2>2. \A l \in Migrators \ {n} : (run[n].held \intersect run[l].held)' = {}
    <3> TAKE l \in Migrators \ {n}
    <3>1. CASE n = m \/ l = m
      BY <1>9, <1>11, <3>1
    <3>2. CASE n # m /\ l # m
      <4>1. run[n].held \intersect run[l].held = {}
        BY InvIs DEF LockInv
      <4> QED BY <1>12, <3>2, <4>1
    <3> QED BY <3>1, <3>2
  <2> QED BY <2>1, <2>2 DEF LocksInv, LockInv
<1>19. Found(m)' = schema
  BY <1>5, <1>7, <1>9, <1>11 DEF Found
<1>20. CourseInv(m)' /\ ViewInv(m)' /\ StampInv(m)' /\ AloneInv(m)'
  <2>1. CASE ~Running(m)'
    BY <2>1 DEF CourseInv, ViewInv, StampInv, AloneInv
  <2>2. CASE Running(m)'
    <3>1. ~failed
      BY <1>9, <1>11, <1>10, <2>2 DEF Running
    <3>2. command \in {"upgrade head", "downgrade -1"} /\ v \in 0 .. 5 /\ f \in BOOLEAN
      BY <1>5 DEF Commands, f
    <3>3. command # "upgrade head" => v > 0
      <4>1. command # "upgrade head" => v # 0
        BY <3>1, <3>2 DEF failed
      <4> QED BY <3>2, <4>1, ReadSteps, Zenon
    <3>4. IF f THEN v = 0 ELSE Table("alembic_version") \in schema
      BY <1>5, <1>6 DEF f
    <3>5. ~Finished(m)' => Len(ScriptOf(m)') \in 2 .. 8
      <4> SUFFICES ASSUME ~Finished(m)' PROVE Len(ScriptOf(m)') \in 2 .. 8
        OBVIOUS
      <4>1. ScriptOf(m)' = Script(command, v, f)
        BY <1>9, <1>11 DEF ScriptOf
      <4>2. command = "upgrade head" => v # 5
        BY <1>9, <1>11, FiveRevisions DEF Finished
      <4>3. \E w : Course(command, v, f, w)
        <5>1. CASE command = "upgrade head"
          <6>1. v < 5 /\ v + 1 \in 0 .. 5
            BY <3>2, <4>2, <5>1, ReadSteps, Zenon
          <6>2. Course(command, v, f, v + 1)
            BY <3>2, <5>1, <6>1, Zenon DEF Course
          <6> QED BY <6>2, Zenon
        <5>2. CASE command # "upgrade head"
          <6>1. v - 1 \in 0 .. 5 /\ v # 0
            BY <3>2, <3>3, <5>2, ReadSteps, Zenon
          <6>2. ~f
            BY <3>4, <6>1, Zenon
          <6>3. Course(command, v, f, v - 1)
            BY <3>2, <3>3, <5>2, <6>1, <6>2, Zenon DEF Course
          <6> QED BY <6>3, Zenon
        <5> QED BY <5>1, <5>2
      <4>4. \E w : IsScript(Script(command, v, f), command, v, f, w)
        BY <4>3, ScriptParts, Zenon
      <4> QED BY <4>1, <4>4, Zenon DEF IsScript
    <3>6. CourseInv(m)'
      <4>1. v <= v /\ v \in {v - 1, v}
        <5>1. \A x \in 0 .. 5 : x <= x /\ x \in {x - 1, x}
          OBVIOUS
        <5> QED BY <3>2, <5>1, Zenon
      <4>2. 1 <= IF Finished(m)' THEN 1 ELSE Len(ScriptOf(m)')
        <5>1. 1 <= 1 /\ \A x \in 2 .. 8 : 1 <= x
          OBVIOUS
        <5> QED BY <3>5, <5>1, Zenon
      <4> QED BY <1>9, <1>11, <1>14, <3>3, <3>4, <4>1, <4>2, Zenon DEF CourseInv
    <3>7. Planned(m)' = schema
      <4>1. Finished(m)' => Planned(m)' = Base(v, f)
        BY <1>9, <1>11 DEF Planned
      <4>2. ~Finished(m)' => Planned(m)' = Base(v, f)
        <5> SUFFICES ASSUME ~Finished(m)' PROVE Planned(m)' = Base(v, f)
          OBVIOUS
        <5> DEFINE next == ScriptOf(m)'
                   base == Base(v, f)
        <5>1. Planned(m)' = After(next, base)[1 - 1]
          BY <1>9, <1>11 DEF Planned
        <5>2. After(next, base)[0] = base
          <6>1. Len(next) \in 0 .. 8
            BY <3>5
          <6> HIDE DEF next, base
          <6> QED BY <6>1, AfterFollows
        <5> QED BY <5>1, <5>2
      <4> QED BY <1>5, <1>7, <4>1, <4>2
    <3>8. ViewInv(m)'
      BY <1>9, <1>11, <1>19, <3>7 DEF ViewInv
    <3>9. StampInv(m)'
      <4>1. ~(1 > 1) /\ ~(1 > (IF f THEN 2 ELSE 1))
        <5>1. ~(1 > 1) /\ ~(1 > 2)
          OBVIOUS
        <5> QED BY <5>1, Zenon
      <4>2. FirstInv(m)'
        BY <1>9, <1>11, <4>1, Zenon DEF FirstInv
      <4> QED BY <1>9, <1>11, <4>2 DEF StampInv
    <3>10. AloneInv(m)'
      <4>1. alone => \A n \in Migrators \ {m} : ~Running(n)'
        BY <1>12 DEF alone, Running
      <4> QED BY <1>9, <1>11, <1>14, <1>19, <1>10, <4>1 DEF AloneInv
    <3> QED BY <3>6, <3>8, <3>9, <3>10
  <2> QED BY <2>1, <2>2
<1>21. (\E n \in 0 .. Newest, fresh \in BOOLEAN : schema = Base(n, fresh))'
  BY <1>4, <1>14, FiveRevisions
<1>22. FailsAloneOnlyForNames'
  BY <1>15, <1>16 DEF FailsRightly, FailsAloneOnlyForNames
<1> QED BY <1>13, <1>15, <1>18, <1>20, <1>21, <1>22 DEF MigrationsInv

----------------------------------------------------------------------------
(* The theorems.                                                              *)

(* The invariant holds of every database that a deployment may begin with.    *)
LEMMA InitHolds == MigrationsInit => MigrationsInv
<1> SUFFICES ASSUME MigrationsInit PROVE MigrationsInv
  OBVIOUS
<1>1. PICK n \in 0 .. 5 : schema = Deployed(n, n # 0)
  BY FiveRevisions DEF MigrationsInit
<1>2. schema = Base(n, TRUE)
  <2>1. (n # 0) = (n # 0 \/ ~TRUE)
    OBVIOUS
  <2> QED BY <1>1, <2>1, Zenon DEF Base
<1>3. \A m \in Migrators : /\ run[m].stage = "idle" /\ ~Running(m)
                           /\ run[m].held = {} /\ run[m].mine = {}
  BY DEF MigrationsInit, Idle, Running
<1>4. MigrationsTypeOK
  <2>1. Idle \in RunRecord
    BY IdleRecord
  <2>2. schema \subseteq Objects
    <3>1. TRUE \in BOOLEAN
      OBVIOUS
    <3> QED BY <1>2, <3>1, BaseIs, Zenon
  <2>3. run \in [Migrators -> RunRecord]
    BY <2>1 DEF MigrationsInit
  <2>4. runs \in 0 .. MaxRuns
    BY MaxRunsIsNat DEF MigrationsInit
  <2>5. nameless \in BOOLEAN /\ writing \in {{}, {"spaces"}}
    BY DEF MigrationsInit
  <2> QED BY <2>2, <2>3, <2>4, <2>5 DEF MigrationsTypeOK
<1>5. \E k \in 0 .. Newest, fresh \in BOOLEAN : schema = Base(k, fresh)
  BY <1>2, FiveRevisions
<1>6. \A m \in Migrators : /\ CourseInv(m) /\ LockInv(m) /\ ViewInv(m)
                           /\ StampInv(m) /\ AloneInv(m)
  BY <1>3 DEF CourseInv, LockInv, ViewInv, StampInv, AloneInv
<1>7. FailsAloneOnlyForNames
  BY <1>3 DEF FailsAloneOnlyForNames
<1> QED BY <1>4, <1>5, <1>6, <1>7 DEF MigrationsInv

(* The steps of the application, and none.                                    *)
LEMMA ApplicationKeeps ==
    ASSUME MigrationsInv, UNCHANGED <<schema, run, runs>>,
           nameless' \in BOOLEAN, writing' \in {{}, {"spaces"}}
    PROVE  MigrationsInv'
<1>1. MigrationsTypeOK'
  BY InvIs DEF MigrationsTypeOK, MigrationsInv
<1>2. ASSUME NEW m \in Migrators
      PROVE  /\ CourseInv(m)' /\ LockInv(m)' /\ ViewInv(m)' /\ StampInv(m)' /\ AloneInv(m)'
  <2>1. CourseInv(m) /\ LockInv(m) /\ ViewInv(m) /\ StampInv(m) /\ AloneInv(m)
    BY InvIs
  <2>2. CourseInv(m)' /\ ViewInv(m)' /\ StampInv(m)'
    BY <2>1, RunUnchanged
  <2>3. \A n : Running(n)' <=> Running(n)
    BY DEF Running
  <2>4. Found(m)' = Found(m)
    BY DEF Found
  <2> QED BY <2>1, <2>2, <2>3, <2>4 DEF LockInv, AloneInv
<1>3. FailsAloneOnlyForNames'
  BY DEF MigrationsInv, FailsAloneOnlyForNames
<1>4. (\E n \in 0 .. Newest, fresh \in BOOLEAN : schema = Base(n, fresh))'
  BY DEF MigrationsInv
<1> QED BY <1>1, <1>2, <1>3, <1>4 DEF MigrationsInv

(* Every step of every run keeps the invariant.                               *)
LEMMA NextKeeps == MigrationsInv /\ [MigrationsNext]_migrationVars => MigrationsInv'
<1> SUFFICES ASSUME MigrationsInv, [MigrationsNext]_migrationVars PROVE MigrationsInv'
  OBVIOUS
<1>1. nameless \in BOOLEAN /\ writing \in {{}, {"spaces"}}
  BY DEF MigrationsInv, MigrationsTypeOK
<1>2. ASSUME NEW m \in Migrators, NEW command \in Commands, Begin(m, command)
      PROVE  MigrationsInv'
  BY <1>2, BeginKeeps
<1>3. ASSUME NEW m \in Migrators, Advance(m) PROVE MigrationsInv'
  BY <1>3, LockKeeps, ExecuteKeeps, FailKeeps, CommitKeeps, AbortKeeps DEF Advance
<1>4. ASSUME NEW m \in Migrators, Killed(m) PROVE MigrationsInv'
  BY <1>4, AbortKeeps
<1>5. CASE StoreNameless
  BY <1>1, <1>5, ApplicationKeeps DEF StoreNameless
<1>6. CASE WriteSpace
  BY <1>1, <1>6, ApplicationKeeps DEF WriteSpace
<1>7. CASE WriteMembership
  BY <1>1, <1>7, ApplicationKeeps DEF WriteMembership
<1>8. CASE AbortWriter
  BY <1>1, <1>8, ApplicationKeeps DEF AbortWriter
<1>9. CASE UNCHANGED migrationVars
  BY <1>1, <1>9, ApplicationKeeps DEF migrationVars
<1>10. CASE AllRun
  BY <1>9, <1>10 DEF AllRun
<1> QED BY <1>2, <1>3, <1>4, <1>5, <1>6, <1>7, <1>8, <1>9, <1>10 DEF MigrationsNext

(* For any number of alembic processes: the database is always as some        *)
(* revision has it, every run is on its course and holds the locks of what it *)
(* changed, and its view of each table is what its script plans.              *)
THEOREM MigrationsInvariance == MigrationsSpec => []MigrationsInv
<1>1. MigrationsInit => MigrationsInv
  BY InitHolds
<1>2. MigrationsInv /\ [MigrationsNext]_migrationVars => MigrationsInv'
  BY NextKeeps
<1> QED BY <1>1, <1>2, PTL DEF MigrationsSpec

(* The variables keep their types: neither the database nor what a run makes  *)
(* of its tables ever has an object that no revision of src/alembic/versions  *)
(* has, a constraint under another name for one.                              *)
THEOREM MigrationsTypeCorrect == MigrationsSpec => []MigrationsTypeOK
<1>1. MigrationsInv => MigrationsTypeOK
  BY DEF MigrationsInv
<1> QED BY <1>1, MigrationsInvariance, PTL

(* The newest revision is the schema of src/app/models.                       *)
LEMMA HeadIsModels == Made(5) = ModelsSchema
  BY MadeIs DEF ModelsSchema, WithSessions, WithLogins, WithUsers, WithTmp

(* However many runs of alembic race, whatever fails or is killed: what is    *)
(* committed is the schema of the revision that alembic_version records, and  *)
(* at head that of the models; for env.py runs all scripts of a command in    *)
(* one transaction.                                                           *)
THEOREM SchemaAsRecorded == MigrationsSpec => []SchemaMatchesRevision
<1>1. ASSUME MigrationsInv PROVE SchemaMatchesRevision
  <2>1. PICK n \in 0 .. 5, fresh \in BOOLEAN : schema = Base(n, fresh)
    BY <1>1, FiveRevisions DEF MigrationsInv
  <2>2. RevisionOf(schema) = n
    BY <2>1, RevisionIs
  <2>3. \A o \in Made(n) : o[1] # "alembic_version"
    BY MadeApart
  <2>4. \A o \in Recorded(n) : o[1] = "alembic_version"
    BY RecordedIs DEF OfVersion
  <2>5. schema = IF fresh /\ n = 0 THEN {} ELSE Made(n) \union Recorded(n)
    BY <2>1, BaseIs
  <2>6. Made(0) = {}
    BY MadeIs
  <2>7. {o \in schema : o[1] # "alembic_version"} = Made(n)
    BY <2>3, <2>4, <2>5, <2>6
  <2>8. {o \in schema : o[1] = "alembic_version"} \subseteq Recorded(n)
    BY <2>3, <2>5
  <2>9. SchemaAt[n] = Made(n) /\ (n = Newest => Made(n) = ModelsSchema)
    BY SchemaAtIs, HeadIsModels, FiveRevisions
  <2> QED BY <2>2, <2>7, <2>8, <2>9 DEF SchemaMatchesRevision, Recorded
<1> QED BY <1>1, MigrationsInvariance, PTL

(* A run that no other has disturbed fails only at the revisions from which   *)
(* downgrade cannot go on: where there is nothing below, or where downgrade() *)
(* of revision 3 finds a user without a username.                             *)
THEOREM FailsAlone == MigrationsSpec => []FailsAloneOnlyForNames
<1>1. MigrationsInv => FailsAloneOnlyForNames
  BY DEF MigrationsInv
<1> QED BY <1>1, MigrationsInvariance, PTL
==============================================================================
