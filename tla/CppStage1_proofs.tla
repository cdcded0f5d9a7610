-------------------------- MODULE CppStage1_proofs --------------------------
(***************************************************************************)
(* For every set of texts: the cursor of stage 1 stays in its list, however*)
(* the list shrinks and grows under it (TypeCorrect), what is deleted is   *)
(* blank, comment, or a backslash and a newline with nothing left between  *)
(* them (SpaceLost), and what is inserted is one mark for a parenthesis    *)
(* (MarksStand).                                                           *)
(***************************************************************************)
EXTENDS CppStage1, SequenceTheorems, TLAPS

-----------------------------------------------------------------------------

IsSpace(ty) == IsComment(ty) \/ ty = "WHITESPACE"
TokensOf(inp) == [ty : Types, at : DOMAIN inp]
Flags == [name : BOOLEAN, define : BOOLEAN, hash : BOOLEAN, eol : BOOLEAN,
          esc : BOOLEAN, ws : BOOLEAN]

Typed ==
  /\ input \in Seq(Types) /\ toks \in Seq(TokensOf(input))
  /\ index \in 0 .. Len(toks) /\ flags \in Flags

(* The last token walked over is of one of these types, or was and will be *)
(* walked over again.                                                      *)
After(s, i, types) ==
  \/ i \in DOMAIN s /\ s[i].ty \in types
  \/ i + 1 = Len(s) /\ s[i + 1].ty \in types

(* What the flags remember is in front of the cursor.                      *)
Remembers(s, i, f) ==
  /\ f.esc => ~f.name /\ After(s, i, {"BSLASH"})
  /\ f.name => After(s, i, {"NAME", "EOL", "HASH", "DEFINE"})

(* There is no space in front of the cursor.                               *)
Sifted(s, i) == \A k \in DOMAIN s : k <= i => ~IsSpace(s[k].ty)

(* A token is in its place, or a mark.                                     *)
Before(t, u) == t.at < u.at \/ (t.ty = "NO_WHITESPACE" /\ t.at = u.at)
InOrder(s) == \A i \in DOMAIN s : \A j \in DOMAIN s : i < j => Before(s[i], s[j])

(* A token is the one that was scanned at its place, or it marks the       *)
(* parenthesis behind it.                                                  *)
Scanned(inp, t) == t.ty = inp[t.at]
Marks(s, i) ==
  /\ s[i].ty = "NO_WHITESPACE"
  /\ i + 1 \in DOMAIN s /\ s[i + 1].ty = "LPAREN" /\ s[i + 1].at = s[i].at
Told(inp, s) == \A i \in DOMAIN s : Scanned(inp, s[i]) \/ Marks(s, i)

(* A place of the text that no token of the list is from, and why not.     *)
Lost(inp, s, p) == \A i \in DOMAIN s : ~(s[i].at = p /\ s[i].ty = inp[p])
LostFrom(inp, s, p, q) == \A r \in DOMAIN inp : p <= r /\ r <= q => Lost(inp, s, r)
MayBeLost(inp, s, p) ==
  \/ IsSpace(inp[p])
  \/ inp[p] = "BSLASH" /\ \E q \in DOMAIN inp : p < q /\ inp[q] = "EOL" /\ LostFrom(inp, s, p, q)
  \/ inp[p] = "EOL" /\ \E q \in DOMAIN inp : q < p /\ inp[q] = "BSLASH" /\ LostFrom(inp, s, q, p)
Losses(inp, s) == \A p \in DOMAIN inp : Lost(inp, s, p) => MayBeLost(inp, s, p)

-----------------------------------------------------------------------------

(* What deleting and inserting make of a list.                             *)
Shrunk(s, t, o, n) ==
  /\ Len(t) = Len(s) - n
  /\ \A k \in 1 .. Len(t) : t[k] = IF k <= o THEN s[k] ELSE s[k + n]

Grown(s, t, o, u) ==
  /\ Len(t) = Len(s) + 1
  /\ \A k \in 1 .. Len(t) : t[k] = IF k <= o THEN s[k] ELSE IF k = o + 1 THEN u ELSE s[k - 1]

LEMMA DelRangeShrinks ==
  ASSUME NEW T, NEW s \in Seq(T), NEW o \in Nat, NEW n \in Nat, o + n <= Len(s)
  PROVE  DelRange(s, o, n) \in Seq(T) /\ Shrunk(s, DelRange(s, o, n), o, n)
<1>1. PICK a : a = SubSeq(s, 1, o)
  OBVIOUS
<1>2. PICK b : b = SubSeq(s, o + n + 1, Len(s))
  OBVIOUS
<1>3. Len(s) \in Nat
  BY LenProperties
<1>4. a \in Seq(T) /\ Len(a) = o /\ \A k \in 1 .. o : a[k] = s[k]
  <2>1. 1 \in 1 .. Len(s) + 1 /\ o \in 1 - 1 .. Len(s) /\ o - 1 + 1 = o
    BY <1>3
  <2>2. /\ a \in Seq(T) /\ Len(a) = o - 1 + 1
        /\ \A k \in 1 .. o - 1 + 1 : a[k] = s[1 + k - 1]
    BY <1>1, <2>1, SubSeqProperties
  <2> QED BY <2>1, <2>2
<1>5. b \in Seq(T) /\ Len(b) = Len(s) - o - n /\ \A k \in 1 .. Len(s) - o - n : b[k] = s[o + n + k]
  <2>1. PICK m, z : m = o + n + 1 /\ z = Len(s)
    OBVIOUS
  <2>2. m \in 1 .. Len(s) + 1 /\ z \in m - 1 .. Len(s) /\ z - m + 1 = Len(s) - o - n /\ m \in Nat
    BY <1>3, <2>1
  <2>3. b = SubSeq(s, m, z)
    BY <1>2, <2>1
  <2>4. b \in Seq(T) /\ Len(b) = z - m + 1 /\ \A k \in 1 .. z - m + 1 : b[k] = s[m + k - 1]
    BY <2>2, <2>3, SubSeqProperties
  <2>5. ASSUME NEW k \in 1 .. Len(s) - o - n
        PROVE  b[k] = s[o + n + k]
    <3>1. m + k - 1 = o + n + k
      BY <1>3, <2>1
    <3>2. b[k] = s[m + k - 1]
      BY <2>2, <2>4
    <3> QED BY <3>1, <3>2
  <2> QED BY <2>2, <2>4, <2>5
<1>6. DelRange(s, o, n) = a \o b
  BY <1>1, <1>2 DEF DelRange
<1>7. /\ a \o b \in Seq(T) /\ Len(a \o b) = Len(a) + Len(b)
      /\ \A k \in 1 .. Len(a) + Len(b) : (a \o b)[k] = IF k <= Len(a) THEN a[k] ELSE b[k - Len(a)]
  BY <1>4, <1>5, ConcatProperties
<1>8. ASSUME NEW k \in 1 .. Len(s) - n
      PROVE  (a \o b)[k] = IF k <= o THEN s[k] ELSE s[k + n]
  <2>1. (a \o b)[k] = IF k <= o THEN a[k] ELSE b[k - o]
    BY <1>3, <1>4, <1>5, <1>7
  <2>2. k <= o => a[k] = s[k]
    BY <1>3, <1>4
  <2>3. ~(k <= o) => b[k - o] = s[k + n]
    <3> SUFFICES ASSUME ~(k <= o)
                 PROVE  b[k - o] = s[k + n]
      OBVIOUS
    <3>1. k - o \in 1 .. Len(s) - o - n /\ o + n + (k - o) = k + n
      BY <1>3
    <3> QED BY <1>5, <3>1
  <2> QED BY <2>1, <2>2, <2>3
<1> QED BY <1>3, <1>4, <1>5, <1>6, <1>7, <1>8 DEF Shrunk

LEMMA InsRangeGrows ==
  ASSUME NEW T, NEW s \in Seq(T), NEW o \in Nat, o <= Len(s), NEW u \in T
  PROVE  InsCur(s, o, u) \in Seq(T) /\ Grown(s, InsCur(s, o, u), o, u)
<1>1. PICK a : a = SubSeq(s, 1, o)
  OBVIOUS
<1>2. PICK b : b = SubSeq(s, o + 1, Len(s))
  OBVIOUS
<1>3. Len(s) \in Nat
  BY LenProperties
<1>4. a \in Seq(T) /\ Len(a) = o /\ \A k \in 1 .. o : a[k] = s[k]
  <2>1. 1 \in 1 .. Len(s) + 1 /\ o \in 1 - 1 .. Len(s) /\ o - 1 + 1 = o
    BY <1>3
  <2>2. /\ a \in Seq(T) /\ Len(a) = o - 1 + 1
        /\ \A k \in 1 .. o - 1 + 1 : a[k] = s[1 + k - 1]
    BY <1>1, <2>1, SubSeqProperties
  <2> QED BY <2>1, <2>2
<1>5. b \in Seq(T) /\ Len(b) = Len(s) - o /\ \A k \in 1 .. Len(s) - o : b[k] = s[o + k]
  <2>1. PICK m, z : m = o + 1 /\ z = Len(s)
    OBVIOUS
  <2>2. m \in 1 .. Len(s) + 1 /\ z \in m - 1 .. Len(s) /\ z - m + 1 = Len(s) - o /\ m \in Nat
    BY <1>3, <2>1
  <2>3. b = SubSeq(s, m, z)
    BY <1>2, <2>1
  <2>4. b \in Seq(T) /\ Len(b) = z - m + 1 /\ \A k \in 1 .. z - m + 1 : b[k] = s[m + k - 1]
    BY <2>2, <2>3, SubSeqProperties
  <2>5. ASSUME NEW k \in 1 .. Len(s) - o
        PROVE  b[k] = s[o + k]
    <3>1. m + k - 1 = o + k
      BY <1>3, <2>1
    <3>2. b[k] = s[m + k - 1]
      BY <2>2, <2>4
    <3> QED BY <3>1, <3>2
  <2> QED BY <2>2, <2>4, <2>5
<1>6. PICK c : c = a \o <<u>>
  OBVIOUS
<1>7. /\ c \in Seq(T) /\ Len(c) = o + 1 /\ c[o + 1] = u /\ \A k \in 1 .. o : c[k] = s[k]
  <2>1. PICK d : d = <<u>>
    OBVIOUS
  <2>2. d \in Seq(T) /\ Len(d) = 1 /\ d[1] = u
    BY <2>1
  <2>3. /\ c \in Seq(T) /\ Len(c) = Len(a) + Len(d)
        /\ \A k \in 1 .. Len(a) + Len(d) : c[k] = IF k <= Len(a) THEN a[k] ELSE d[k - Len(a)]
    BY <1>4, <1>6, <2>1, <2>2, ConcatProperties
  <2>4. c[o + 1] = d[1]
    BY <1>4, <2>2, <2>3
  <2>5. \A k \in 1 .. o : c[k] = a[k]
    BY <1>4, <2>2, <2>3
  <2> QED BY <1>4, <2>2, <2>3, <2>4, <2>5
<1>8. InsCur(s, o, u) = c \o b
  BY <1>1, <1>2, <1>6 DEF InsCur, InsRange
<1>9. /\ c \o b \in Seq(T) /\ Len(c \o b) = Len(c) + Len(b)
      /\ \A k \in 1 .. Len(c) + Len(b) : (c \o b)[k] = IF k <= Len(c) THEN c[k] ELSE b[k - Len(c)]
  BY <1>5, <1>7, ConcatProperties
<1>10. ASSUME NEW k \in 1 .. Len(s) + 1
       PROVE  (c \o b)[k] = IF k <= o THEN s[k] ELSE IF k = o + 1 THEN u ELSE s[k - 1]
  <2>1. (c \o b)[k] = IF k <= o + 1 THEN c[k] ELSE b[k - (o + 1)]
    BY <1>3, <1>5, <1>7, <1>9
  <2>2. k <= o => c[k] = s[k]
    BY <1>3, <1>7
  <2>3. ~(k <= o + 1) => b[k - (o + 1)] = s[k - 1]
    <3> SUFFICES ASSUME ~(k <= o + 1)
                 PROVE  b[k - (o + 1)] = s[k - 1]
      OBVIOUS
    <3>1. k - (o + 1) \in 1 .. Len(s) - o /\ o + (k - (o + 1)) = k - 1
      BY <1>3
    <3> QED BY <1>5, <3>1
  <2> QED BY <1>7, <2>1, <2>2, <2>3
<1> QED BY <1>3, <1>5, <1>7, <1>8, <1>9, <1>10, SMTT(60) DEF Grown

(* A token that is left stood somewhere, in the same order.                *)
LEMMA ShrunkPlace ==
  ASSUME NEW T, NEW s \in Seq(T), NEW t \in Seq(T), NEW o \in Nat, NEW n \in Nat, o + n <= Len(s),
         Shrunk(s, t, o, n), NEW i \in DOMAIN t
  PROVE  \E k \in DOMAIN s : /\ t[i] = s[k] /\ k = (IF i <= o THEN i ELSE i + n)
<1>1. DOMAIN s = 1 .. Len(s) /\ DOMAIN t = 1 .. Len(t) /\ Len(s) \in Nat /\ Len(t) = Len(s) - n
  BY DEF Shrunk
<1>2. PICK k : k = IF i <= o THEN i ELSE i + n
  OBVIOUS
<1>3. k \in 1 .. Len(s)
  BY <1>1, <1>2
<1>4. t[i] = s[k]
  BY <1>1, <1>2 DEF Shrunk
<1> QED BY <1>1, <1>2, <1>3, <1>4

LEMMA InOrderShrinks ==
  ASSUME NEW T, NEW s \in Seq(T), NEW t \in Seq(T), NEW o \in Nat, NEW n \in Nat, o + n <= Len(s),
         Shrunk(s, t, o, n), InOrder(s)
  PROVE  InOrder(t)
<1> SUFFICES ASSUME NEW i \in DOMAIN t, NEW j \in DOMAIN t, i < j
             PROVE  Before(t[i], t[j])
  BY DEF InOrder
<1>1. PICK k \in DOMAIN s : t[i] = s[k] /\ k = (IF i <= o THEN i ELSE i + n)
  BY ShrunkPlace
<1>2. PICK l \in DOMAIN s : t[j] = s[l] /\ l = (IF j <= o THEN j ELSE j + n)
  BY ShrunkPlace
<1>3. k < l
  BY <1>1, <1>2
<1> QED BY <1>1, <1>2, <1>3 DEF InOrder

LEMMA ToldShrinks ==
  ASSUME NEW inp, NEW T, NEW s \in Seq(T), NEW t \in Seq(T), NEW o \in Nat, NEW n \in Nat, o + n <= Len(s),
         Shrunk(s, t, o, n), Told(inp, s), \A k \in o + 1 .. o + n : s[k].ty # "LPAREN"
  PROVE  Told(inp, t)
<1> SUFFICES ASSUME NEW i \in DOMAIN t, ~Scanned(inp, t[i])
             PROVE  Marks(t, i)
  BY DEF Told
<1>1. DOMAIN s = 1 .. Len(s) /\ DOMAIN t = 1 .. Len(t) /\ Len(s) \in Nat /\ Len(t) = Len(s) - n
  BY DEF Shrunk
<1>2. PICK k \in DOMAIN s : t[i] = s[k] /\ k = (IF i <= o THEN i ELSE i + n)
  BY ShrunkPlace
<1>3. s[k].ty = "NO_WHITESPACE" /\ k + 1 \in DOMAIN s /\ s[k + 1].ty = "LPAREN" /\ s[k + 1].at = s[k].at
  BY <1>2 DEF Told, Marks
<1>4. k \in Nat /\ ~(o + 1 <= k + 1 /\ k + 1 <= o + n)
  BY <1>1, <1>3
<1>5. i + 1 \in 1 .. Len(t) /\ k + 1 = (IF i + 1 <= o THEN i + 1 ELSE i + 1 + n)
  BY <1>1, <1>2, <1>3, <1>4, SMTT(60)
<1>6. t[i + 1] = s[k + 1]
  BY <1>5 DEF Shrunk
<1> QED BY <1>1, <1>2, <1>3, <1>5, <1>6 DEF Marks

(* The tokens that were not deleted are left.                              *)
LEMMA ShrunkKeeps ==
  ASSUME NEW T, NEW s \in Seq(T), NEW t \in Seq(T), NEW o \in Nat, NEW n \in Nat, o + n <= Len(s),
         Shrunk(s, t, o, n), NEW k \in DOMAIN s, ~(o + 1 <= k /\ k <= o + n)
  PROVE  \E i \in DOMAIN t : t[i] = s[k]
<1>1. DOMAIN s = 1 .. Len(s) /\ DOMAIN t = 1 .. Len(t) /\ Len(s) \in Nat /\ Len(t) = Len(s) - n
  BY DEF Shrunk
<1>2. PICK i : i = IF k <= o THEN k ELSE k - n
  OBVIOUS
<1>3. i \in 1 .. Len(t) /\ k = IF i <= o THEN i ELSE i + n
  BY <1>1, <1>2
<1>4. t[i] = s[k]
  BY <1>3 DEF Shrunk
<1> QED BY <1>1, <1>3, <1>4

LEMMA LostMore ==
  ASSUME NEW inp, NEW s, NEW t, \A r \in DOMAIN inp : Lost(inp, s, r) => Lost(inp, t, r),
         NEW p, MayBeLost(inp, s, p)
  PROVE  MayBeLost(inp, t, p)
<1>1. \A x, y : LostFrom(inp, s, x, y) => LostFrom(inp, t, x, y)
  BY DEF LostFrom
<1> QED BY <1>1 DEF MayBeLost

(* It is enough to look at what was deleted.                               *)
LEMMA LossesShrink ==
  ASSUME NEW inp, NEW T, NEW s \in Seq(T), NEW t \in Seq(T), NEW o \in Nat, NEW n \in Nat, o + n <= Len(s),
         Shrunk(s, t, o, n), Losses(inp, s),
         \A k \in o + 1 .. o + n : Scanned(inp, s[k]) => MayBeLost(inp, t, s[k].at)
  PROVE  Losses(inp, t)
<1>1. ASSUME NEW r, Lost(inp, s, r)
      PROVE  Lost(inp, t, r)
  <2> SUFFICES ASSUME NEW i \in DOMAIN t
               PROVE  ~(t[i].at = r /\ t[i].ty = inp[r])
    BY DEF Lost
  <2>1. PICK k \in DOMAIN s : t[i] = s[k] /\ k = (IF i <= o THEN i ELSE i + n)
    BY ShrunkPlace
  <2> QED BY <1>1, <2>1 DEF Lost
<1> SUFFICES ASSUME NEW p \in DOMAIN inp, Lost(inp, t, p)
             PROVE  MayBeLost(inp, t, p)
  BY DEF Losses
<1>2. CASE Lost(inp, s, p)
  <2>1. MayBeLost(inp, s, p)
    BY <1>2 DEF Losses
  <2> QED BY <1>1, <2>1, LostMore
<1>3. CASE ~Lost(inp, s, p)
  <2>1. PICK k \in DOMAIN s : s[k].at = p /\ s[k].ty = inp[p]
    BY <1>3 DEF Lost
  <2>2. ASSUME ~(o + 1 <= k /\ k <= o + n)
        PROVE  FALSE
    <3>1. PICK i \in DOMAIN t : t[i] = s[k]
      BY <2>2, ShrunkKeeps
    <3> QED BY <2>1, <3>1 DEF Lost
  <2>3. k \in o + 1 .. o + n
    <3>1. DOMAIN s = 1 .. Len(s) /\ Len(s) \in Nat
      OBVIOUS
    <3> QED BY <2>2, <3>1
  <2> QED BY <2>1, <2>3 DEF Scanned
<1> QED BY <1>2, <1>3

LEMMA ClampBounds ==
  ASSUME NEW i \in Nat, NEW n \in Nat, i <= n
  PROVE  /\ Clamp(i, n) \in 0 .. n /\ Clamp(i, n) <= i
         /\ i < n => Clamp(i, n) = i
         /\ i = n /\ n > 0 => Clamp(i, n) = i - 1
<1>1. CASE i < n
  BY <1>1 DEF Clamp
<1>2. CASE ~(i < n) /\ n > 0
  <2>1. Clamp(i, n) = n - 1 /\ i = n
    BY <1>2 DEF Clamp
  <2> QED BY <1>2, <2>1
<1>3. CASE ~(i < n) /\ n = 0
  <2>1. Clamp(i, n) = 0 /\ i = n
    BY <1>3 DEF Clamp
  <2> QED BY <1>3, <2>1
<1> QED BY <1>1, <1>2, <1>3

(* What the flags remember, when the token under the cursor is deleted.    *)
LEMMA AfterDelete ==
  ASSUME NEW T, NEW s \in Seq(T), NEW i \in Nat, i < Len(s), NEW t \in Seq(T), Shrunk(s, t, i, 1),
         NEW j, j = Clamp(i, Len(t)), NEW types, After(s, i, types), s[i + 1].ty \notin types
  PROVE  After(t, j, types)
<1>1. DOMAIN s = 1 .. Len(s) /\ DOMAIN t = 1 .. Len(t) /\ Len(s) \in Nat /\ Len(t) \in Nat
  OBVIOUS
<1>2. Len(t) = Len(s) - 1
  BY DEF Shrunk
<1>3. i \in DOMAIN s /\ s[i].ty \in types
  BY DEF After
<1>4. i \in 1 .. Len(t)
  BY ONLY <1>1, <1>2, <1>3, i \in Nat, i < Len(s)
<1>5. t[i] = s[i]
  BY <1>4 DEF Shrunk
<1>6. i <= Len(t) /\ 0 < Len(t) /\ i \in Nat
  BY ONLY <1>1, <1>4, i \in Nat
<1>7. /\ i < Len(t) => Clamp(i, Len(t)) = i
      /\ i = Len(t) /\ Len(t) > 0 => Clamp(i, Len(t)) = i - 1
  BY <1>1, <1>6, ClampBounds
<1>8. CASE i < Len(t)
  <2>1. j = i /\ j \in DOMAIN t
    BY <1>1, <1>4, <1>7, <1>8
  <2> QED BY <1>3, <1>5, <2>1 DEF After
<1>9. CASE i = Len(t)
  <2>1. j = i - 1
    BY <1>6, <1>7, <1>9
  <2>2. j + 1 = i
    BY <1>6, <2>1
  <2> QED BY <1>3, <1>5, <1>9, <2>2 DEF After
<1>10. i < Len(t) \/ i = Len(t)
  <2>1. PICK n \in Nat : n = Len(t)
    BY <1>1
  <2>2. i <= n /\ i \in Nat
    BY <1>6, <2>1
  <2>3. i < n \/ i = n
    BY ONLY <2>2, n \in Nat
  <2> QED BY <2>1, <2>3
<1> QED BY <1>8, <1>9, <1>10

(* A comment or a blank is deleted.                                        *)
LEMMA DeleteSpace ==
  ASSUME NEW inp, NEW T, NEW s \in Seq(T), NEW i \in Nat, i < Len(s), IsSpace(s[i + 1].ty),
         Sifted(s, i), InOrder(s), Told(inp, s), Losses(inp, s),
         NEW t, t = DelCur(s, i), NEW j, j = Clamp(i, Len(t))
  PROVE  /\ t \in Seq(T) /\ j \in 0 .. Len(t) /\ Shrunk(s, t, i, 1)
         /\ Sifted(t, j) /\ InOrder(t) /\ Told(inp, t) /\ Losses(inp, t)
<1>1. Len(s) \in Nat /\ 1 \in Nat /\ i + 1 <= Len(s)
  OBVIOUS
<1>2. t \in Seq(T) /\ Shrunk(s, t, i, 1)
  BY <1>1, DelRangeShrinks DEF DelCur
<1>3. DOMAIN s = 1 .. Len(s) /\ DOMAIN t = 1 .. Len(t) /\ Len(t) \in Nat /\ Len(t) = Len(s) - 1
  BY <1>2 DEF Shrunk
<1>4. j \in 0 .. Len(t) /\ j <= i
  <2>1. i \in 0 .. Len(t)
    BY <1>1, <1>3
  <2> QED BY <1>3, <2>1, ClampBounds
<1>5. Sifted(t, j)
  <2> SUFFICES ASSUME NEW k \in DOMAIN t, k <= j
               PROVE  ~IsSpace(t[k].ty)
    BY DEF Sifted
  <2>1. k \in 1 .. Len(t) /\ k <= i /\ k \in DOMAIN s
    BY <1>3, <1>4
  <2>2. t[k] = s[k]
    BY <1>2, <2>1 DEF Shrunk
  <2> QED BY <2>1, <2>2 DEF Sifted
<1>6. InOrder(t)
  BY <1>1, <1>2, InOrderShrinks
<1>7. Told(inp, t)
  <2>1. \A k \in i + 1 .. i + 1 : s[k].ty # "LPAREN"
    BY DEF IsSpace, IsComment
  <2> QED BY <1>1, <1>2, <2>1, ToldShrinks
<1>8. Losses(inp, t)
  <2>1. \A k \in i + 1 .. i + 1 : Scanned(inp, s[k]) => MayBeLost(inp, t, s[k].at)
    BY DEF Scanned, MayBeLost
  <2> QED BY <1>1, <1>2, <2>1, LossesShrink
<1> QED BY <1>2, <1>4, <1>5, <1>6, <1>7, <1>8

(* A backslash and its newline are deleted.                                *)
LEMMA DeletePair ==
  ASSUME NEW inp \in Seq(Types), NEW s \in Seq(TokensOf(inp)), NEW i \in Nat, i < Len(s),
         s[i + 1].ty = "EOL", After(s, i, {"BSLASH"}),
         Sifted(s, i), InOrder(s), Told(inp, s), Losses(inp, s),
         NEW t, t = DelRange(s, i - 1, 2), NEW j, j = Prev(Clamp(i, Len(t)))
  PROVE  /\ t \in Seq(TokensOf(inp)) /\ j \in 0 .. Len(t)
         /\ Sifted(t, j) /\ InOrder(t) /\ Told(inp, t) /\ Losses(inp, t)
<1>1. DOMAIN s = 1 .. Len(s) /\ Len(s) \in Nat
  OBVIOUS
<1>2. i \in DOMAIN s /\ s[i].ty = "BSLASH"
  BY <1>1 DEF After
<1>3. PICK o \in Nat : o = i - 1 /\ o + 2 <= Len(s) /\ 2 \in Nat /\ i = o + 1 /\ i + 1 = o + 2
  BY <1>1, <1>2
<1>4. t \in Seq(TokensOf(inp)) /\ Shrunk(s, t, o, 2)
  BY <1>3, DelRangeShrinks
<1>5. DOMAIN t = 1 .. Len(t) /\ Len(t) \in Nat /\ Len(t) = Len(s) - 2
  BY <1>4 DEF Shrunk
<1>6. j \in 0 .. Len(t) /\ j <= o
  BY <1>1, <1>3, <1>5 DEF Clamp, Prev
<1>7. Sifted(t, j)
  <2> SUFFICES ASSUME NEW k \in DOMAIN t, k <= j
               PROVE  ~IsSpace(t[k].ty)
    BY DEF Sifted
  <2>1. k \in 1 .. Len(t) /\ k <= o /\ k \in DOMAIN s /\ k <= i
    BY <1>1, <1>3, <1>5, <1>6
  <2>2. t[k] = s[k]
    BY <1>4, <2>1 DEF Shrunk
  <2> QED BY <2>1, <2>2 DEF Sifted
<1>8. InOrder(t)
  BY <1>3, <1>4, InOrderShrinks
<1>9. \A k \in o + 1 .. o + 2 : k = i \/ k = i + 1
  BY <1>3
<1>10. Told(inp, t)
  <2>1. \A k \in o + 1 .. o + 2 : s[k].ty # "LPAREN"
    BY <1>2, <1>9
  <2> QED BY <1>3, <1>4, <2>1, ToldShrinks
<1>11. PICK p, q : p = s[i].at /\ q = s[i + 1].at
  OBVIOUS
<1>12. i + 1 \in DOMAIN s /\ inp[p] = "BSLASH" /\ inp[q] = "EOL"
  BY <1>1, <1>2, <1>11 DEF Told, Scanned, Marks
<1>13. /\ DOMAIN inp = 1 .. Len(inp) /\ Len(inp) \in Nat
       /\ \A k \in DOMAIN s : s[k].at \in DOMAIN inp
  <2>1. \A k \in DOMAIN s : s[k] \in TokensOf(inp)
    BY <1>1
  <2>2. \A k \in DOMAIN s : s[k].at \in DOMAIN inp
    BY <2>1 DEF TokensOf
  <2> QED BY <2>2
<1>14. p \in DOMAIN inp /\ q \in DOMAIN inp /\ p \in Nat /\ q \in Nat
  BY <1>2, <1>11, <1>12, <1>13
<1>15. p < q
  <2>1. Before(s[i], s[i + 1])
    BY <1>2, <1>3, <1>12 DEF InOrder
  <2> QED BY <1>2, <1>11, <2>1 DEF Before
<1>16. LostFrom(inp, t, p, q)
  <2> SUFFICES ASSUME NEW r \in DOMAIN inp, p <= r, r <= q, NEW l \in DOMAIN t,
                      t[l].at = r, t[l].ty = inp[r]
               PROVE  FALSE
    BY DEF LostFrom, Lost
  <2>1. PICK k \in DOMAIN s : t[l] = s[k] /\ k = IF l <= o THEN l ELSE l + 2
    BY <1>3, <1>4, ShrunkPlace
  <2>2. k < i \/ k > i + 1
    BY <1>1, <1>3, <1>5, <2>1
  <2>3. s[k].at = r /\ s[k].ty = inp[r] /\ r \in Nat
    BY <1>13, <2>1
  <2>4. CASE k < i
    <3>1. Before(s[k], s[i])
      BY <1>2, <2>4 DEF InOrder
    <3>2. r < p \/ (inp[r] = "NO_WHITESPACE" /\ r = p)
      BY <1>11, <2>3, <3>1 DEF Before
    <3> QED BY <1>12, <1>14, <2>3, <3>2
  <2>5. CASE k > i + 1
    <3>1. Before(s[i + 1], s[k])
      BY <1>12, <2>5 DEF InOrder
    <3>2. q < r
      BY <1>11, <2>3, <3>1 DEF Before
    <3> QED BY <1>14, <2>3, <3>2
  <2> QED BY <2>2, <2>4, <2>5
<1>17. Losses(inp, t)
  <2>1. MayBeLost(inp, t, p) /\ MayBeLost(inp, t, q)
    BY <1>12, <1>14, <1>15, <1>16 DEF MayBeLost
  <2>2. \A k \in o + 1 .. o + 2 : Scanned(inp, s[k]) => MayBeLost(inp, t, s[k].at)
    BY <1>9, <1>11, <2>1
  <2> QED BY <1>3, <1>4, <2>2, LossesShrink
<1> QED BY <1>4, <1>6, <1>7, <1>8, <1>10, <1>17

(* A parenthesis is marked.                                                *)
LEMMA InsertMark ==
  ASSUME NEW inp \in Seq(Types), NEW s \in Seq(TokensOf(inp)), NEW i \in Nat, i < Len(s),
         s[i + 1].ty = "LPAREN", After(s, i, {"NAME", "EOL", "HASH", "DEFINE"}),
         Sifted(s, i), InOrder(s), Told(inp, s), Losses(inp, s),
         NEW u, u = [ty |-> "NO_WHITESPACE", at |-> s[i + 1].at], NEW t, t = InsCur(s, i, u)
  PROVE  /\ t \in Seq(TokensOf(inp)) /\ i \in 0 .. Len(t)
         /\ Sifted(t, i) /\ InOrder(t) /\ Told(inp, t) /\ Losses(inp, t)
<1>1. DOMAIN s = 1 .. Len(s) /\ Len(s) \in Nat /\ i + 1 \in DOMAIN s /\ i <= Len(s)
  OBVIOUS
<1>2. u \in TokensOf(inp)
  <2>1. s[i + 1] \in TokensOf(inp)
    BY <1>1
  <2> QED BY <2>1 DEF TokensOf, Types
<1>3. t \in Seq(TokensOf(inp)) /\ Grown(s, t, i, u)
  BY <1>1, <1>2, InsRangeGrows
<1>4. DOMAIN t = 1 .. Len(t) /\ Len(t) \in Nat /\ Len(t) = Len(s) + 1 /\ i \in 0 .. Len(t)
  BY <1>1, <1>3 DEF Grown
<1>5. PICK a : a = s[i + 1].at
  OBVIOUS
<1>6. inp[a] = "LPAREN"
  BY <1>1, <1>5 DEF Told, Scanned, Marks
<1>7. \A k \in DOMAIN s : s[k].at \in Nat
  <2>1. DOMAIN inp = 1 .. Len(inp) /\ Len(inp) \in Nat
    OBVIOUS
  <2>2. \A k \in DOMAIN s : s[k] \in TokensOf(inp)
    BY <1>1
  <2>3. \A k \in DOMAIN s : s[k].at \in DOMAIN inp
    BY <2>2 DEF TokensOf
  <2> QED BY <2>1, <2>3
<1>8. ASSUME NEW k \in DOMAIN t
      PROVE  \/ k <= i /\ k \in DOMAIN s /\ t[k] = s[k]
             \/ k = i + 1 /\ t[k] = u
             \/ k > i + 1 /\ k - 1 \in DOMAIN s /\ t[k] = s[k - 1]
  <2>1. t[k] = IF k <= i THEN s[k] ELSE IF k = i + 1 THEN u ELSE s[k - 1]
    BY <1>3, <1>4 DEF Grown
  <2> QED BY <1>1, <1>4, <2>1
<1>9. Sifted(t, i)
  <2> SUFFICES ASSUME NEW k \in DOMAIN t, k <= i
               PROVE  ~IsSpace(t[k].ty)
    BY DEF Sifted
  <2>1. k \in DOMAIN s /\ t[k] = s[k]
    BY <1>4, <1>8
  <2> QED BY <2>1 DEF Sifted
<1>10. InOrder(t)
  <2> SUFFICES ASSUME NEW k \in DOMAIN t, NEW l \in DOMAIN t, k < l
               PROVE  Before(t[k], t[l])
    BY DEF InOrder
  <2>1. k \in Nat /\ l \in Nat
    BY <1>4
  <2>2. CASE l = i + 1
    <3>1. k \in DOMAIN s /\ t[k] = s[k] /\ t[l] = u /\ k < i + 1
      BY <1>8, <2>1, <2>2
    <3>2. Before(s[k], s[i + 1])
      BY <1>1, <3>1 DEF InOrder
    <3> QED BY <3>1, <3>2 DEF Before
  <2>3. CASE k = i + 1
    <3>1. t[k] = u /\ l > i + 1 /\ l - 1 \in DOMAIN s /\ t[l] = s[l - 1]
      BY <1>8, <2>1, <2>3
    <3>2. CASE l - 1 = i + 1
      BY <3>1, <3>2 DEF Before
    <3>3. CASE l - 1 # i + 1
      <4>1. i + 1 < l - 1
        BY <2>1, <3>1, <3>3
      <4>2. Before(s[i + 1], s[l - 1])
        BY <1>1, <3>1, <4>1 DEF InOrder
      <4>3. s[i + 1].at < s[l - 1].at
        BY <4>2 DEF Before
      <4> QED BY <3>1, <4>3 DEF Before
    <3> QED BY <3>2, <3>3
  <2>4. CASE k # i + 1 /\ l # i + 1
    <3>1. PICK m, n : /\ m = (IF k <= i THEN k ELSE k - 1) /\ n = (IF l <= i THEN l ELSE l - 1)
      OBVIOUS
    <3>2. m \in DOMAIN s /\ n \in DOMAIN s /\ t[k] = s[m] /\ t[l] = s[n] /\ m < n
      BY <1>8, <2>1, <2>4, <3>1
    <3> QED BY <3>2 DEF InOrder
  <2> QED BY <2>2, <2>3, <2>4
<1>11. Told(inp, t)
  <2> SUFFICES ASSUME NEW k \in DOMAIN t, ~Scanned(inp, t[k])
               PROVE  Marks(t, k)
    BY DEF Told
  <2>1. k \in Nat
    BY <1>4
  <2>2. CASE k <= i
    <3>1. k \in DOMAIN s /\ t[k] = s[k]
      BY <1>8, <2>1, <2>2
    <3>2. s[k].ty = "NO_WHITESPACE" /\ k + 1 \in DOMAIN s /\ s[k + 1].ty = "LPAREN" /\ s[k + 1].at = s[k].at
      BY <3>1 DEF Told, Marks
    <3>3. k # i
      BY <1>1, <3>2 DEF After
    <3>4. k + 1 \in DOMAIN t /\ k + 1 <= i
      BY <1>1, <1>4, <2>1, <2>2, <3>3
    <3>5. t[k + 1] = s[k + 1]
      BY <1>8, <2>1, <3>4
    <3> QED BY <3>1, <3>2, <3>4, <3>5 DEF Marks
  <2>3. CASE k = i + 1
    <3>1. k + 1 \in DOMAIN t /\ k + 1 > i + 1 /\ (k + 1) - 1 = i + 1
      BY <1>1, <1>4, <2>3
    <3>2. t[k] = u /\ t[k + 1] = s[i + 1]
      BY <1>8, <2>1, <2>3, <3>1
    <3> QED BY <3>1, <3>2 DEF Marks
  <2>4. CASE k > i + 1
    <3>1. k - 1 \in DOMAIN s /\ t[k] = s[k - 1]
      BY <1>8, <2>1, <2>4
    <3>2. PICK m : m = k - 1
      OBVIOUS
    <3>3. s[m].ty = "NO_WHITESPACE" /\ m + 1 \in DOMAIN s /\ s[m + 1].ty = "LPAREN" /\ s[m + 1].at = s[m].at
      BY <3>1, <3>2 DEF Told, Marks
    <3>4. m + 1 = k /\ k + 1 \in DOMAIN t /\ k + 1 > i + 1 /\ (k + 1) - 1 = k
      BY <1>1, <1>4, <2>1, <2>4, <3>2, <3>3
    <3>5. t[k + 1] = s[k]
      BY <1>8, <2>1, <3>4
    <3> QED BY <3>1, <3>2, <3>3, <3>4, <3>5 DEF Marks
  <2> QED BY <2>1, <2>2, <2>3, <2>4
<1>12. ASSUME NEW r, Lost(inp, s, r)
       PROVE  Lost(inp, t, r)
  <2> SUFFICES ASSUME NEW k \in DOMAIN t, t[k].at = r, t[k].ty = inp[r]
               PROVE  FALSE
    BY DEF Lost
  <2>1. t[k] # u
    BY <1>5, <1>6
  <2>2. \E l \in DOMAIN s : t[k] = s[l]
    BY <1>8, <2>1
  <2> QED BY <1>12, <2>2 DEF Lost
<1>13. ASSUME NEW r, Lost(inp, t, r)
       PROVE  Lost(inp, s, r)
  <2> SUFFICES ASSUME NEW k \in DOMAIN s, s[k].at = r, s[k].ty = inp[r]
               PROVE  FALSE
    BY DEF Lost
  <2>1. PICK l : l = IF k <= i THEN k ELSE k + 1
    OBVIOUS
  <2>2. l \in DOMAIN t /\ l # i + 1 /\ k = IF l <= i THEN l ELSE l - 1
    BY <1>1, <1>4, <2>1
  <2>3. t[l] = s[k]
    BY <1>1, <1>8, <2>2
  <2> QED BY <1>13, <2>2, <2>3 DEF Lost
<1>14. Losses(inp, t)
  <2> SUFFICES ASSUME NEW p \in DOMAIN inp, Lost(inp, t, p)
               PROVE  MayBeLost(inp, t, p)
    BY DEF Losses
  <2>1. MayBeLost(inp, s, p)
    BY <1>13 DEF Losses
  <2> QED BY <1>12, <2>1, LostMore
<1> QED BY <1>3, <1>4, <1>9, <1>10, <1>11, <1>14

-----------------------------------------------------------------------------

IInv ==
  /\ Typed
  /\ Remembers(toks, index, flags)
  /\ Sifted(toks, index)
  /\ InOrder(toks) /\ Told(input, toks) /\ Losses(input, toks)

LEMMA InitIInv == Init => IInv
<1> SUFFICES ASSUME Init
             PROVE  IInv
  OBVIOUS
<1>1. PICK inp : inp = input
  OBVIOUS
<1>2. PICK s : s = toks
  OBVIOUS
<1>3. inp \in Seq(Types) /\ DOMAIN inp = 1 .. Len(inp) /\ Len(inp) \in Nat
  BY <1>1, InputsAssumption DEF Init
<1>4. s = [p \in DOMAIN inp |-> [ty |-> inp[p], at |-> p]]
  BY <1>1, <1>2 DEF Init
<1>5. ASSUME NEW p \in DOMAIN inp
      PROVE  s[p] \in TokensOf(inp) /\ s[p].ty = inp[p] /\ s[p].at = p
  <2>1. inp[p] \in Types
    BY <1>3
  <2>2. s[p] = [ty |-> inp[p], at |-> p]
    BY <1>4
  <2> QED BY <2>1, <2>2 DEF TokensOf
<1>6. DOMAIN s = DOMAIN inp
  BY <1>4
<1>7. s \in Seq(TokensOf(inp)) /\ Len(s) \in Nat
  <2>1. s \in [1 .. Len(inp) -> TokensOf(inp)]
    BY <1>3, <1>4, <1>5
  <2>2. s \in Seq(TokensOf(inp))
    BY <1>3, <2>1, SeqDef
  <2> QED BY <2>2, LenProperties
<1>8. flags = InitialFlags /\ index = 0
  BY DEF Init
<1>9. Typed
  <2>1. flags \in Flags
    BY <1>8 DEF InitialFlags, Flags
  <2> QED BY <1>1, <1>2, <1>3, <1>7, <1>8, <2>1 DEF Typed
<1>10. Remembers(toks, index, flags)
  BY <1>8 DEF Remembers, InitialFlags
<1>11. Sifted(s, 0)
  BY <1>3, <1>6 DEF Sifted
<1>12. InOrder(s)
  BY <1>5, <1>6 DEF InOrder, Before
<1>13. Told(inp, s)
  BY <1>5, <1>6 DEF Told, Scanned
<1>14. Losses(inp, s)
  BY <1>5, <1>6 DEF Losses, Lost
<1> QED BY <1>1, <1>2, <1>8, <1>9, <1>10, <1>11, <1>12, <1>13, <1>14 DEF IInv

(* What an iteration begins with.                                          *)
LEMMA Facts ==
  ASSUME IInv, ~Done
  PROVE  /\ input \in Seq(Types) /\ toks \in Seq(TokensOf(input)) /\ flags \in Flags
         /\ index \in Nat /\ index < Len(toks) /\ Ty = toks[index + 1].ty
         /\ Current(toks, index) = toks[index + 1]
<1>1. Len(toks) \in Nat
  BY DEF IInv, Typed
<1> QED BY <1>1 DEF IInv, Typed, Done, Valid, Ty, Current

LEMMA StripStep ==
  ASSUME IInv, ~Done, Strip
  PROVE  IInv'
<1>1. PICK inp, s, t, i, j, f : /\ inp = input /\ s = toks /\ t = toks' /\ i = index /\ j = index'
                                /\ f = flags
  OBVIOUS
<1>2. /\ inp \in Seq(Types) /\ s \in Seq(TokensOf(inp)) /\ f \in Flags /\ i \in Nat /\ i < Len(s)
      /\ Ty = s[i + 1].ty
  BY <1>1, Facts
<1>3. /\ Remembers(s, i, f) /\ Sifted(s, i) /\ InOrder(s) /\ Told(inp, s) /\ Losses(inp, s)
  BY <1>1 DEF IInv
<1>4. t = DelCur(s, i) /\ j = Clamp(i, Len(t)) /\ IsComment(s[i + 1].ty) /\ input' = inp /\ flags' = f
  BY <1>1, <1>2 DEF Strip
<1>5. /\ t \in Seq(TokensOf(inp)) /\ j \in 0 .. Len(t) /\ Shrunk(s, t, i, 1)
      /\ Sifted(t, j) /\ InOrder(t) /\ Told(inp, t) /\ Losses(inp, t)
  <2>1. IsSpace(s[i + 1].ty)
    BY <1>4 DEF IsSpace
  <2> QED BY <1>2, <1>3, <1>4, <2>1, DeleteSpace
<1>6. Remembers(t, j, f)
  <2>1. s[i + 1].ty \notin {"BSLASH"} /\ s[i + 1].ty \notin {"NAME", "EOL", "HASH", "DEFINE"}
    BY <1>4 DEF IsComment
  <2>2. \A types : After(s, i, types) /\ s[i + 1].ty \notin types => After(t, j, types)
    BY <1>2, <1>4, <1>5, AfterDelete
  <2>3. After(s, i, {"BSLASH"}) => After(t, j, {"BSLASH"})
    BY <2>1, <2>2
  <2>4. After(s, i, {"NAME", "EOL", "HASH", "DEFINE"}) => After(t, j, {"NAME", "EOL", "HASH", "DEFINE"})
    BY <2>1, <2>2
  <2> QED BY <1>3, <2>3, <2>4 DEF Remembers
<1> QED BY <1>1, <1>2, <1>4, <1>5, <1>6 DEF IInv, Typed

LEMMA BlankStep ==
  ASSUME IInv, ~Done, Blank
  PROVE  IInv'
<1>1. PICK inp, s, t, i, j, f : /\ inp = input /\ s = toks /\ t = toks' /\ i = index /\ j = index'
                                /\ f = flags'
  OBVIOUS
<1>2. /\ inp \in Seq(Types) /\ s \in Seq(TokensOf(inp)) /\ i \in Nat /\ i < Len(s)
      /\ Ty = s[i + 1].ty
  BY <1>1, Facts
<1>3. /\ Sifted(s, i) /\ InOrder(s) /\ Told(inp, s) /\ Losses(inp, s)
  BY <1>1 DEF IInv
<1>4. t = DelCur(s, i) /\ j = Clamp(i, Len(t)) /\ s[i + 1].ty = "WHITESPACE" /\ input' = inp
  BY <1>1, <1>2 DEF Blank
<1>5. /\ t \in Seq(TokensOf(inp)) /\ j \in 0 .. Len(t) /\ Shrunk(s, t, i, 1)
      /\ Sifted(t, j) /\ InOrder(t) /\ Told(inp, t) /\ Losses(inp, t)
  <2>1. IsSpace(s[i + 1].ty)
    BY <1>4 DEF IsSpace
  <2> QED BY <1>2, <1>3, <1>4, <2>1, DeleteSpace
<1>6. f \in Flags /\ ~f.esc /\ ~f.name
  <2>1. Ty = "WHITESPACE"
    BY DEF Blank
  <2>2. Esc(Ty) = FALSE
    BY <2>1, Zenon DEF Esc
  <2>3. f = [flags EXCEPT !.esc = FALSE, !.name = FALSE, !.ws = TRUE]
    BY <1>1, <2>2 DEF Blank
  <2> QED BY <2>3, Facts DEF Flags
<1>7. Remembers(t, j, f)
  BY <1>6 DEF Remembers
<1> QED BY <1>1, <1>2, <1>4, <1>5, <1>6, <1>7 DEF IInv, Typed

LEMMA SpliceStep ==
  ASSUME IInv, ~Done, Splice
  PROVE  IInv'
<1>1. PICK inp, s, t, i, j, f : /\ inp = input /\ s = toks /\ t = toks' /\ i = index /\ j = index'
                                /\ f = flags'
  OBVIOUS
<1>2. /\ inp \in Seq(Types) /\ s \in Seq(TokensOf(inp)) /\ i \in Nat /\ i < Len(s)
      /\ Ty = s[i + 1].ty /\ flags \in Flags
  BY <1>1, Facts
<1>3. /\ Sifted(s, i) /\ InOrder(s) /\ Told(inp, s) /\ Losses(inp, s)
  BY <1>1 DEF IInv
<1>4. /\ t = DelRange(s, i - 1, 2) /\ j = Prev(Clamp(i, Len(t))) /\ s[i + 1].ty = "EOL" /\ input' = inp
      /\ f = [flags EXCEPT !.esc = FALSE]
  BY <1>1, <1>2 DEF Splice
<1>5. After(s, i, {"BSLASH"}) /\ ~flags.name
  BY <1>1 DEF IInv, Remembers, Splice
<1>6. /\ t \in Seq(TokensOf(inp)) /\ j \in 0 .. Len(t)
      /\ Sifted(t, j) /\ InOrder(t) /\ Told(inp, t) /\ Losses(inp, t)
  BY <1>2, <1>3, <1>4, <1>5, DeletePair
<1>7. f \in Flags /\ ~f.esc /\ ~f.name
  BY <1>2, <1>4, <1>5 DEF Flags
<1>8. Remembers(t, j, f)
  BY <1>7 DEF Remembers
<1> QED BY <1>1, <1>2, <1>4, <1>6, <1>7, <1>8 DEF IInv, Typed

LEMMA MarkStep ==
  ASSUME IInv, ~Done, Mark
  PROVE  IInv'
<1>1. PICK inp, s, t, i, f : /\ inp = input /\ s = toks /\ t = toks' /\ i = index
                             /\ f = flags'
  OBVIOUS
<1>2. /\ inp \in Seq(Types) /\ s \in Seq(TokensOf(inp)) /\ i \in Nat /\ i < Len(s)
      /\ Ty = s[i + 1].ty /\ flags \in Flags /\ Current(toks, index) = s[i + 1]
  BY <1>1, Facts
<1>3. /\ Sifted(s, i) /\ InOrder(s) /\ Told(inp, s) /\ Losses(inp, s)
  BY <1>1 DEF IInv
<1>4. PICK u : u = [ty |-> "NO_WHITESPACE", at |-> s[i + 1].at]
  OBVIOUS
<1>5. /\ t = InsCur(s, i, u) /\ s[i + 1].ty = "LPAREN" /\ input' = inp /\ index' = i /\ flags.name
  BY <1>1, <1>2, <1>4 DEF Mark, MarksParen
<1>6. After(s, i, {"NAME", "EOL", "HASH", "DEFINE"})
  BY <1>1, <1>5 DEF IInv, Remembers
<1>7. /\ t \in Seq(TokensOf(inp)) /\ i \in 0 .. Len(t)
      /\ Sifted(t, i) /\ InOrder(t) /\ Told(inp, t) /\ Losses(inp, t)
  BY <1>2, <1>3, <1>4, <1>5, <1>6, InsertMark
<1>8. f \in Flags /\ ~f.esc /\ ~f.name
  <2>1. Ty = "LPAREN"
    BY DEF Mark, MarksParen
  <2>2. Esc(Ty) = FALSE
    BY <2>1, Zenon DEF Esc
  <2>3. f = [flags EXCEPT !.esc = FALSE, !.name = FALSE]
    BY <1>1, <2>2 DEF Mark
  <2> QED BY <1>2, <2>3 DEF Flags
<1>9. Remembers(t, i, f)
  BY <1>8 DEF Remembers
<1> QED BY <1>1, <1>2, <1>5, <1>7, <1>8, <1>9 DEF IInv, Typed

(* What is left of the flags, by the token that is walked over.            *)
LEMMA WalkedFlags ==
  ASSUME flags \in Flags, ~(Ty = "EOL" /\ flags.esc)
  PROVE  /\ Walked \in Flags
         /\ Walked.esc => Ty = "BSLASH" /\ ~Walked.name
         /\ Walked.name => Ty \in {"NAME", "EOL", "HASH", "DEFINE"}
<1>1. PICK e : e = Esc(Ty)
  OBVIOUS
<1>2. e \in BOOLEAN /\ (e => Ty = "BSLASH")
  <2>1. CASE Ty = "BSLASH"
    BY <1>1, <2>1, Zenon DEF Esc, Flags
  <2>2. CASE Ty # "BSLASH" /\ Ty = "EOL"
    <3>1. e = flags.esc
      BY <1>1, <2>2, Zenon DEF Esc
    <3> QED BY <2>2, <3>1 DEF Flags
  <2>3. CASE Ty # "BSLASH" /\ Ty # "EOL"
    BY <1>1, <2>3, Zenon DEF Esc
  <2> QED BY <2>1, <2>2, <2>3
<1>3. PICK f : f = [flags EXCEPT !.esc = e, !.ws = FALSE]
  OBVIOUS
<1>4. f \in Flags /\ f.esc = e
  BY <1>2, <1>3 DEF Flags
<1>5. CASE Ty = "EOL"
  <2>1. Walked = [f EXCEPT !.eol = TRUE]
    BY <1>1, <1>3, <1>5, Zenon DEF Walked
  <2> QED BY <1>2, <1>4, <1>5, <2>1 DEF Flags
<1>6. CASE Ty = "HASH"
  <2>1. Walked = IF f.eol THEN [f EXCEPT !.hash = TRUE, !.eol = FALSE] ELSE f
    BY <1>1, <1>3, <1>6, Zenon DEF Walked
  <2> QED BY <1>2, <1>4, <1>6, <2>1 DEF Flags
<1>7. CASE Ty = "DEFINE"
  <2>1. Walked = IF f.hash THEN [f EXCEPT !.define = TRUE, !.hash = FALSE] ELSE f
    BY <1>1, <1>3, <1>7, Zenon DEF Walked
  <2> QED BY <1>2, <1>4, <1>7, <2>1 DEF Flags
<1>8. CASE Ty = "NAME"
  <2>1. Walked = IF f.define THEN [f EXCEPT !.name = TRUE, !.define = FALSE] ELSE f
    BY <1>1, <1>3, <1>8, Zenon DEF Walked
  <2> QED BY <1>2, <1>4, <1>8, <2>1 DEF Flags
<1>9. CASE Ty \notin {"EOL", "HASH", "DEFINE", "NAME"}
  <2>1. Walked = [f EXCEPT !.name = FALSE, !.define = FALSE, !.hash = FALSE, !.eol = FALSE]
    BY <1>1, <1>3, <1>9, Zenon DEF Walked
  <2> QED BY <1>2, <1>4, <1>9, <2>1 DEF Flags
<1> QED BY <1>5, <1>6, <1>7, <1>8, <1>9

LEMMA WalkStep ==
  ASSUME IInv, ~Done, Walk
  PROVE  IInv'
<1>1. PICK inp, s, i, f : /\ inp = input /\ s = toks /\ i = index /\ f = Walked
  OBVIOUS
<1>2. /\ inp \in Seq(Types) /\ s \in Seq(TokensOf(inp)) /\ i \in Nat /\ i < Len(s)
      /\ Ty = s[i + 1].ty /\ flags \in Flags /\ Len(s) \in Nat /\ DOMAIN s = 1 .. Len(s)
  BY <1>1, Facts
<1>3. /\ Sifted(s, i) /\ InOrder(s) /\ Told(inp, s) /\ Losses(inp, s)
  BY <1>1 DEF IInv
<1>4. input' = inp /\ toks' = s /\ index' = i + 1 /\ flags' = f /\ ~IsSpace(s[i + 1].ty)
  BY <1>1, <1>2 DEF Walk, IsSpace
<1>5. /\ f \in Flags /\ (f.esc => s[i + 1].ty = "BSLASH" /\ ~f.name)
      /\ (f.name => s[i + 1].ty \in {"NAME", "EOL", "HASH", "DEFINE"})
  <2>1. ~(Ty = "EOL" /\ flags.esc)
    BY DEF Walk
  <2> QED BY <1>1, <1>2, <2>1, WalkedFlags
<1>6. i + 1 \in DOMAIN s /\ i + 1 \in 0 .. Len(s)
  BY <1>2
<1>7. Remembers(s, i + 1, f)
  BY <1>5, <1>6 DEF Remembers, After
<1>8. Sifted(s, i + 1)
  <2>1. \A k \in DOMAIN s : k <= i + 1 => k <= i \/ k = i + 1
    BY <1>2
  <2> QED BY <1>3, <1>4, <2>1 DEF Sifted
<1> QED BY <1>2, <1>3, <1>4, <1>5, <1>6, <1>7, <1>8 DEF IInv, Typed

LEMMA StepIInv == IInv /\ [Next]_vars => IInv'
<1> SUFFICES ASSUME IInv, [Next]_vars
             PROVE  IInv'
  OBVIOUS
<1>1. CASE Next
  BY <1>1, StripStep, SpliceStep, BlankStep, MarkStep, WalkStep DEF Next
<1>2. CASE UNCHANGED vars
  BY <1>2 DEF vars, IInv, Typed
<1> QED BY <1>1, <1>2

LEMMA Invariance == Spec => []IInv
<1> QED BY InitIInv, StepIInv, PTL DEF Spec

-----------------------------------------------------------------------------

(* For every set of texts the cursor stays in the list, and every token is *)
(* of the text, or a mark at a place of it (cpp.c:98, cpp_tokiter.c).      *)
THEOREM TypeCorrect == Spec => []TypeOK
<1>1. IInv => TypeOK
  <2> SUFFICES ASSUME IInv
               PROVE  TypeOK
    OBVIOUS
  <2>1. /\ index \in 0 .. Len(toks) /\ flags \in Flags
        /\ \A i \in DOMAIN toks : toks[i] \in TokensOf(input)
    BY DEF IInv, Typed
  <2>2. \A i \in DOMAIN toks : toks[i].ty \in Types /\ toks[i].at \in DOMAIN input
    BY <2>1 DEF TokensOf
  <2>3. flags \in [DOMAIN InitialFlags -> BOOLEAN]
    BY <2>1 DEF InitialFlags, Flags
  <2> QED BY <2>1, <2>2, <2>3 DEF TypeOK
<1> QED BY <1>1, Invariance, PTL

(* The list is the text without some of its space, and without any at last.*)
LosesOnlySpace ==
  /\ InOrder(toks) /\ Losses(input, toks)
  /\ Done => \A i \in DOMAIN toks : ~IsSpace(toks[i].ty)

(* Nothing is lost but comments, blanks, and backslashes with newlines,    *)
(* each from another with nothing left in between, and none of the         *)
(* comments and blanks is left at the end, wherever deleting at the end of *)
(* the list puts the cursor back (cpp.c:108, cpp.c:115, cpp.c:134).        *)
THEOREM SpaceLost == Spec => []LosesOnlySpace
<1>1. IInv => LosesOnlySpace
  <2> SUFFICES ASSUME IInv, Done, NEW i \in DOMAIN toks
               PROVE  ~IsSpace(toks[i].ty)
    BY DEF LosesOnlySpace, IInv
  <2>1. index = Len(toks) /\ i <= index
    BY DEF IInv, Typed, Done, Valid
  <2> QED BY <2>1 DEF IInv, Sifted
<1> QED BY <1>1, Invariance, PTL

(* A token was scanned or is the one mark of a parenthesis.                *)
MarksOnce ==
  /\ Told(input, toks)
  /\ \A i, j \in DOMAIN toks : Marks(toks, i) /\ Marks(toks, j) /\ toks[i].at = toks[j].at => i = j

(* A parenthesis is marked once at most, although the cursor goes back     *)
(* over tokens it has seen, and the mark stands directly in front of it:   *)
(* what else is in the list was scanned (cpp.c:174).                       *)
THEOREM MarksStand == Spec => []MarksOnce
<1>1. IInv => MarksOnce
  <2> SUFFICES ASSUME IInv
               PROVE  MarksOnce
    OBVIOUS
  <2>1. PICK s : s = toks
    OBVIOUS
  <2>2. DOMAIN s = 1 .. Len(s) /\ Len(s) \in Nat /\ \A i \in DOMAIN s : s[i].at \in Nat
    <3>1. /\ s \in Seq(TokensOf(input)) /\ input \in Seq(Types)
          /\ DOMAIN input = 1 .. Len(input) /\ Len(input) \in Nat
      BY <2>1 DEF IInv, Typed
    <3>2. \A i \in DOMAIN s : s[i] \in TokensOf(input)
      BY <3>1
    <3>3. \A i \in DOMAIN s : s[i].at \in DOMAIN input
      BY <3>2 DEF TokensOf
    <3> QED BY <3>1, <3>3
  <2>3. ASSUME NEW i \in DOMAIN s, NEW j \in DOMAIN s, i < j, Marks(s, i), Marks(s, j),
               s[i].at = s[j].at
        PROVE  FALSE
    <3>1. i + 1 \in DOMAIN s /\ s[i + 1].ty = "LPAREN" /\ s[i + 1].at = s[i].at
      BY <2>3 DEF Marks
    <3>2. s[j].ty # "LPAREN"
      BY <2>3 DEF Marks
    <3>3. i + 1 < j
      BY <2>2, <2>3, <3>1, <3>2
    <3>4. Before(s[i + 1], s[j])
      BY <2>1, <3>1, <3>3 DEF IInv, InOrder
    <3> QED BY <2>2, <2>3, <3>1, <3>4 DEF Before
  <2>4. \A i \in DOMAIN s : \A j \in DOMAIN s : Marks(s, i) /\ Marks(s, j) /\ s[i].at = s[j].at => i = j
    BY <2>2, <2>3
  <2> QED BY <2>1, <2>4 DEF MarksOnce, IInv
<1> QED BY <1>1, Invariance, PTL

=============================================================================
