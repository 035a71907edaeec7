-------------------------- MODULE HttpConnProofs ---------------------------
(***************************************************************************)
(* Proof that a client which waits for its replies is answered as it       *)
(* asked, for requests of any length, bodies of any length and any size of *)
(* the buffer.                                                             *)
(***************************************************************************)
EXTENDS HttpConn, SequenceTheorems, WellFoundedInduction, TLAPS

-----------------------------------------------------------------------------
(* What the stream is made of.                                             *)

Kinds == {"start", "other", "keep-alive", "auth", "length", "blank", "body", "nul"}
Marks == [kind : Kinds, of : Requests]

LEMMA RequestType ==
  ASSUME NEW r \in Requests
  PROVE  /\ r.post \in BOOLEAN /\ r.keep \in BOOLEAN /\ r.auth \in BOOLEAN
         /\ r.url \in {"root", "page", "login", "hello"}
         /\ r.other \in Nat /\ r.body \in Nat
         /\ \A k \in Kinds : Mark(k, r) \in Marks
BY HttpAssumption DEF Mark, Marks

\* The least number of a set that has one.
LEMMA MinFacts ==
  ASSUME NEW S \in SUBSET Nat, S # {}
  PROVE  Min(S) \in S /\ \A y \in S : Min(S) <= y
<1>1. IsWellFoundedOn(OpToRel(<, Nat), Nat)
  BY NatLessThanWellFounded
<1>2. PICK x \in S : \A y \in S : ~(<<y, x>> \in OpToRel(<, Nat))
  BY <1>1, WFMin
<1>3. \A y \in S : y < x => <<y, x>> \in OpToRel(<, Nat)
  BY DEF OpToRel
<1>4. \A y \in S : ~(y < x)
  BY <1>2, <1>3
<1>5. \A y \in S : x <= y
  BY <1>4
<1>. QED
  BY <1>5 DEF Min

LEMMA MinOfTwo ==
  ASSUME NEW a \in Int, NEW b \in Int
  PROVE  Min({a, b}) = IF a <= b THEN a ELSE b
BY DEF Min

\* A part of a sequence.
LEMMA PartOf ==
  ASSUME NEW S, NEW s \in Seq(S), NEW m \in Int, NEW n \in Int, 1 <= m, n <= Len(s)
  PROVE  /\ SubSeq(s, m, n) \in Seq(S)
         /\ Len(SubSeq(s, m, n)) = IF m <= n THEN (n - m) + 1 ELSE 0
         /\ \A i \in 1 .. ((n - m) + 1) : SubSeq(s, m, n)[i] = s[(m + i) - 1]
<1>1. Len(s) \in Nat /\ DOMAIN s = 1 .. Len(s)
  BY LenProperties
<1>2. \A i \in m .. n : s[i] \in S
  BY <1>1, ElementOfSeq
<1>. QED
  BY <1>2, SubSeqProperties

\* The first n elements, and the others.
LEMMA FrontOf ==
  ASSUME NEW S, NEW s \in Seq(S), NEW n \in Nat, n <= Len(s)
  PROVE  LET t == SubSeq(s, 1, n) IN
         t \in Seq(S) /\ Len(t) = n /\ \A i \in 1 .. n : t[i] = s[i]
<1>. DEFINE t == SubSeq(s, 1, n)
<1>1. Len(s) \in Nat
  BY LenProperties
<1>2. /\ t \in Seq(S) /\ Len(t) = (IF 1 <= n THEN (n - 1) + 1 ELSE 0)
      /\ \A i \in 1 .. ((n - 1) + 1) : t[i] = s[(1 + i) - 1]
  BY <1>1, PartOf
<1>. HIDE DEF t
<1>3. (n - 1) + 1 = n /\ \A i \in 1 .. n : (1 + i) - 1 = i
  OBVIOUS
<1>4. Len(t) = n
  BY <1>2
<1>. QED
  BY <1>2, <1>3, <1>4 DEF t

LEMMA RestOf ==
  ASSUME NEW S, NEW s \in Seq(S), NEW n \in Nat, n <= Len(s)
  PROVE  LET t == SubSeq(s, n + 1, Len(s)) IN
         /\ t \in Seq(S) /\ Len(t) = Len(s) - n
         /\ \A i \in 1 .. (Len(s) - n) : t[i] = s[n + i]
<1>. DEFINE t == SubSeq(s, n + 1, Len(s))
<1>1. Len(s) \in Nat /\ n + 1 \in Int /\ 1 <= n + 1 /\ Len(s) <= Len(s)
  BY LenProperties
<1>2. /\ t \in Seq(S)
      /\ Len(t) = (IF n + 1 <= Len(s) THEN (Len(s) - (n + 1)) + 1 ELSE 0)
      /\ \A i \in 1 .. ((Len(s) - (n + 1)) + 1) : t[i] = s[((n + 1) + i) - 1]
  BY <1>1, PartOf
<1>. HIDE DEF t
<1>3. /\ (Len(s) - (n + 1)) + 1 = Len(s) - n
      /\ \A i \in 1 .. (Len(s) - n) : ((n + 1) + i) - 1 = n + i
  BY <1>1
<1>4. Len(t) = Len(s) - n
  BY <1>1, <1>2
<1>. QED
  BY <1>2, <1>3, <1>4 DEF t

\* n marks of one kind.
LEMMA TimesFacts ==
  ASSUME NEW r \in Requests, NEW n \in Nat, NEW k \in Kinds
  PROVE  /\ Times(n, k, r) \in Seq(Marks) /\ Len(Times(n, k, r)) = n
         /\ \A i \in 1 .. n : Times(n, k, r)[i] = Mark(k, r)
<1>1. Mark(k, r) \in Marks
  BY RequestType
<1>2. Times(n, k, r) \in [1 .. n -> Marks]
  BY <1>1 DEF Times
<1>. QED
  BY <1>2 DEF Times

\* A sequence s of marks that is followed by n of one kind.
LEMMA Followed ==
  ASSUME NEW r \in Requests, NEW n \in Nat, NEW k \in Kinds, NEW s \in Seq(Marks)
  PROVE  LET t == s \o Times(n, k, r) IN
         /\ t \in Seq(Marks) /\ Len(t) = Len(s) + n
         /\ \A i \in 1 .. Len(s) : t[i] = s[i]
         /\ \A i \in (Len(s) + 1) .. (Len(s) + n) : t[i] = Mark(k, r)
<1>. DEFINE u == Times(n, k, r)
            t == s \o u
<1>1. u \in Seq(Marks) /\ Len(u) = n /\ \A i \in 1 .. n : u[i] = Mark(k, r)
  BY TimesFacts
<1>2. Len(s) \in Nat
  BY LenProperties
<1>. HIDE DEF u
<1>3. /\ t \in Seq(Marks) /\ Len(t) = Len(s) + n
      /\ \A i \in 1 .. (Len(s) + n) : t[i] = IF i <= Len(s) THEN s[i] ELSE u[i - Len(s)]
  BY <1>1, ConcatProperties
<1>. HIDE DEF t
<1>4. \A i \in 1 .. Len(s) : t[i] = s[i]
  BY <1>2, <1>3
<1>5. ASSUME NEW i \in (Len(s) + 1) .. (Len(s) + n)
      PROVE  t[i] = Mark(k, r)
  <2>1. i \in 1 .. (Len(s) + n) /\ ~(i <= Len(s)) /\ (i - Len(s)) \in 1 .. n
    BY <1>2
  <2>. QED
    BY <1>1, <1>3, <2>1
<1>. QED
  BY <1>3, <1>4, <1>5 DEF t, u

\* Where the blank line of a request is.
BlankOf(r) == Len(Lines(r)) - r.body

\* A mark of kind x is among the first n of s.
Seen(s, n, x) == \E i \in 1 .. n : s[i].kind = x

\* The start line and some of the headers of r.
Beginning(s, r) ==
  /\ s \in Seq(Marks) /\ Len(s) >= 1
  /\ s[1] = Mark("start", r)
  /\ \A i \in 2 .. Len(s) : /\ s[i].kind \in {"other", "keep-alive", "auth", "length"}
                            /\ s[i].of = r

\* Another header, or none.
LEMMA Lengthened ==
  ASSUME NEW r \in Requests, NEW n \in Nat, NEW s, Beginning(s, r),
         NEW k \in {"other", "keep-alive", "auth", "length"}
  PROVE  LET t == s \o Times(n, k, r) IN
         /\ Beginning(t, r)
         /\ \A x : Seen(t, Len(t), x) <=> Seen(s, Len(s), x) \/ (n > 0 /\ x = k)
<1>. DEFINE t == s \o Times(n, k, r)
<1>0. s \in Seq(Marks) /\ Len(s) \in Nat /\ Len(s) >= 1 /\ k \in Kinds
  BY LenProperties DEF Beginning, Kinds
<1>1. /\ t \in Seq(Marks) /\ Len(t) = Len(s) + n
      /\ \A i \in 1 .. Len(s) : t[i] = s[i]
      /\ \A i \in (Len(s) + 1) .. (Len(s) + n) : t[i] = Mark(k, r)
  BY <1>0, Followed
<1>. HIDE DEF t
<1>2. Mark(k, r).kind = k /\ Mark(k, r).of = r
  BY DEF Mark
<1>3. Beginning(t, r)
  <2>1. ASSUME NEW i \in 2 .. Len(t)
        PROVE  t[i].kind \in {"other", "keep-alive", "auth", "length"} /\ t[i].of = r
    <3>1. i \in 2 .. Len(s) \/ i \in (Len(s) + 1) .. (Len(s) + n)
      BY <1>0, <1>1
    <3>. QED
      BY <1>0, <1>1, <1>2, <3>1 DEF Beginning
  <2>2. t[1] = Mark("start", r)
    BY <1>0, <1>1 DEF Beginning
  <2>. QED
    BY <1>0, <1>1, <2>1, <2>2 DEF Beginning
<1>4. ASSUME NEW x
      PROVE  Seen(t, Len(t), x) <=> Seen(s, Len(s), x) \/ (n > 0 /\ x = k)
  <2>1. ASSUME NEW i \in 1 .. Len(t), t[i].kind = x
        PROVE  Seen(s, Len(s), x) \/ (n > 0 /\ x = k)
    <3>1. i \in 1 .. Len(s) \/ (i \in (Len(s) + 1) .. (Len(s) + n) /\ n > 0)
      BY <1>0, <1>1
    <3>. QED
      BY <1>1, <1>2, <2>1, <3>1 DEF Seen
  <2>2. ASSUME NEW i \in 1 .. Len(s), s[i].kind = x
        PROVE  Seen(t, Len(t), x)
    <3>1. i \in 1 .. Len(t) /\ t[i].kind = x
      BY <1>0, <1>1, <2>2
    <3>. QED
      BY <3>1 DEF Seen
  <2>3. ASSUME n > 0, x = k
        PROVE  Seen(t, Len(t), x)
    <3>1. /\ (Len(s) + 1) \in (Len(s) + 1) .. (Len(s) + n)
          /\ (Len(s) + 1) \in 1 .. Len(t)
      BY <1>0, <1>1, <2>3
    <3>. QED
      BY <1>1, <1>2, <2>3, <3>1 DEF Seen
  <2>. QED
    BY <2>1, <2>2, <2>3 DEF Seen
<1>. QED
  BY <1>3, <1>4 DEF t

\* The marks of a request, in their order.
LEMMA LinesFacts ==
  ASSUME NEW r \in Requests
  PROVE  LET s == Lines(r)
             b == BlankOf(r)
         IN
         /\ s \in Seq(Marks) /\ Len(s) = b + r.body /\ b \in Nat /\ b >= 2
         /\ s[1] = Mark("start", r)
         /\ \A i \in 2 .. (b - 1) : /\ s[i].kind \in {"other", "keep-alive", "auth", "length"}
                                    /\ s[i].of = r
         /\ s[b] = Mark("blank", r)
         /\ \A i \in (b + 1) .. Len(s) : s[i] = Mark("body", r)
         /\ r.keep <=> Seen(s, b - 1, "keep-alive")
         /\ r.auth <=> Seen(s, b - 1, "auth")
         /\ r.body > 0 <=> Seen(s, b - 1, "length")
<1>. DEFINE ko == If(r.keep)
            au == If(r.auth)
            le == If(r.body > 0)
<1>0. /\ r.other \in Nat /\ r.body \in Nat
      /\ ko \in Nat /\ (ko > 0 <=> r.keep)
      /\ au \in Nat /\ (au > 0 <=> r.auth)
      /\ le \in Nat /\ (le > 0 <=> r.body > 0)
  BY RequestType DEF If
<1>. DEFINE p1 == <<Mark("start", r)>>
            p2 == p1 \o Times(r.other, "other", r)
            p3 == p2 \o Times(ko, "keep-alive", r)
            p4 == p3 \o Times(au, "auth", r)
            p5 == p4 \o Times(le, "length", r)
            p6 == p5 \o <<Mark("blank", r)>>
            p7 == p6 \o Body(r)
<1>1. p7 = Lines(r)
  BY DEF Lines
<1>. HIDE DEF ko, au, le, p7, p6, p5, p4, p3, p2
<1>2. Beginning(p1, r) /\ \A x : Seen(p1, Len(p1), x) <=> x = "start"
  <2>1. Mark("start", r) \in Marks /\ Mark("start", r).kind = "start"
    BY RequestType DEF Kinds, Mark
  <2>2. p1 \in Seq(Marks) /\ Len(p1) = 1 /\ p1[1] = Mark("start", r)
    BY <2>1
  <2>. QED
    BY <2>1, <2>2 DEF Beginning, Seen
<1>. HIDE DEF p1
<1>3. Beginning(p2, r) /\ \A x : Seen(p2, Len(p2), x) <=>
                              Seen(p1, Len(p1), x) \/ (r.other > 0 /\ x = "other")
  BY <1>0, <1>2, Lengthened DEF p2
<1>4. Beginning(p3, r) /\ \A x : Seen(p3, Len(p3), x) <=>
                              Seen(p2, Len(p2), x) \/ (ko > 0 /\ x = "keep-alive")
  BY <1>0, <1>3, Lengthened DEF p3
<1>5. Beginning(p4, r) /\ \A x : Seen(p4, Len(p4), x) <=>
                              Seen(p3, Len(p3), x) \/ (au > 0 /\ x = "auth")
  BY <1>0, <1>4, Lengthened DEF p4
<1>6. Beginning(p5, r) /\ \A x : Seen(p5, Len(p5), x) <=>
                              Seen(p4, Len(p4), x) \/ (le > 0 /\ x = "length")
  BY <1>0, <1>5, Lengthened DEF p5
<1>7. /\ Seen(p5, Len(p5), "keep-alive") <=> r.keep
      /\ Seen(p5, Len(p5), "auth") <=> r.auth
      /\ Seen(p5, Len(p5), "length") <=> r.body > 0
  BY <1>0, <1>2, <1>3, <1>4, <1>5, <1>6
<1>. DEFINE n == Len(p5)
<1>8. p5 \in Seq(Marks) /\ n \in Nat /\ n >= 1
  BY <1>6, LenProperties DEF Beginning
<1>9. /\ p6 \in Seq(Marks) /\ Len(p6) = n + 1
      /\ \A i \in 1 .. n : p6[i] = p5[i]
      /\ p6[n + 1] = Mark("blank", r)
  <2>1. Mark("blank", r) \in Marks
    BY RequestType DEF Kinds
  <2>2. <<Mark("blank", r)>> \in Seq(Marks) /\ Len(<<Mark("blank", r)>>) = 1
    BY <2>1
  <2>3. /\ p6 \in Seq(Marks) /\ Len(p6) = n + 1
        /\ \A i \in 1 .. (n + 1) : p6[i] = IF i <= n THEN p5[i] ELSE <<Mark("blank", r)>>[i - n]
    BY <1>8, <2>2, ConcatProperties DEF p6
  <2>4. (n + 1) - n = 1
    BY <1>8
  <2>. QED
    BY <1>8, <2>3, <2>4
<1>10. /\ p7 \in Seq(Marks) /\ Len(p7) = n + 1 + r.body
       /\ \A i \in 1 .. (n + 1) : p7[i] = p6[i]
       /\ \A i \in (n + 2) .. (n + 1 + r.body) : p7[i] = Mark("body", r)
  <2>1. "body" \in Kinds
    BY DEF Kinds
  <2>2. /\ p7 \in Seq(Marks) /\ Len(p7) = Len(p6) + r.body
        /\ \A i \in 1 .. Len(p6) : p7[i] = p6[i]
        /\ \A i \in (Len(p6) + 1) .. (Len(p6) + r.body) : p7[i] = Mark("body", r)
    <3>1. p7 = p6 \o Times(r.body, "body", r)
      BY DEF p7, Body
    <3>2. r.body \in Nat /\ p6 \in Seq(Marks)
      BY <1>0, <1>9
    <3>. DEFINE t == p6 \o Times(r.body, "body", r)
    <3>3. /\ t \in Seq(Marks) /\ Len(t) = Len(p6) + r.body
          /\ \A i \in 1 .. Len(p6) : t[i] = p6[i]
          /\ \A i \in (Len(p6) + 1) .. (Len(p6) + r.body) : t[i] = Mark("body", r)
      BY <2>1, <3>2, Followed
    <3>. HIDE DEF t
    <3>. QED
      BY <3>1, <3>3, Zenon DEF t
  <2>. QED
    BY <1>8, <1>9, <2>2
<1>. HIDE DEF n
<1>11. BlankOf(r) = n + 1
  BY <1>0, <1>1, <1>8, <1>10 DEF BlankOf
<1>12. /\ \A i \in 1 .. n : p7[i] = p5[i]
       /\ p7[n + 1] = Mark("blank", r)
       /\ \A x : Seen(p7, n, x) <=> Seen(p5, n, x)
  <2>1. \A i \in 1 .. n : i \in 1 .. (n + 1)
    BY <1>8
  <2>2. \A i \in 1 .. n : p7[i] = p5[i]
    BY <1>9, <1>10, <2>1 DEF n
  <2>3. p7[n + 1] = Mark("blank", r)
    BY <1>8, <1>9, <1>10 DEF n
  <2>. QED
    BY <2>2, <2>3 DEF Seen
<1>13. /\ p7[1] = Mark("start", r)
       /\ \A i \in 2 .. n : p7[i].kind \in {"other", "keep-alive", "auth", "length"} /\ p7[i].of = r
  BY <1>6, <1>8, <1>12 DEF Beginning, n
<1>. QED
  <2>1. /\ p7 \in Seq(Marks) /\ Len(p7) = (n + 1) + r.body /\ n + 1 \in Nat /\ n + 1 >= 2
        /\ (n + 1) - 1 = n /\ (n + 1) + 1 = n + 2
    BY <1>0, <1>8, <1>10
  <2>2. /\ r.keep <=> Seen(p7, n, "keep-alive")
        /\ r.auth <=> Seen(p7, n, "auth")
        /\ r.body > 0 <=> Seen(p7, n, "length")
    BY <1>7, <1>12 DEF n
  <2>. QED
    BY <1>1, <1>10, <1>11, <1>12, <1>13, <2>1, <2>2

-----------------------------------------------------------------------------
(* The types, whatever the client does.                                    *)

Urls == {"null", "lost", "root", "page", "login", "hello"}
Tokens == {"null", "lost", "held"}
Parsers == [state : {"REQUESTLINE", "HEADER"}, url : Urls, post : BOOLEAN, length : Nat,
            token : Tokens, keep : BOOLEAN]

Contents ==
  [page : {"login"}, data : Seq(Marks), keep : BOOLEAN]
    \cup [page : {"hello"}, token : Tokens, keep : BOOLEAN]
    \cup [page : {"file"}, url : Urls, keep : BOOLEAN]
    \cup [page : {"broken"}]

TypeInv ==
  /\ asked \in Seq(Requests) /\ replies \in Seq(Contents)
  /\ unsent \in Seq(Marks) /\ net \in Seq(Marks) /\ buf \in Seq(Marks)
  /\ Len(buf) <= READ_BUFFER_SIZE
  /\ start \in 0 .. Len(buf) /\ (at \in {"in", "pool", "out"} => start = 0)
  /\ conn \in Parsers
  /\ out \in Contents \cup {NoReply}
  /\ at \in {"in", "pool", "parse", "out", "closed", "crashed"}
  /\ at = "out" => out # NoReply
  /\ piped \in BOOLEAN /\ cut \in BOOLEAN /\ unopened \in BOOLEAN

LEMMA ContentsAreReplies == NoReply \notin Contents
BY DEF NoReply, Contents

LEMMA AnswerType ==
  ASSUME NEW post \in BOOLEAN, NEW url \in Urls, NEW data \in Seq(Marks),
         NEW token \in Tokens, NEW keep \in BOOLEAN
  PROVE  LET a == Answer(post, url, data, token, keep) IN
         a \in Contents /\ a.page # "broken"
BY DEF Answer, Contents

\* The sequences, as functions of their positions.
LEMMA Streams ==
  ASSUME TypeInv
  PROVE  /\ Len(buf) \in Nat /\ DOMAIN buf = 1 .. Len(buf)
         /\ \A i \in 1 .. Len(buf) : buf[i] \in Marks
         /\ Len(net) \in Nat /\ DOMAIN net = 1 .. Len(net)
         /\ Len(unsent) \in Nat /\ DOMAIN unsent = 1 .. Len(unsent)
         /\ Len(asked) \in Nat /\ DOMAIN asked = 1 .. Len(asked)
         /\ Len(replies) \in Nat /\ DOMAIN replies = 1 .. Len(replies)
         /\ start \in Nat /\ start <= Len(buf) /\ READ_BUFFER_SIZE \in Nat
<1>1. /\ asked \in Seq(Requests) /\ replies \in Seq(Contents)
      /\ unsent \in Seq(Marks) /\ net \in Seq(Marks) /\ buf \in Seq(Marks)
      /\ start \in 0 .. Len(buf)
  BY DEF TypeInv
<1>2. Len(buf) \in Nat /\ DOMAIN buf = 1 .. Len(buf) /\ \A i \in 1 .. Len(buf) : buf[i] \in Marks
  BY <1>1, LenProperties, ElementOfSeq
<1>3. /\ Len(net) \in Nat /\ DOMAIN net = 1 .. Len(net)
      /\ Len(unsent) \in Nat /\ DOMAIN unsent = 1 .. Len(unsent)
  BY <1>1, LenProperties
<1>4. /\ Len(asked) \in Nat /\ DOMAIN asked = 1 .. Len(asked)
      /\ Len(replies) \in Nat /\ DOMAIN replies = 1 .. Len(replies)
  BY <1>1, LenProperties
<1>. QED
  BY <1>1, <1>2, <1>3, <1>4, HttpAssumption

\* The line that get_line_from_buf finds.
LEMMA FoundLine ==
  ASSUME TypeInv, HasLine
  PROVE  /\ Min(Ends) \in (start + 1) .. Len(buf) /\ \A i \in Ends : Min(Ends) <= i
         /\ Line \in Marks /\ Line.of \in Requests
<1>1. Ends \in SUBSET Nat /\ Ends # {} /\ \A i \in Ends : i \in (start + 1) .. Len(buf)
  BY Streams DEF Ends, HasLine
<1>2. Min(Ends) \in Ends /\ \A i \in Ends : Min(Ends) <= i
  BY <1>1, MinFacts
<1>3. Min(Ends) \in (start + 1) .. Len(buf) /\ Min(Ends) \in 1 .. Len(buf)
  <2>1. \A i : i \in (start + 1) .. Len(buf) => i \in 1 .. Len(buf)
    BY Streams
  <2>. QED
    BY <1>1, <1>2, <2>1
<1>4. Line \in Marks
  BY <1>3, Streams DEF Line
<1>. QED
  BY <1>2, <1>3, <1>4 DEF Marks

LEMMA DataType ==
  ASSUME TypeInv, NEW p \in 0 .. Len(buf), NEW n \in Nat
  PROVE  LET q == Min({p + n, Len(buf)})
             s == SubSeq(buf, p + 1, q)
         IN
         /\ q = (IF p + n <= Len(buf) THEN p + n ELSE Len(buf))
         /\ s \in Seq(Marks) /\ Len(s) = q - p
         /\ \A i \in 1 .. (q - p) : s[i] = buf[p + i]
<1>. DEFINE q == Min({p + n, Len(buf)})
            s == SubSeq(buf, p + 1, q)
<1>0. Len(buf) \in Nat /\ buf \in Seq(Marks)
  BY Streams DEF TypeInv
<1>1. q = IF p + n <= Len(buf) THEN p + n ELSE Len(buf)
  BY <1>0, MinOfTwo
<1>. HIDE DEF q
<1>2. q \in Int /\ q <= Len(buf) /\ p <= q /\ p + 1 \in Int /\ 1 <= p + 1
  BY <1>0, <1>1
<1>3. /\ s \in Seq(Marks)
      /\ Len(s) = (IF p + 1 <= q THEN (q - (p + 1)) + 1 ELSE 0)
      /\ \A i \in 1 .. ((q - (p + 1)) + 1) : s[i] = buf[((p + 1) + i) - 1]
  BY <1>0, <1>2, PartOf
<1>. HIDE DEF s
<1>4. Len(s) = q - p /\ (q - (p + 1)) + 1 = q - p
  BY <1>2, <1>3
<1>5. \A i \in 1 .. (q - p) : ((p + 1) + i) - 1 = p + i
  BY <1>2
<1>. QED
  BY <1>1, <1>3, <1>4, <1>5 DEF s, q

LEMMA TerminatedType ==
  ASSUME TypeInv, start' \in 0 .. Len(buf)
  PROVE  /\ Terminated \in Seq(Marks) /\ Len(Terminated) = Len(buf)
         /\ \A i \in 1 .. Len(buf) :
              i # start' + conn.length + 1 \/ conn.length = 0 => Terminated[i] = buf[i]
<1>1. \A i \in 1 .. Len(buf) : Mark("nul", buf[i].of) \in Marks /\ buf[i] \in Marks
  BY Streams DEF Mark, Marks, Kinds
<1>2. Len(buf) \in Nat /\ DOMAIN buf = 1 .. Len(buf)
  BY Streams
<1>3. Terminated \in [1 .. Len(buf) -> Marks]
  BY <1>1, <1>2 DEF Terminated
<1>. QED
  BY <1>2, <1>3 DEF Terminated

LEMMA InitTypes == Init => TypeInv
<1>. SUFFICES ASSUME Init PROVE TypeInv
  OBVIOUS
<1>1. /\ <<>> \in Seq(Marks) /\ <<>> \in Seq(Requests) /\ <<>> \in Seq(Contents)
      /\ Len(<<>>) = 0 /\ 0 <= READ_BUFFER_SIZE /\ 0 \in 0 .. 0
  BY EmptySeq, HttpAssumption
<1>2. Fresh \in Parsers
  BY DEF Fresh, Parsers, Urls, Tokens
<1>. QED
  BY <1>1, <1>2 DEF Init, TypeInv

LEMMA StepTypes == TypeInv /\ [Next]_vars => TypeInv'
<1>. SUFFICES ASSUME TypeInv, [Next]_vars
              PROVE  TypeInv'
  OBVIOUS
<1>0. /\ <<>> \in Seq(Marks) /\ Len(<<>>) = 0 /\ READ_BUFFER_SIZE \in Nat
      /\ Fresh \in Parsers
  BY EmptySeq, HttpAssumption DEF Fresh, Parsers, Urls, Tokens
<1>1. ASSUME NEW r \in Requests, Ask(r)
      PROVE  TypeInv'
  <2>1. asked' \in Seq(Requests)
    BY <1>1, AppendProperties DEF Ask, TypeInv
  <2>2. unsent' \in Seq(Marks)
    BY <1>1, LinesFacts DEF Ask
  <2>3. piped' \in BOOLEAN
    BY <1>1 DEF Ask, TypeInv
  <2>. QED
    BY <1>1, <2>1, <2>2, <2>3 DEF Ask, TypeInv
<1>2. ASSUME NEW n, Send(n)
      PROVE  TypeInv'
  <2>1. n \in 1 .. Len(unsent) /\ Len(unsent) \in Nat /\ unsent \in Seq(Marks)
    BY <1>2, Streams DEF Send, TypeInv
  <2>2. SubSeq(unsent, 1, n) \in Seq(Marks) /\ SubSeq(unsent, n + 1, Len(unsent)) \in Seq(Marks)
    BY <2>1, PartOf
  <2>3. net' \in Seq(Marks) /\ unsent' \in Seq(Marks)
    BY <1>2, <2>2, ConcatProperties DEF Send, TypeInv
  <2>. QED
    BY <1>2, <2>3 DEF Send, TypeInv
<1>3. CASE OnReadable
  <2>1. ASSUME ~ReadFails
        PROVE  (buf \o net) \in Seq(Marks) /\ Len(buf \o net) <= READ_BUFFER_SIZE
    <3>1. (buf \o net) \in Seq(Marks) /\ Len(buf \o net) = Len(buf) + Len(net)
      BY ConcatProperties DEF TypeInv
    <3>2. ~(Len(net) > READ_BUFFER_SIZE - Len(buf))
      BY <2>1 DEF ReadFails, Room
    <3>. QED
      BY <3>1, <3>2, Streams
  <2>2. start = 0 /\ at = "in"
    BY <1>3 DEF OnReadable, TypeInv
  <2>3. CASE ReadFails
    BY <1>0, <1>3, <2>2, <2>3 DEF OnReadable, TypeInv, client
  <2>4. CASE ~ReadFails
    <3>1. buf' \in Seq(Marks) /\ Len(buf') <= READ_BUFFER_SIZE /\ net' = <<>> /\ at' = "pool"
      BY <1>3, <2>1, <2>4 DEF OnReadable
    <3>2. start' = 0 /\ 0 \in 0 .. Len(buf')
      BY <1>3, <2>2, <3>1, LenProperties DEF OnReadable
    <3>. QED
      BY <1>0, <1>3, <3>1, <3>2 DEF OnReadable, TypeInv, client
  <2>. QED
    BY <2>3, <2>4
<1>4. CASE Drain
  <2>1. CASE UNCHANGED <<net, buf>> /\ at' = "in"
    BY <1>4, <2>1 DEF Drain, TypeInv, client
  <2>2. CASE ~(Room <= 0 /\ net # <<>>)
    <3>. DEFINE n == Min({Room, Len(net)})
    <3>1. Room \in Nat /\ n = (IF Room <= Len(net) THEN Room ELSE Len(net))
      <4>1. Room \in Nat /\ Len(net) \in Nat
        BY Streams DEF Room, TypeInv
      <4>. QED
        BY <4>1, MinOfTwo
    <3>. HIDE DEF n
    <3>2. n \in Nat /\ n <= Len(net) /\ n <= READ_BUFFER_SIZE - Len(buf) /\ net \in Seq(Marks)
      BY <3>1, Streams DEF Room, TypeInv
    <3>3. /\ SubSeq(net, 1, n) \in Seq(Marks) /\ SubSeq(net, n + 1, Len(net)) \in Seq(Marks)
          /\ Len(SubSeq(net, 1, n)) = n
      BY <3>2, Streams, PartOf
    <3>4. /\ buf' = buf \o SubSeq(net, 1, n) /\ net' = SubSeq(net, n + 1, Len(net))
          /\ at' = "parse" /\ UNCHANGED <<client, start, conn, out, replies, unopened>>
      BY <1>4, <2>2 DEF Drain, n
    <3>5. buf' \in Seq(Marks) /\ Len(buf') = Len(buf) + n
      BY <3>3, <3>4, ConcatProperties DEF TypeInv
    <3>6. Len(buf') <= READ_BUFFER_SIZE /\ start \in 0 .. Len(buf')
      BY <3>2, <3>5, Streams
    <3>. QED
      BY <3>3, <3>4, <3>5, <3>6 DEF TypeInv, client
  <2>. QED
    BY <1>4, <2>1, <2>2 DEF Drain
<1>5. ASSUME NEW s, NextLine(s)
      PROVE  start' \in 0 .. Len(buf) /\ Line \in Marks /\ Line.of \in Requests
  <2>1. start' \in (start + 1) .. Len(buf) /\ Line \in Marks /\ Line.of \in Requests
    BY <1>5, FoundLine DEF NextLine
  <2>. QED
    BY <2>1, Streams
<1>6. CASE ParseRequestLine
  <2>1. conn' \in Parsers
    <3>1. /\ conn \in Parsers /\ Line.of.post \in BOOLEAN
          /\ Line.of.url \in {"root", "page", "login", "hello"}
      BY <1>5, <1>6, RequestType DEF ParseRequestLine, TypeInv
    <3>. DEFINE p == conn.post \/ (Line.kind = "start" /\ ~Glued /\ Line.of.post)
                u == CASE Line.kind = "start" -> Line.of.url
                       [] Line.kind = "blank" -> "null"
                       [] OTHER               -> "lost"
    <3>2. p \in BOOLEAN /\ u \in Urls
      BY <3>1 DEF Urls, Parsers
    <3>3. conn' = [conn EXCEPT !.state = "HEADER", !.post = p, !.url = u]
      BY <1>6 DEF ParseRequestLine
    <3>. HIDE DEF p, u
    <3>. QED
      BY <3>1, <3>2, <3>3 DEF Parsers
  <2>. QED
    BY <1>5, <1>6, <2>1 DEF ParseRequestLine, NextLine, TypeInv, client
<1>7. CASE ParseHeaders
  <2>1. conn' \in Parsers
    <3>1. conn \in Parsers /\ Line.of.body \in Nat
      BY <1>5, <1>7, RequestType DEF ParseHeaders, TypeInv
    <3>. DEFINE n == IF Line.kind = "length" THEN Line.of.body ELSE conn.length
                k == conn.keep \/ Line.kind = "keep-alive"
                t == IF Line.kind = "auth" THEN "held" ELSE conn.token
    <3>2. n \in Nat /\ k \in BOOLEAN /\ t \in Tokens
      BY <3>1 DEF Tokens, Parsers
    <3>3. conn' = conn \/ conn' = [conn EXCEPT !.length = n, !.keep = k, !.token = t]
      BY <1>7 DEF ParseHeaders
    <3>. HIDE DEF n, k, t
    <3>. QED
      BY <3>1, <3>2, <3>3 DEF Parsers
  <2>. QED
    BY <1>5, <1>7, <2>1 DEF ParseHeaders, NextLine, TypeInv, client
<1>8. CASE DoRequest
  <2>0. conn \in Parsers /\ start' \in 0 .. Len(buf) /\ at = "parse"
    BY <1>5, <1>8 DEF DoRequest, NextLine, TypeInv
  <2>1. buf' \in Seq(Marks) /\ Len(buf') = Len(buf)
    BY <1>8, <2>0, TerminatedType DEF DoRequest
  <2>2. Data \in Seq(Marks)
    BY <2>0, DataType DEF Data, Parsers
  <2>3. Answer(conn.post, conn.url, Data, conn.token, conn.keep) \in Contents
    BY <2>0, <2>2, AnswerType DEF Parsers
  <2>4. [Fresh EXCEPT !.token = conn.token, !.keep = conn.keep] \in Parsers
    BY <1>0, <2>0 DEF Parsers
  <2>5. conn' \in Parsers /\ at' \in {"parse", "crashed"}
    BY <1>8, <2>0, <2>4 DEF DoRequest, TypeInv
  <2>6. out' \in Contents \cup {NoReply} /\ unopened' \in BOOLEAN
    <3>1. Spoilt \subseteq Contents
      BY DEF Spoilt, Contents
    <3>. QED
      BY <1>8, <2>3, <3>1 DEF DoRequest, NotOpened, TypeInv
  <2>7. UNCHANGED <<client, net, replies>>
    BY <1>8 DEF DoRequest, NextLine
  <2>. QED
    BY <2>0, <2>1, <2>5, <2>6, <2>7 DEF TypeInv, client
<1>9. CASE ParseDone
  <2>1. /\ SubSeq(buf, start + 1, Len(buf)) \in Seq(Marks)
        /\ Len(SubSeq(buf, start + 1, Len(buf))) <= Len(buf)
    <3>1. buf \in Seq(Marks) /\ start \in Nat /\ start <= Len(buf) /\ Len(buf) \in Nat
      BY Streams DEF TypeInv
    <3>. QED
      BY <3>1, PartOf
  <2>2. buf' \in Seq(Marks) /\ Len(buf') <= READ_BUFFER_SIZE /\ 0 \in 0 .. Len(buf')
    BY <1>9, <2>1, Streams, LenProperties DEF ParseDone, TypeInv
  <2>3. conn' \in Parsers
    <3>1. conn \in Parsers
      BY DEF TypeInv
    <3>2. Moved(conn.url) \in Urls /\ Moved(conn.token) \in Tokens
      BY <3>1 DEF Moved, Parsers, Urls, Tokens
    <3>. QED
      BY <1>9, <3>1, <3>2 DEF ParseDone, Parsers
  <2>. QED
    BY <1>9, <2>2, <2>3 DEF ParseDone, TypeInv, client
<1>10. CASE OnWritable
  <2>1. out \in Contents /\ replies \in Seq(Contents) /\ start = 0
    BY <1>10 DEF OnWritable, TypeInv
  <2>2. Append(replies, out) \in Seq(Contents)
    BY <2>1, AppendProperties
  <2>. QED
    BY <1>0, <1>10, <2>1, <2>2 DEF OnWritable, Wiped, TypeInv, client
<1>11. CASE UNCHANGED vars
  BY <1>11 DEF vars, TypeInv
<1>. QED
  BY <1>1, <1>2, <1>3, <1>4, <1>6, <1>7, <1>8, <1>9, <1>10, <1>11
  DEF Next, ServerStep, ClientStep

(* What process() and write() do to the buffer and the pointers into it    *)
(* stays in their types, with clients that pipeline and cut requests as    *)
(* they like: start_index never passes m_read_idx, and nothing is armed    *)
(* for EPOLLOUT without a response (http_conn.cpp 98-193, 419-451).        *)
THEOREM TypeCorrect == Spec => []TypeOK
<1>1. TypeInv => TypeOK
  BY Streams, ElementOfSeq DEF TypeInv, TypeOK, ToSet, Parsers, Urls, Tokens
<1>. QED
  BY <1>1, InitTypes, StepTypes, PTL DEF Spec

-----------------------------------------------------------------------------
(* The inductive invariant: where the marks of the one request are that    *)
(* the client waits for, and what the parser has made of those it has read. *)

\* The parser after the first k marks of r.
Parsed(r, k) ==
  IF k = 0 THEN Fresh
  ELSE [state |-> "HEADER", url |-> r.url, post |-> r.post,
        length |-> IF Seen(Lines(r), k, "length") THEN r.body ELSE 0,
        token |-> IF Seen(Lines(r), k, "auth") THEN "held" ELSE "null",
        keep |-> Seen(Lines(r), k, "keep-alive")]

\* How much of the buffer is not parsed.
Unread == Len(buf) - start

\* The other marks of r are in the buffer, received or not, or not sent.
Pending(r, k) ==
  /\ k + Unread + Len(net) + Len(unsent) = Len(Lines(r))
  /\ \A i \in 1 .. Unread : buf[start + i] = Lines(r)[k + i]
  /\ \A i \in 1 .. Len(net) : net[i] = Lines(r)[k + Unread + i]
  /\ \A i \in 1 .. Len(unsent) : unsent[i] = Lines(r)[k + Unread + Len(net) + i]

\* They are all in one place.
Together(k) ==
  \/ at = "in" /\ k = 0 /\ buf = <<>> /\ (net = <<>> \/ unsent = <<>>)
  \/ at \in {"pool", "parse"} /\ net = <<>> /\ unsent = <<>>

Waiting ==
  /\ Len(replies) = Len(asked) /\ at = "in"
  /\ buf = <<>> /\ net = <<>> /\ unsent = <<>> /\ conn = Fresh /\ out = NoReply

Reading(r, k) ==
  /\ Len(asked) = Len(replies) + 1 /\ at \in {"in", "pool", "parse"} /\ out = NoReply
  /\ k \in 0 .. (BlankOf(r) - 1) /\ conn = Parsed(r, k) /\ Pending(r, k)
  /\ BearsCut(r) \/ Together(k)

Served(r) ==
  /\ Len(asked) = Len(replies) + 1 /\ at \in {"parse", "out"}
  /\ out = Expected(r) /\ conn.keep = r.keep /\ net = <<>> /\ unsent = <<>>
  /\ \A i \in (start + 1) .. Len(buf) : buf[i].kind = "body"

\* No response was made: the client waits for one, and nothing will happen.
Unanswered ==
  /\ Len(asked) = Len(replies) + 1 /\ at \in {"parse", "in"} /\ unopened
  /\ out = NoReply /\ net = <<>> /\ unsent = <<>>
  /\ at = "parse" => \A i \in (start + 1) .. Len(buf) : buf[i].kind = "body"

Orderly ==
  /\ AsAsked
  /\ \/ at = "closed"
     \/ Waiting
     \/ asked # <<>> /\ \E k \in Nat : Reading(Last(asked), k)
     \/ asked # <<>> /\ Served(Last(asked))
     \/ asked # <<>> /\ Unanswered

IInv == TypeInv /\ (~piped /\ ~cut => Orderly)

\* The last request is a request.
LEMMA LastAsked ==
  ASSUME TypeInv, asked # <<>>
  PROVE  Last(asked) \in Requests /\ Last(asked) = asked[Len(asked)] /\ Len(asked) >= 1
<1>1. asked \in Seq(Requests) /\ Len(asked) \in Nat \ {0}
  BY EmptySeq DEF TypeInv
<1>2. Len(asked) \in 1 .. Len(asked)
  BY <1>1
<1>. QED
  BY <1>1, <1>2, ElementOfSeq DEF Last

\* No mark up to the blank line is one get_line_from_buf would pass over.
LEMMA HeadKinds ==
  ASSUME NEW r \in Requests, NEW k \in 0 .. (BlankOf(r) - 1)
  PROVE  Lines(r)[k + 1].kind \notin {"body", "nul"}
<1>1. k + 1 = 1 \/ k + 1 = BlankOf(r) \/ k + 1 \in 2 .. (BlankOf(r) - 1)
  BY LinesFacts
<1>2. /\ Lines(r)[1] = Mark("start", r) /\ Lines(r)[BlankOf(r)] = Mark("blank", r)
      /\ \A i \in 2 .. (BlankOf(r) - 1) :
           Lines(r)[i].kind \in {"other", "keep-alive", "auth", "length"}
  BY LinesFacts
<1>3. Mark("start", r).kind = "start" /\ Mark("blank", r).kind = "blank"
  BY DEF Mark
<1>. QED
  BY <1>1, <1>2, <1>3

\* When the next line is parsed it is the next mark of the request.
LEMMA NextMark ==
  ASSUME TypeInv, NEW r \in Requests, NEW k \in Nat, Reading(r, k), HasLine
  PROVE  /\ Min(Ends) = start + 1 /\ Line = Lines(r)[k + 1] /\ ~Glued
         /\ start + 1 <= Len(buf) /\ k + 1 <= BlankOf(r)
<1>0. /\ k + 1 \in 1 .. BlankOf(r) /\ BlankOf(r) \in Nat /\ start \in Nat /\ Len(buf) \in Nat
  BY LinesFacts, Streams DEF Reading
<1>1. Min(Ends) \in (start + 1) .. Len(buf) /\ \A i \in Ends : Min(Ends) <= i
  BY FoundLine
<1>2. start + 1 <= Len(buf) /\ 1 \in 1 .. Unread
  BY <1>0, <1>1 DEF Unread
<1>3. buf[start + 1] = Lines(r)[k + 1]
  BY <1>2 DEF Reading, Pending
<1>4. Lines(r)[k + 1].kind \notin {"body", "nul"}
  BY HeadKinds DEF Reading
<1>5. start + 1 \in Ends
  BY <1>0, <1>2, <1>3, <1>4 DEF Ends
<1>6. Min(Ends) = start + 1
  BY <1>0, <1>1, <1>5
<1>. QED
  BY <1>0, <1>2, <1>3, <1>6 DEF Line, Glued

\* What is left when one more mark is parsed.
LEMMA PendingNext ==
  ASSUME TypeInv, NEW r \in Requests, NEW k \in Nat, Pending(r, k),
         start + 1 <= Len(buf), start' = start + 1, UNCHANGED <<buf, net, unsent>>
  PROVE  Pending(r, k + 1)'
<1>0. /\ Len(buf) \in Nat /\ start \in Nat /\ Len(net) \in Nat /\ Len(unsent) \in Nat
      /\ Len(Lines(r)) \in Nat
  BY Streams, LinesFacts, RequestType
<1>1. Unread \in Nat /\ Unread >= 1 /\ Unread' = Unread - 1
  BY <1>0 DEF Unread
<1>2. /\ k + Unread + Len(net) + Len(unsent) = Len(Lines(r))
      /\ \A i \in 1 .. Unread : buf[start + i] = Lines(r)[k + i]
      /\ \A i \in 1 .. Len(net) : net[i] = Lines(r)[k + Unread + i]
      /\ \A i \in 1 .. Len(unsent) : unsent[i] = Lines(r)[k + Unread + Len(net) + i]
  BY DEF Pending
<1>3. (k + 1) + (Unread - 1) = k + Unread
  BY <1>1
<1>4. ASSUME NEW i \in 1 .. (Unread - 1)
      PROVE  buf[(start + 1) + i] = Lines(r)[(k + 1) + i]
  <2>1. (i + 1) \in 1 .. Unread /\ start + (i + 1) = (start + 1) + i /\ k + (i + 1) = (k + 1) + i
    BY <1>0, <1>1
  <2>. QED
    BY <1>2, <2>1
<1>. QED
  BY <1>1, <1>2, <1>3, <1>4 DEF Pending

LEMMA SeenNext ==
  ASSUME NEW s, NEW k \in Nat, NEW x
  PROVE  Seen(s, k + 1, x) <=> Seen(s, k, x) \/ s[k + 1].kind = x
<1>1. 1 .. (k + 1) = (1 .. k) \cup {k + 1}
  OBVIOUS
<1>. QED
  BY <1>1 DEF Seen

\* n of the marks on their way are received.
LEMMA Received ==
  ASSUME TypeInv, NEW r \in Requests, NEW k \in Nat, Pending(r, k), NEW n \in 0 .. Len(net),
         Len(buf') = Len(buf) + n, \A i \in 1 .. Len(buf) : buf'[i] = buf[i],
         \A i \in 1 .. n : buf'[Len(buf) + i] = net[i],
         Len(net') = Len(net) - n, \A i \in 1 .. (Len(net) - n) : net'[i] = net[n + i],
         UNCHANGED <<start, unsent>>
  PROVE  Pending(r, k)'
<1>0. /\ Len(buf) \in Nat /\ start \in Nat /\ start <= Len(buf)
      /\ Len(net) \in Nat /\ Len(unsent) \in Nat /\ n \in Nat /\ n <= Len(net)
  BY Streams
<1>1. Unread \in Nat /\ Unread' = Unread + n
  BY <1>0 DEF Unread
<1>2. /\ k + Unread + Len(net) + Len(unsent) = Len(Lines(r))
      /\ \A i \in 1 .. Unread : buf[start + i] = Lines(r)[k + i]
      /\ \A i \in 1 .. Len(net) : net[i] = Lines(r)[k + Unread + i]
      /\ \A i \in 1 .. Len(unsent) : unsent[i] = Lines(r)[k + Unread + Len(net) + i]
  BY DEF Pending
<1>3. ASSUME NEW i \in 1 .. (Unread + n)
      PROVE  buf'[start + i] = Lines(r)[k + i]
  <2>1. CASE i <= Unread
    <3>1. i \in 1 .. Unread /\ (start + i) \in 1 .. Len(buf)
      BY <1>0, <1>1, <2>1 DEF Unread
    <3>. QED
      BY <1>2, <3>1
  <2>2. CASE ~(i <= Unread)
    <3>1. /\ (i - Unread) \in 1 .. n /\ (i - Unread) \in 1 .. Len(net)
          /\ Len(buf) + (i - Unread) = start + i /\ k + Unread + (i - Unread) = k + i
      BY <1>0, <1>1, <2>2 DEF Unread
    <3>2. buf'[Len(buf) + (i - Unread)] = net[i - Unread]
      BY <3>1
    <3>3. net[i - Unread] = Lines(r)[k + Unread + (i - Unread)]
      BY <1>2, <3>1
    <3>. QED
      BY <3>1, <3>2, <3>3
  <2>. QED
    BY <2>1, <2>2
<1>4. ASSUME NEW i \in 1 .. (Len(net) - n)
      PROVE  net'[i] = Lines(r)[k + (Unread + n) + i]
  <2>1. (n + i) \in 1 .. Len(net) /\ k + Unread + (n + i) = k + (Unread + n) + i
    BY <1>0, <1>1
  <2>. QED
    BY <1>2, <2>1
<1>5. /\ k + (Unread + n) + (Len(net) - n) + Len(unsent) = Len(Lines(r))
      /\ k + (Unread + n) + (Len(net) - n) = k + Unread + Len(net)
  <2>1. k + (Unread + n) + (Len(net) - n) = k + Unread + Len(net)
    BY <1>0, <1>1
  <2>. QED
    BY <1>2, <2>1
<1>. QED
  BY <1>1, <1>2, <1>3, <1>4, <1>5 DEF Pending

\* n of the marks that are not sent are sent.
LEMMA Sent ==
  ASSUME TypeInv, NEW r \in Requests, NEW k \in Nat, Pending(r, k), NEW n, Send(n)
  PROVE  Pending(r, k)'
<1>0. /\ n \in 1 .. Len(unsent) /\ Len(net) \in Nat /\ Len(unsent) \in Nat
      /\ Len(buf) \in Nat /\ start \in Nat /\ start <= Len(buf)
      /\ net \in Seq(Marks) /\ unsent \in Seq(Marks)
  BY Streams DEF Send, TypeInv
<1>1. Unread \in Nat /\ Unread' = Unread
  BY <1>0 DEF Unread, Send
<1>2. /\ k + Unread + Len(net) + Len(unsent) = Len(Lines(r))
      /\ \A i \in 1 .. Unread : buf[start + i] = Lines(r)[k + i]
      /\ \A i \in 1 .. Len(net) : net[i] = Lines(r)[k + Unread + i]
      /\ \A i \in 1 .. Len(unsent) : unsent[i] = Lines(r)[k + Unread + Len(net) + i]
  BY DEF Pending
<1>. DEFINE a == SubSeq(unsent, 1, n)
            b == SubSeq(unsent, n + 1, Len(unsent))
<1>3. n \in Nat /\ n <= Len(unsent)
  BY <1>0
<1>4. /\ a \in Seq(Marks) /\ Len(a) = n /\ \A i \in 1 .. n : a[i] = unsent[i]
      /\ Len(b) = Len(unsent) - n /\ \A i \in 1 .. (Len(unsent) - n) : b[i] = unsent[n + i]
  <2>1. a \in Seq(Marks) /\ Len(a) = n /\ \A i \in 1 .. n : a[i] = unsent[i]
    BY <1>0, <1>3, FrontOf
  <2>2. Len(b) = Len(unsent) - n /\ \A i \in 1 .. (Len(unsent) - n) : b[i] = unsent[n + i]
    BY <1>0, <1>3, RestOf
  <2>. QED
    BY <2>1, <2>2
<1>5. net' = net \o a /\ unsent' = b /\ UNCHANGED <<buf, start>>
  BY DEF Send
<1>. HIDE DEF a, b
<1>6. /\ Len(net') = Len(net) + n
      /\ \A i \in 1 .. (Len(net) + n) : net'[i] = IF i <= Len(net) THEN net[i] ELSE a[i - Len(net)]
  <2>1. net \in Seq(Marks) /\ a \in Seq(Marks) /\ Len(a) = n
    BY <1>0, <1>4
  <2>2. /\ Len(net \o a) = Len(net) + n
        /\ \A i \in 1 .. (Len(net) + n) :
             (net \o a)[i] = IF i <= Len(net) THEN net[i] ELSE a[i - Len(net)]
    BY <2>1, ConcatProperties
  <2>. QED
    BY <1>5, <2>2
<1>7. ASSUME NEW i \in 1 .. (Len(net) + n)
      PROVE  net'[i] = Lines(r)[k + Unread + i]
  <2>1. CASE i <= Len(net)
    BY <1>0, <1>2, <1>6, <2>1
  <2>2. CASE ~(i <= Len(net))
    <3>1. /\ (i - Len(net)) \in 1 .. n /\ (i - Len(net)) \in 1 .. Len(unsent)
          /\ k + Unread + Len(net) + (i - Len(net)) = k + Unread + i
      BY <1>0, <1>1, <2>2
    <3>2. net'[i] = unsent[i - Len(net)]
      BY <1>4, <1>6, <2>2, <3>1
    <3>3. unsent[i - Len(net)] = Lines(r)[k + Unread + Len(net) + (i - Len(net))]
      BY <1>2, <3>1
    <3>. QED
      BY <3>1, <3>2, <3>3
  <2>. QED
    BY <2>1, <2>2
<1>8. ASSUME NEW i \in 1 .. (Len(unsent) - n)
      PROVE  unsent'[i] = Lines(r)[k + Unread + (Len(net) + n) + i]
  <2>1. /\ (n + i) \in 1 .. Len(unsent)
        /\ k + Unread + Len(net) + (n + i) = k + Unread + (Len(net) + n) + i
    BY <1>0, <1>1
  <2>. QED
    BY <1>2, <1>4, <1>5, <2>1
<1>9. k + Unread + (Len(net) + n) + (Len(unsent) - n) = Len(Lines(r))
  <2>1. k + Unread + (Len(net) + n) + (Len(unsent) - n) = k + Unread + Len(net) + Len(unsent)
    BY <1>0, <1>1
  <2>. QED
    BY <1>2, <2>1
<1>. QED
  BY <1>1, <1>4, <1>5, <1>6, <1>7, <1>8, <1>9 DEF Pending

-----------------------------------------------------------------------------
(* The actions, one at a time.                                             *)

\* The request the client waits for, of which k marks are parsed.
Asking(r, k) ==
  /\ r \in Requests /\ k \in Nat /\ asked # <<>> /\ r = Last(asked)
  /\ Reading(r, k) /\ AsAsked

LEMMA ReadingOn ==
  ASSUME NEW r, NEW k, Asking(r, k), NEW j \in Nat, Reading(r, j)',
         UNCHANGED <<asked, replies>>
  PROVE  Orderly'
<1>1. asked' # <<>> /\ Last(asked') = r /\ at' # "crashed"
  BY DEF Asking, Reading
<1>2. AsAsked'
  BY <1>1 DEF AsAsked, Asking
<1>. QED
  BY <1>1, <1>2 DEF Orderly

LEMMA AskOrderly ==
  ASSUME TypeInv, TypeInv', NEW r \in Requests, Ask(r), Orderly, ~piped'
  PROVE  Orderly'
<1>1. Len(replies) = Len(asked) /\ at \notin {"closed", "crashed"} /\ unsent = <<>>
  BY DEF Ask
<1>2. Waiting
  <2>1. Len(replies) \in Nat /\ Len(asked) \in Nat
    BY Streams
  <2>. QED
    BY <1>1, <2>1 DEF Orderly, Reading, Served, Unanswered
<1>3. /\ asked' \in Seq(Requests) /\ Len(asked') = Len(asked) + 1
      /\ asked'[Len(asked) + 1] = r /\ \A i \in 1 .. Len(asked) : asked'[i] = asked[i]
  BY AppendProperties DEF Ask, TypeInv
<1>4. asked' # <<>> /\ Last(asked') = r
  BY <1>3, Streams, EmptySeq DEF Last
<1>5. AsAsked'
  <2>1. /\ DOMAIN replies = 1 .. Len(replies) /\ Len(asked) \in Nat
        /\ \A i \in DOMAIN replies : i <= Len(asked) /\ replies[i] = Expected(asked[i])
    BY Streams DEF Orderly, AsAsked
  <2>2. replies' = replies /\ at' = at
    BY DEF Ask
  <2>3. \A i \in DOMAIN replies : i <= Len(asked') /\ replies[i] = Expected(asked'[i])
    BY <1>1, <1>3, <2>1
  <2>. QED
    BY <1>1, <2>2, <2>3 DEF AsAsked
<1>6. Reading(r, 0)'
  <2>1. /\ at' = "in" /\ buf' = <<>> /\ net' = <<>> /\ start' = 0 /\ out' = NoReply
        /\ conn' = Fresh /\ unsent' = Lines(r) /\ replies' = replies
    BY <1>2 DEF Ask, Waiting, TypeInv
  <2>2. Len(buf') = 0 /\ Len(net') = 0 /\ Unread' = 0
    BY <2>1, EmptySeq DEF Unread
  <2>3. BlankOf(r) \in Nat /\ 0 \in 0 .. (BlankOf(r) - 1) /\ Len(Lines(r)) \in Nat
    BY LinesFacts, RequestType
  <2>4. Pending(r, 0)'
    BY <2>1, <2>2, <2>3 DEF Pending
  <2>5. Together(0)'
    BY <2>1 DEF Together
  <2>. QED
    BY <1>1, <1>3, <2>1, <2>3, <2>4, <2>5 DEF Reading, Parsed
<1>. QED
  BY <1>4, <1>5, <1>6 DEF Orderly

LEMMA SendOrderly ==
  ASSUME TypeInv, NEW r, NEW k, Asking(r, k), NEW n, Send(n), ~cut'
  PROVE  Orderly'
<1>0. r \in Requests /\ k \in Nat /\ Reading(r, k)
  BY DEF Asking
<1>1. Pending(r, k)'
  BY <1>0, Sent DEF Reading
<1>2. n \in 1 .. Len(unsent) /\ Len(unsent) \in Nat /\ unsent # <<>>
  BY Streams, EmptySeq DEF Send
<1>3. ASSUME ~BearsCut(r)
      PROVE  Together(k)'
  <2>1. n = Len(unsent)
    <3>1. ~BearsCut(Last(asked))
      BY <1>3 DEF Asking
    <3>2. ~(n < Len(unsent))
      BY <3>1, Zenon DEF Send
    <3>. QED
      BY <1>2, <3>2
  <2>2. unsent' = <<>>
    <3>1. unsent \in Seq(Marks) /\ n \in Nat /\ n <= Len(unsent) /\ Len(unsent) - n = 0
      BY <1>2, <2>1 DEF TypeInv
    <3>2. SubSeq(unsent, n + 1, Len(unsent)) \in Seq(Marks) /\ Len(SubSeq(unsent, n + 1, Len(unsent))) = 0
      BY <3>1, RestOf
    <3>. QED
      BY <3>2, EmptySeq DEF Send
  <2>3. at = "in" /\ k = 0 /\ buf = <<>>
    BY <1>0, <1>2, <1>3 DEF Reading, Together
  <2>. QED
    BY <2>2, <2>3 DEF Together, Send
<1>4. Reading(r, k)'
  BY <1>0, <1>1, <1>3 DEF Reading, Send
<1>. QED
  BY <1>0, <1>4, ReadingOn DEF Send

LEMMA OnReadableOrderly ==
  ASSUME TypeInv, NEW r, NEW k, Asking(r, k), OnReadable
  PROVE  Orderly'
<1>0. r \in Requests /\ k \in Nat /\ Reading(r, k) /\ UNCHANGED <<client, start, conn, out, replies>>
  BY DEF Asking, OnReadable
<1>1. CASE at' = "closed"
  BY <1>0, <1>1 DEF Orderly, AsAsked, Asking, client
<1>2. CASE at' = "pool" /\ buf' = buf \o net
  <2>0. Len(net) \in Nat /\ Len(buf) \in Nat
    BY Streams
  <2>1. /\ Len(buf') = Len(buf) + Len(net)
        /\ \A i \in 1 .. Len(buf) : buf'[i] = buf[i]
        /\ \A i \in 1 .. Len(net) : buf'[Len(buf) + i] = net[i]
    <3>1. /\ Len(buf \o net) = Len(buf) + Len(net)
          /\ \A i \in 1 .. (Len(buf) + Len(net)) :
               (buf \o net)[i] = IF i <= Len(buf) THEN buf[i] ELSE net[i - Len(buf)]
      BY ConcatProperties DEF TypeInv
    <3>2. \A i \in 1 .. Len(net) : /\ Len(buf) + i \in 1 .. (Len(buf) + Len(net))
                                   /\ ~(Len(buf) + i <= Len(buf)) /\ (Len(buf) + i) - Len(buf) = i
      BY <2>0
    <3>. QED
      BY <1>2, <2>0, <3>1, <3>2
  <2>2. Len(net') = Len(net) - Len(net) /\ Len(net) - Len(net) = 0 /\ Len(net) \in 0 .. Len(net)
    BY <2>0, EmptySeq DEF OnReadable
  <2>3. \A i \in 1 .. (Len(net) - Len(net)) : net'[i] = net[Len(net) + i]
    BY <2>0
  <2>4. Pending(r, k)'
    BY <1>0, <2>1, <2>2, <2>3, Received DEF Reading, client
  <2>5. Together(k) => Together(k)'
    BY <1>0, <1>2 DEF Together, OnReadable, client
  <2>6. Reading(r, k)'
    BY <1>0, <1>2, <2>4, <2>5 DEF Reading, client
  <2>. QED
    BY <1>0, <2>6, ReadingOn DEF client
<1>. QED
  BY <1>1, <1>2 DEF OnReadable

LEMMA DrainOrderly ==
  ASSUME TypeInv, NEW r, NEW k, Asking(r, k), Drain
  PROVE  Orderly'
<1>0. /\ r \in Requests /\ k \in Nat /\ Reading(r, k) /\ at = "pool"
      /\ UNCHANGED <<client, start, conn, out, replies>>
  BY DEF Asking, Drain
<1>1. CASE Room <= 0 /\ net # <<>>
  <2>1. UNCHANGED <<net, buf>> /\ at' = "in"
    BY <1>1 DEF Drain
  <2>2. BearsCut(r)
    BY <1>0, <1>1 DEF Reading, Together
  <2>3. Pending(r, k)'
    BY <1>0, <2>1 DEF Reading, Pending, Unread, client
  <2>4. Reading(r, k)'
    BY <1>0, <2>1, <2>2, <2>3 DEF Reading, client
  <2>. QED
    BY <1>0, <2>4, ReadingOn DEF client
<1>2. CASE ~(Room <= 0 /\ net # <<>>)
  <2>. DEFINE n == Min({Room, Len(net)})
              a == SubSeq(net, 1, n)
              b == SubSeq(net, n + 1, Len(net))
  <2>1. buf' = buf \o a /\ net' = b /\ at' = "parse"
    BY <1>2 DEF Drain
  <2>2. /\ Len(net) \in Nat /\ Len(buf) \in Nat /\ net \in Seq(Marks)
        /\ n \in 0 .. Len(net)
    <3>1. Room \in Nat /\ Len(net) \in Nat
      BY Streams DEF Room, TypeInv
    <3>2. n = IF Room <= Len(net) THEN Room ELSE Len(net)
      BY <3>1, MinOfTwo
    <3>. HIDE DEF n
    <3>. QED
      BY <3>1, <3>2, Streams DEF TypeInv
  <2>. HIDE DEF n
  <2>3. n \in Nat /\ n <= Len(net)
    BY <2>2
  <2>4. /\ a \in Seq(Marks) /\ Len(a) = n /\ \A i \in 1 .. n : a[i] = net[i]
        /\ b \in Seq(Marks) /\ Len(b) = Len(net) - n
        /\ \A i \in 1 .. (Len(net) - n) : b[i] = net[n + i]
    BY <2>2, <2>3, FrontOf, RestOf
  <2>. HIDE DEF a, b
  <2>5. /\ Len(buf') = Len(buf) + n
        /\ \A i \in 1 .. Len(buf) : buf'[i] = buf[i]
        /\ \A i \in 1 .. n : buf'[Len(buf) + i] = net[i]
    <3>1. /\ Len(buf \o a) = Len(buf) + n
          /\ \A i \in 1 .. (Len(buf) + n) :
               (buf \o a)[i] = IF i <= Len(buf) THEN buf[i] ELSE a[i - Len(buf)]
      BY <2>4, ConcatProperties DEF TypeInv
    <3>2. \A i \in 1 .. n : /\ Len(buf) + i \in 1 .. (Len(buf) + n)
                            /\ ~(Len(buf) + i <= Len(buf)) /\ (Len(buf) + i) - Len(buf) = i
      BY <2>2
    <3>3. \A i \in 1 .. Len(buf) : i \in 1 .. (Len(buf) + n) /\ i <= Len(buf)
      BY <2>2
    <3>. QED
      BY <2>1, <2>4, <3>1, <3>2, <3>3
  <2>6. Pending(r, k)'
    BY <1>0, <2>1, <2>2, <2>4, <2>5, Received DEF Reading, client
  <2>7. Together(k) => Together(k)'
    <3>1. ASSUME net = <<>> PROVE net' = <<>>
      <4>1. Len(net') = 0 /\ net' \in Seq(Marks)
        BY <2>1, <2>2, <2>4, <3>1, EmptySeq
      <4>. QED
        BY <4>1, EmptySeq
    <3>. QED
      BY <1>0, <2>1, <3>1 DEF Together, client
  <2>8. Reading(r, k)'
    BY <1>0, <2>1, <2>6, <2>7 DEF Reading, client
  <2>. QED
    BY <1>0, <2>8, ReadingOn DEF client
<1>. QED
  BY <1>1, <1>2

\* The line that is parsed, and what is left of the request behind it.
LEMMA NextOf ==
  ASSUME TypeInv, NEW r, NEW k, Asking(r, k), NEW st, NextLine(st), UNCHANGED buf
  PROVE  /\ r \in Requests /\ k \in Nat /\ conn = Parsed(r, k) /\ conn.state = st
         /\ Line = Lines(r)[k + 1] /\ ~Glued /\ start' = start + 1 /\ start + 1 <= Len(buf)
         /\ k + 1 <= BlankOf(r) /\ BlankOf(r) \in Nat
         /\ Pending(r, k + 1)' /\ (BearsCut(r) \/ (net = <<>> /\ unsent = <<>>))
<1>0. r \in Requests /\ k \in Nat /\ Reading(r, k) /\ at = "parse" /\ HasLine /\ conn.state = st
  BY DEF Asking, NextLine
<1>1. /\ Min(Ends) = start + 1 /\ Line = Lines(r)[k + 1] /\ ~Glued
      /\ start + 1 <= Len(buf) /\ k + 1 <= BlankOf(r)
  BY <1>0, NextMark
<1>2. start' = start + 1 /\ UNCHANGED <<buf, net, unsent>>
  BY <1>1 DEF NextLine, client
<1>3. Pending(r, k + 1)'
  BY <1>0, <1>1, <1>2, PendingNext DEF Reading
<1>4. BlankOf(r) \in Nat
  BY <1>0, LinesFacts
<1>5. conn = Parsed(r, k) /\ (BearsCut(r) \/ (net = <<>> /\ unsent = <<>>))
  BY <1>0 DEF Reading, Together
<1>. QED
  BY <1>0, <1>1, <1>2, <1>3, <1>4, <1>5

\* The parser goes on to the next mark.
LEMMA Advances ==
  ASSUME TypeInv, NEW r, NEW k, Asking(r, k), NEW st, NextLine(st), UNCHANGED <<buf, out, at>>,
         conn' = Parsed(r, k + 1), k + 1 < BlankOf(r)
  PROVE  Orderly'
<1>1. /\ r \in Requests /\ k \in Nat /\ Pending(r, k + 1)' /\ BlankOf(r) \in Nat
      /\ BearsCut(r) \/ (net = <<>> /\ unsent = <<>>)
  BY NextOf
<1>2. at = "parse" /\ UNCHANGED <<asked, unsent, net, replies>>
  BY DEF NextLine, client
<1>3. BearsCut(r) \/ Together(k + 1)'
  BY <1>1, <1>2 DEF Together
<1>4. k + 1 \in Nat /\ k + 1 \in 0 .. (BlankOf(r) - 1)
  BY <1>1
<1>5. Reading(r, k + 1)'
  BY <1>1, <1>2, <1>3, <1>4 DEF Asking, Reading
<1>. QED
  BY <1>2, <1>4, <1>5, ReadingOn

\* The parser after k marks, field by field.
LEMMA ParserIs ==
  ASSUME NEW p \in Parsers, NEW r \in Requests, NEW k \in Nat, k # 0,
         p.state = "HEADER", p.url = r.url, p.post = r.post,
         p.length = IF Seen(Lines(r), k, "length") THEN r.body ELSE 0,
         p.token = IF Seen(Lines(r), k, "auth") THEN "held" ELSE "null",
         p.keep <=> Seen(Lines(r), k, "keep-alive")
  PROVE  p = Parsed(r, k)
<1>. DEFINE n == IF Seen(Lines(r), k, "length") THEN r.body ELSE 0
            t == IF Seen(Lines(r), k, "auth") THEN "held" ELSE "null"
            b == Seen(Lines(r), k, "keep-alive")
<1>1. Parsed(r, k) = [state |-> "HEADER", url |-> r.url, post |-> r.post, length |-> n,
                      token |-> t, keep |-> b]
  BY Zenon DEF Parsed
<1>2. b \in BOOLEAN /\ p.keep \in BOOLEAN
  BY DEF Seen, Parsers
<1>. HIDE DEF n, t, b
<1>3. p.length = n /\ p.token = t /\ (p.keep <=> b)
  BY DEF n, t, b
<1>4. p.keep = b
  BY <1>2, <1>3
<1>5. p = [state |-> p.state, url |-> p.url, post |-> p.post, length |-> p.length,
           token |-> p.token, keep |-> p.keep]
  BY DEF Parsers
<1>. QED
  BY <1>1, <1>3, <1>4, <1>5

LEMMA RequestLineOrderly ==
  ASSUME TypeInv, TypeInv', NEW r, NEW k, Asking(r, k), ParseRequestLine
  PROVE  Orderly'
<1>0. NextLine("REQUESTLINE") /\ UNCHANGED <<buf, out, at>> /\ conn \in Parsers /\ conn' \in Parsers
  BY DEF ParseRequestLine, TypeInv
<1>1. /\ r \in Requests /\ k \in Nat /\ conn = Parsed(r, k) /\ conn.state = "REQUESTLINE"
      /\ Line = Lines(r)[k + 1] /\ ~Glued
  BY <1>0, NextOf
<1>2. k = 0
  BY <1>1 DEF Parsed
<1>3. Lines(r)[1] = Mark("start", r) /\ BlankOf(r) \in Nat /\ BlankOf(r) >= 2
  BY <1>1, LinesFacts
<1>4. Line.kind = "start" /\ Line.of = r /\ Lines(r)[1].kind = "start"
  <2>1. Line = Lines(r)[1]
    BY <1>1, <1>2
  <2>. QED
    BY <1>3, <2>1 DEF Mark
<1>5. \A x : Seen(Lines(r), 1, x) => x = "start"
  BY <1>4 DEF Seen
<1>6. conn' = Parsed(r, 1)
  <2>. DEFINE p == conn.post \/ (Line.kind = "start" /\ ~Glued /\ Line.of.post)
              u == CASE Line.kind = "start" -> Line.of.url
                     [] Line.kind = "blank" -> "null"
                     [] OTHER               -> "lost"
  <2>1. conn = Fresh
    BY <1>1, <1>2 DEF Parsed
  <2>2. conn.post = FALSE /\ conn.length = 0 /\ conn.token = "null" /\ conn.keep = FALSE
    BY <2>1 DEF Fresh
  <2>3. r.post \in BOOLEAN
    BY <1>1, RequestType
  <2>4. p = r.post
    BY <1>1, <1>4, <2>2, <2>3
  <2>5. u = r.url
    BY <1>4
  <2>6. conn' = [conn EXCEPT !.state = "HEADER", !.post = p, !.url = u]
    BY DEF ParseRequestLine
  <2>. HIDE DEF p, u
  <2>7. /\ conn'.state = "HEADER" /\ conn'.post = p /\ conn'.url = u /\ conn'.length = conn.length
        /\ conn'.token = conn.token /\ conn'.keep = conn.keep
    BY <1>0, <2>6 DEF Parsers
  <2>8. ~Seen(Lines(r), 1, "length") /\ ~Seen(Lines(r), 1, "auth") /\ ~Seen(Lines(r), 1, "keep-alive")
    BY <1>5
  <2>. QED
    BY <1>0, <1>1, <2>2, <2>4, <2>5, <2>7, <2>8, ParserIs
<1>. QED
  <2>1. conn' = Parsed(r, k + 1) /\ k + 1 < BlankOf(r)
    BY <1>2, <1>3, <1>6
  <2>. QED
    BY <1>0, <2>1, Advances

LEMMA HeadersOrderly ==
  ASSUME TypeInv, TypeInv', NEW r, NEW k, Asking(r, k), ParseHeaders
  PROVE  Orderly'
<1>0. /\ NextLine("HEADER") /\ ~IsBlank /\ UNCHANGED <<buf, out, at>>
      /\ conn \in Parsers /\ conn' \in Parsers
  BY DEF ParseHeaders, TypeInv
<1>1. /\ r \in Requests /\ k \in Nat /\ conn = Parsed(r, k) /\ conn.state = "HEADER"
      /\ Line = Lines(r)[k + 1] /\ ~Glued /\ k + 1 <= BlankOf(r) /\ BlankOf(r) \in Nat
  BY <1>0, NextOf
<1>2. k # 0
  BY <1>1 DEF Parsed, Fresh
<1>3. k + 1 # BlankOf(r)
  <2>1. Lines(r)[BlankOf(r)] = Mark("blank", r)
    BY <1>1, LinesFacts
  <2>2. Lines(r)[BlankOf(r)].kind = "blank"
    BY <2>1 DEF Mark
  <2>. QED
    BY <1>0, <1>1, <2>2 DEF IsBlank
<1>4. Line.of = r
  <2>1. k + 1 \in 2 .. (BlankOf(r) - 1)
    BY <1>1, <1>2, <1>3
  <2>2. \A i \in 2 .. (BlankOf(r) - 1) : Lines(r)[i].of = r
    BY <1>1, LinesFacts
  <2>. QED
    BY <1>1, <2>1, <2>2
<1>5. \A x : Seen(Lines(r), k + 1, x) <=> Seen(Lines(r), k, x) \/ Line.kind = x
  BY <1>1, SeenNext
<1>6. conn' = Parsed(r, k + 1)
  <2>. DEFINE n == IF Line.kind = "length" THEN Line.of.body ELSE conn.length
              b == conn.keep \/ Line.kind = "keep-alive"
              t == IF Line.kind = "auth" THEN "held" ELSE conn.token
  <2>0. /\ conn.length = (IF Seen(Lines(r), k, "length") THEN r.body ELSE 0)
        /\ conn.token = (IF Seen(Lines(r), k, "auth") THEN "held" ELSE "null")
        /\ conn.keep = Seen(Lines(r), k, "keep-alive")
        /\ conn.url = r.url /\ conn.post = r.post
    BY <1>1, <1>2 DEF Parsed
  <2>1. n = IF Seen(Lines(r), k + 1, "length") THEN r.body ELSE 0
    BY <1>4, <1>5, <2>0
  <2>2. t = IF Seen(Lines(r), k + 1, "auth") THEN "held" ELSE "null"
    BY <1>5, <2>0
  <2>3. b <=> Seen(Lines(r), k + 1, "keep-alive")
    <3>1. conn.keep <=> Seen(Lines(r), k, "keep-alive")
      BY <2>0
    <3>. QED
      BY <1>5, <3>1
  <2>4. conn' = [conn EXCEPT !.length = n, !.keep = b, !.token = t]
    BY <1>1 DEF ParseHeaders
  <2>. HIDE DEF n, b, t
  <2>5. /\ conn'.state = conn.state /\ conn'.post = conn.post /\ conn'.url = conn.url
        /\ conn'.length = n /\ conn'.token = t /\ conn'.keep = b
    BY <1>0, <2>4 DEF Parsers
  <2>6. k + 1 \in Nat /\ k + 1 # 0
    BY <1>1
  <2>7. conn'.keep <=> Seen(Lines(r), k + 1, "keep-alive")
    BY <2>3, <2>5
  <2>. QED
    BY <1>0, <1>1, <2>0, <2>1, <2>2, <2>5, <2>6, <2>7, ParserIs
<1>. QED
  <2>1. k + 1 < BlankOf(r)
    BY <1>1, <1>3
  <2>. QED
    BY <1>0, <1>6, <2>1, Advances

\* All of the request is there when its blank line is parsed, and nothing else.
LEMMA AtBlank ==
  ASSUME TypeInv, NEW r, NEW k, Asking(r, k), NextLine("HEADER"), IsBlank
  PROVE  /\ start' = start + 1 /\ net = <<>> /\ unsent = <<>>
         /\ Len(buf) = start' + r.body
         /\ \A i \in 1 .. r.body : buf[start' + i] = Mark("body", r)
         /\ conn.url = r.url /\ conn.post = r.post /\ conn.length = r.body
         /\ conn.token = (IF r.auth THEN "held" ELSE "null") /\ conn.keep = r.keep
<1>0. /\ r \in Requests /\ k \in Nat /\ Reading(r, k) /\ at = "parse" /\ HasLine
      /\ conn.state = "HEADER" /\ conn = Parsed(r, k) /\ conn \in Parsers
  BY DEF Asking, NextLine, Reading, TypeInv
<1>1. /\ Min(Ends) = start + 1 /\ Line = Lines(r)[k + 1] /\ start + 1 <= Len(buf)
      /\ k + 1 <= BlankOf(r)
  BY <1>0, NextMark
<1>2. /\ BlankOf(r) \in Nat /\ Len(Lines(r)) = BlankOf(r) + r.body /\ r.body \in Nat
      /\ r.keep \in BOOLEAN /\ r.auth \in BOOLEAN
  BY <1>0, LinesFacts, RequestType
<1>3. k # 0
  BY <1>0 DEF Parsed, Fresh
<1>4. k + 1 = BlankOf(r)
  <2>1. ASSUME k + 1 \in 2 .. (BlankOf(r) - 1) PROVE FALSE
    <3>1. \A i \in 2 .. (BlankOf(r) - 1) :
             Lines(r)[i].kind \in {"other", "keep-alive", "auth", "length"}
      BY <1>0, LinesFacts
    <3>. QED
      BY <1>1, <2>1, <3>1 DEF IsBlank
  <2>. QED
    BY <1>0, <1>1, <1>2, <1>3, <2>1
<1>5. /\ conn.url = r.url /\ conn.post = r.post
      /\ conn.length = (IF Seen(Lines(r), k, "length") THEN r.body ELSE 0)
      /\ conn.token = (IF Seen(Lines(r), k, "auth") THEN "held" ELSE "null")
      /\ conn.keep = Seen(Lines(r), k, "keep-alive")
  BY <1>0, <1>3 DEF Parsed
<1>6. /\ r.keep <=> Seen(Lines(r), k, "keep-alive")
      /\ r.auth <=> Seen(Lines(r), k, "auth")
      /\ r.body > 0 <=> Seen(Lines(r), k, "length")
  <2>1. BlankOf(r) - 1 = k
    BY <1>0, <1>4
  <2>. QED
    BY <1>0, <2>1, LinesFacts
<1>7. conn.length = r.body /\ conn.token = (IF r.auth THEN "held" ELSE "null")
  BY <1>2, <1>5, <1>6
<1>8. conn.keep = r.keep
  <2>1. conn.keep \in BOOLEAN /\ (conn.keep <=> Seen(Lines(r), k, "keep-alive"))
    BY <1>0, <1>5 DEF Parsers
  <2>. QED
    BY <1>2, <1>6, <2>1
<1>9. /\ Len(buf) \in Nat /\ Len(net) \in Nat /\ Len(unsent) \in Nat /\ start \in Nat
      /\ net \in Seq(Marks) /\ unsent \in Seq(Marks)
  BY Streams DEF TypeInv
<1>10. Unread + Len(net) + Len(unsent) = 1 + r.body /\ Unread \in Nat /\ Unread >= 1
  <2>1. k + Unread + Len(net) + Len(unsent) = BlankOf(r) + r.body
    BY <1>0, <1>2 DEF Reading, Pending
  <2>2. Unread \in Nat /\ Unread >= 1
    BY <1>1, <1>9 DEF Unread
  <2>. QED
    BY <1>0, <1>2, <1>4, <1>9, <2>1, <2>2
<1>11. Len(net) = 0 /\ Len(unsent) = 0
  <2>1. CASE BearsCut(r)
    BY <1>9, <1>10, <2>1 DEF BearsCut
  <2>2. CASE Together(k)
    BY <1>0, <2>2, EmptySeq DEF Together
  <2>. QED
    BY <1>0, <2>1, <2>2 DEF Reading
<1>12. start' = start + 1 /\ net = <<>> /\ unsent = <<>>
  BY <1>1, <1>9, <1>11, EmptySeq DEF NextLine
<1>13. Len(buf) = start' + r.body
  BY <1>2, <1>9, <1>10, <1>11, <1>12 DEF Unread
<1>14. ASSUME NEW i \in 1 .. r.body
       PROVE  buf[start' + i] = Mark("body", r)
  <2>1. (i + 1) \in 1 .. Unread /\ start + (i + 1) = start' + i
    BY <1>2, <1>9, <1>10, <1>11, <1>12
  <2>2. buf[start + (i + 1)] = Lines(r)[k + (i + 1)]
    BY <1>0, <2>1 DEF Reading, Pending
  <2>3. k + (i + 1) \in (BlankOf(r) + 1) .. Len(Lines(r))
    BY <1>0, <1>2, <1>4
  <2>4. Lines(r)[k + (i + 1)] = Mark("body", r)
    BY <1>0, <2>3, LinesFacts
  <2>. QED
    BY <2>1, <2>2, <2>4
<1>. QED
  BY <1>5, <1>7, <1>8, <1>12, <1>13, <1>14

LEMMA DoRequestOrderly ==
  ASSUME TypeInv, NEW r, NEW k, Asking(r, k), DoRequest
  PROVE  Orderly'
<1>0. NextLine("HEADER") /\ IsBlank /\ r \in Requests /\ conn \in Parsers /\ at = "parse"
  BY DEF DoRequest, Asking, TypeInv, NextLine
<1>1. /\ start' = start + 1 /\ net = <<>> /\ unsent = <<>>
      /\ Len(buf) = start' + r.body
      /\ \A i \in 1 .. r.body : buf[start' + i] = Mark("body", r)
      /\ conn.url = r.url /\ conn.post = r.post /\ conn.length = r.body
      /\ conn.token = (IF r.auth THEN "held" ELSE "null") /\ conn.keep = r.keep
  BY <1>0, AtBlank
<1>2. /\ start \in Nat /\ r.body \in Nat /\ start' \in 0 .. Len(buf) /\ Len(buf) \in Nat
      /\ start' \in Nat
  <2>1. start \in Nat /\ r.body \in Nat
    BY <1>0, Streams, RequestType
  <2>. QED
    BY <1>1, <2>1
<1>3. Data = Body(r)
  <2>. DEFINE q == Min({start' + conn.length, Len(buf)})
  <2>1. /\ q = (IF start' + conn.length <= Len(buf) THEN start' + conn.length ELSE Len(buf))
        /\ Data \in Seq(Marks) /\ Len(Data) = q - start'
        /\ \A i \in 1 .. (q - start') : Data[i] = buf[start' + i]
    <3>1. conn.length \in Nat /\ start' \in 0 .. Len(buf)
      BY <1>1, <1>2
    <3>. QED
      BY <3>1, DataType DEF Data
  <2>. HIDE DEF q
  <2>2. q - start' = r.body
    BY <1>1, <1>2, <2>1
  <2>3. /\ Body(r) \in Seq(Marks) /\ Len(Body(r)) = r.body
        /\ \A i \in 1 .. r.body : Body(r)[i] = Mark("body", r)
    BY <1>0, <1>2, TimesFacts DEF Body, Kinds
  <2>4. /\ Data \in Seq(Marks) /\ Len(Data) = r.body
        /\ \A i \in 1 .. r.body : Data[i] = Mark("body", r)
    BY <1>1, <2>1, <2>2
  <2>. QED
    <3>1. \A i \in 1 .. Len(Data) : Data[i] = Body(r)[i]
      BY <2>3, <2>4
    <3>. QED
      BY <2>3, <2>4, <3>1, SeqEqual
<1>4. Len(buf') = Len(buf) /\ \A i \in (start' + 1) .. Len(buf') : buf'[i].kind = "body"
  <2>1. buf' = Terminated /\ Len(Terminated) = Len(buf)
    BY <1>2, TerminatedType DEF DoRequest
  <2>2. ASSUME NEW i \in (start' + 1) .. Len(buf)
        PROVE  Terminated[i].kind = "body"
    <3>1. i \in 1 .. Len(buf) /\ i # start' + conn.length + 1
      BY <1>1, <1>2
    <3>2. Terminated[i] = buf[i]
      BY <1>2, <3>1, TerminatedType
    <3>3. (i - start') \in 1 .. r.body /\ start' + (i - start') = i
      BY <1>1, <1>2
    <3>4. buf[i] = Mark("body", r)
      BY <1>1, <3>3
    <3>. QED
      BY <3>2, <3>4 DEF Mark
  <2>. QED
    BY <2>1, <2>2
<1>5. /\ at' = "parse" /\ conn' = [Fresh EXCEPT !.token = conn.token, !.keep = conn.keep]
      /\ \/ out' = Answer(conn.post, conn.url, Data, conn.token, conn.keep)
         \/ NotOpened
  <2>1. conn.url # "null"
    BY <1>0, <1>1, RequestType
  <2>. QED
    BY <1>0, <2>1 DEF DoRequest
<1>6. conn'.keep = r.keep
  BY <1>1, <1>5 DEF Fresh
<1>7. UNCHANGED <<asked, unsent, net, replies>>
  BY <1>0 DEF NextLine, client
<1>8. AsAsked' /\ asked' # <<>> /\ Last(asked') = r
  BY <1>5, <1>7 DEF AsAsked, Asking
<1>9. Len(asked) = Len(replies) + 1 /\ out = NoReply
  BY DEF Asking, Reading
<1>10. CASE out' = Answer(conn.post, conn.url, Data, conn.token, conn.keep)
  <2>1. out' = Expected(r)
    BY <1>1, <1>3, <1>10 DEF Expected
  <2>2. Served(r)'
    BY <1>1, <1>4, <1>5, <1>6, <1>7, <1>9, <2>1 DEF Served
  <2>. QED
    BY <1>8, <2>2 DEF Orderly
<1>11. CASE NotOpened
  <2>1. out' = NoReply /\ unopened'
    BY <1>9, <1>11 DEF NotOpened, Spoilt, NoReply
  <2>2. Unanswered'
    BY <1>1, <1>4, <1>5, <1>7, <1>9, <2>1 DEF Unanswered
  <2>. QED
    BY <1>8, <2>2 DEF Orderly
<1>. QED
  BY <1>5, <1>10, <1>11

LEMMA DoneOrderly ==
  ASSUME TypeInv, NEW r, NEW k, Asking(r, k), ParseDone
  PROVE  Orderly'
<1>0. /\ r \in Requests /\ k \in Nat /\ Reading(r, k) /\ at = "parse" /\ ~HasLine
      /\ conn = Parsed(r, k) /\ UNCHANGED <<client, net, out, replies>>
  BY DEF Asking, ParseDone, Reading
<1>1. /\ Len(buf) \in Nat /\ start \in Nat /\ start <= Len(buf) /\ buf \in Seq(Marks)
      /\ BlankOf(r) \in Nat /\ BlankOf(r) >= 2 /\ r.body \in Nat
      /\ Len(Lines(r)) = BlankOf(r) + r.body /\ k + 1 <= BlankOf(r)
  <2>1. Len(buf) \in Nat /\ start \in Nat /\ start <= Len(buf) /\ buf \in Seq(Marks)
    BY Streams DEF TypeInv
  <2>2. /\ BlankOf(r) \in Nat /\ BlankOf(r) >= 2 /\ r.body \in Nat
        /\ Len(Lines(r)) = BlankOf(r) + r.body
    BY <1>0, LinesFacts, RequestType
  <2>3. k \in 0 .. (BlankOf(r) - 1)
    BY <1>0 DEF Reading
  <2>4. k + 1 <= BlankOf(r)
    BY <2>2, <2>3
  <2>. QED
    BY <2>1, <2>2, <2>4
<1>2. BearsCut(r)
  <2>1. ASSUME Together(k) PROVE FALSE
    <3>1. Len(net) = 0 /\ Len(unsent) = 0 /\ Unread \in Nat
      BY <1>0, <1>1, <2>1, EmptySeq DEF Together, Unread
    <3>2. k + Unread + Len(net) + Len(unsent) = Len(Lines(r))
      BY <1>0 DEF Reading, Pending
    <3>3. Unread >= 1 /\ 1 \in 1 .. Unread
      BY <1>0, <1>1, <3>1, <3>2
    <3>4. start + 1 \in (start + 1) .. Len(buf) /\ start + 1 \in 1 .. Len(buf)
      BY <1>1, <3>3 DEF Unread
    <3>5. buf[start + 1] = Lines(r)[k + 1]
      BY <1>0, <3>3 DEF Reading, Pending
    <3>6. Lines(r)[k + 1].kind \notin {"body", "nul"}
      BY <1>0, HeadKinds DEF Reading
    <3>7. start + 1 \in Ends
      BY <3>4, <3>5, <3>6 DEF Ends
    <3>8. Min(Ends) = start + 1
      <4>1. Ends \in SUBSET Nat /\ \A i \in Ends : start + 1 <= i
        BY <1>1 DEF Ends
      <4>2. Min(Ends) \in Ends /\ \A i \in Ends : Min(Ends) <= i
        BY <3>7, <4>1, MinFacts
      <4>3. Min(Ends) \in Nat /\ Min(Ends) <= start + 1 /\ start + 1 <= Min(Ends)
        BY <3>7, <4>1, <4>2
      <4>. QED
        BY <1>1, <4>3
    <3>. QED
      BY <1>0, <3>5, <3>6, <3>7, <3>8 DEF HasLine
  <2>. QED
    BY <1>0, <2>1 DEF Reading
<1>3. conn' = conn
  <2>1. conn.url \in {"null", "root"} /\ conn.token = "null"
    <3>1. CASE k = 0
      BY <1>0, <3>1 DEF Parsed, Fresh
    <3>2. CASE k # 0
      <4>1. r.url = "root" /\ ~r.auth
        BY <1>2 DEF BearsCut
      <4>2. ~Seen(Lines(r), k, "auth")
        <5>1. ~Seen(Lines(r), BlankOf(r) - 1, "auth")
          BY <1>0, <4>1, LinesFacts
        <5>2. \A i \in 1 .. k : i \in 1 .. (BlankOf(r) - 1)
          BY <1>0, <1>1
        <5>. QED
          BY <5>1, <5>2 DEF Seen
      <4>3. conn.url = r.url /\ conn.token = IF Seen(Lines(r), k, "auth") THEN "held" ELSE "null"
        BY <1>0, <3>2 DEF Parsed
      <4>. QED
        BY <4>1, <4>2, <4>3
    <3>. QED
      BY <3>1, <3>2
  <2>2. Moved(conn.url) = conn.url /\ Moved(conn.token) = conn.token
    BY <2>1 DEF Moved
  <2>3. conn \in Parsers
    BY DEF TypeInv
  <2>. QED
    BY <2>2, <2>3 DEF ParseDone, Parsers
<1>4. at' = "in"
  BY <1>0 DEF ParseDone, Reading
<1>5. /\ start' = 0 /\ Len(buf') = Unread
      /\ \A i \in 1 .. Unread : buf'[i] = buf[start + i]
  BY <1>1, RestOf DEF ParseDone, Unread
<1>6. Pending(r, k)'
  <2>1. Unread \in Nat /\ Unread' = Unread
    BY <1>1, <1>5 DEF Unread
  <2>2. \A i \in 1 .. Unread : buf'[start' + i] = Lines(r)[k + i]
    <3>1. \A i \in 1 .. Unread : start' + i = i
      BY <1>5, <2>1
    <3>2. \A i \in 1 .. Unread : buf[start + i] = Lines(r)[k + i]
      BY <1>0 DEF Reading, Pending
    <3>. QED
      BY <1>5, <3>1, <3>2
  <2>3. UNCHANGED <<net, unsent>>
    BY <1>0 DEF client
  <2>. QED
    BY <1>0, <2>1, <2>2, <2>3 DEF Reading, Pending
<1>7. Reading(r, k)'
  BY <1>0, <1>2, <1>3, <1>4, <1>6 DEF Reading, client
<1>. QED
  BY <1>0, <1>7, ReadingOn DEF client

LEMMA ExpectedType ==
  ASSUME NEW r \in Requests
  PROVE  Expected(r) \in Contents /\ Expected(r).page # "broken"
<1>1. Body(r) \in Seq(Marks)
  BY RequestType, TimesFacts DEF Body, Kinds
<1>2. /\ r.post \in BOOLEAN /\ r.url \in Urls /\ r.keep \in BOOLEAN
      /\ (IF r.auth THEN "held" ELSE "null") \in Tokens
  BY RequestType DEF Urls, Tokens
<1>. QED
  BY <1>1, <1>2, AnswerType DEF Expected

\* The request is answered: what is left in the buffer is its body.
LEMMA ServedOrderly ==
  ASSUME TypeInv, TypeInv', NEW r \in Requests, asked # <<>>, r = Last(asked), Served(r), AsAsked, ServerStep
  PROVE  Orderly'
<1>0. /\ Len(asked) = Len(replies) + 1 /\ at \in {"parse", "out"}
      /\ out = Expected(r) /\ conn.keep = r.keep /\ net = <<>> /\ unsent = <<>>
      /\ \A i \in (start + 1) .. Len(buf) : buf[i].kind = "body"
  BY DEF Served
<1>1. Expected(r) # NoReply
  BY ExpectedType, ContentsAreReplies
<1>2. ~HasLine
  <2>1. Ends = {}
    BY <1>0 DEF Ends
  <2>. QED
    BY <2>1 DEF HasLine
<1>3. ParseDone \/ OnWritable
  BY <1>0, <1>2 DEF ServerStep, OnReadable, Drain, ParseRequestLine, ParseHeaders, DoRequest, NextLine
<1>4. CASE ParseDone
  <2>1. at' = "out" /\ UNCHANGED <<asked, unsent, net, replies, out>>
    BY <1>0, <1>1, <1>4 DEF ParseDone, client
  <2>2. conn'.keep = conn.keep
    <3>1. conn \in Parsers
      BY DEF TypeInv
    <3>. QED
      BY <1>4, <3>1 DEF ParseDone, Parsers
  <2>3. \A i \in (start' + 1) .. Len(buf') : buf'[i].kind = "body"
    <3>1. Len(buf) \in Nat /\ start \in Nat /\ start <= Len(buf) /\ buf \in Seq(Marks)
      BY Streams DEF TypeInv
    <3>2. /\ Len(buf') = Len(buf) - start /\ start' = 0
          /\ \A i \in 1 .. (Len(buf) - start) : buf'[i] = buf[start + i]
      BY <1>4, <3>1, RestOf DEF ParseDone
    <3>3. ASSUME NEW i \in 1 .. (Len(buf) - start)
          PROVE  buf'[i].kind = "body"
      <4>1. start + i \in (start + 1) .. Len(buf)
        BY <3>1
      <4>. QED
        BY <1>0, <3>2, <4>1
    <3>4. start' + 1 = 1
      BY <3>2
    <3>. QED
      BY <3>2, <3>3, <3>4
  <2>4. Served(r)'
    BY <1>0, <2>1, <2>2, <2>3 DEF Served
  <2>. QED
    BY <2>1, <2>4 DEF Orderly, AsAsked
<1>5. CASE OnWritable
  <2>1. /\ replies' = Append(replies, out) /\ at' \in {"in", "closed"}
        /\ UNCHANGED <<asked, unsent, net>> /\ buf' = <<>> /\ conn' = Fresh /\ out' = NoReply
    BY <1>5 DEF OnWritable, Wiped, client
  <2>2. /\ Len(replies) \in Nat /\ DOMAIN replies = 1 .. Len(replies)
        /\ Len(asked) \in Nat /\ replies \in Seq(Contents) /\ out \in Contents
    BY <1>0, <1>1, Streams DEF TypeInv
  <2>3. /\ Len(replies') = Len(asked) /\ DOMAIN replies' = 1 .. Len(asked)
        /\ replies'[Len(asked)] = out
        /\ \A i \in 1 .. Len(replies) : replies'[i] = replies[i]
    <3>1. /\ Append(replies, out) \in Seq(Contents)
          /\ Len(Append(replies, out)) = Len(replies) + 1
          /\ \A i \in 1 .. Len(replies) : Append(replies, out)[i] = replies[i]
          /\ Append(replies, out)[Len(replies) + 1] = out
      BY <2>2, AppendProperties
    <3>2. DOMAIN Append(replies, out) = 1 .. Len(Append(replies, out))
      BY <3>1, LenProperties
    <3>. QED
      BY <1>0, <2>1, <3>1, <3>2
  <2>4. ASSUME NEW i \in DOMAIN replies'
        PROVE  i <= Len(asked') /\ replies'[i] = Expected(asked'[i])
    <3>1. i \in 1 .. Len(asked) /\ asked' = asked
      BY <2>1, <2>3
    <3>2. CASE i = Len(asked)
      <4>1. asked[i] = r
        BY <3>2, LastAsked
      <4>. QED
        BY <1>0, <2>2, <2>3, <3>1, <3>2, <4>1
    <3>3. CASE i # Len(asked)
      <4>1. i \in 1 .. Len(replies)
        BY <1>0, <2>2, <3>1, <3>3
      <4>2. replies[i] = Expected(asked[i])
        BY <2>2, <4>1 DEF AsAsked
      <4>. QED
        BY <2>2, <2>3, <3>1, <4>1, <4>2
    <3>. QED
      BY <3>2, <3>3
  <2>5. AsAsked'
    BY <2>1, <2>4 DEF AsAsked
  <2>6. at' = "in" => Waiting'
    BY <1>0, <2>1, <2>3 DEF Waiting
  <2>. QED
    BY <2>1, <2>5, <2>6 DEF Orderly
<1>. QED
  BY <1>3, <1>4, <1>5

\* No file could be opened: the loop ends, and the connection is armed to read.
LEMMA UnansweredOrderly ==
  ASSUME TypeInv, asked # <<>>, Unanswered, AsAsked, ServerStep
  PROVE  Orderly' /\ ParseDone
<1>1. at = "parse" /\ \A i \in (start + 1) .. Len(buf) : buf[i].kind = "body"
  BY DEF Unanswered, ServerStep, OnReadable, Drain, ParseRequestLine, ParseHeaders, DoRequest,
         NextLine, ParseDone, OnWritable
<1>2. ~HasLine
  <2>1. Ends = {}
    BY <1>1 DEF Ends
  <2>. QED
    BY <2>1 DEF HasLine
<1>3. ParseDone
  BY <1>1, <1>2 DEF ServerStep, OnReadable, Drain, ParseRequestLine, ParseHeaders, DoRequest,
                    NextLine, OnWritable
<1>4. at' = "in" /\ UNCHANGED <<asked, unsent, net, replies, out, unopened>>
  BY <1>3 DEF ParseDone, Unanswered, client
<1>5. Unanswered'
  BY <1>4 DEF Unanswered
<1>6. AsAsked'
  BY <1>4 DEF AsAsked
<1>. QED
  BY <1>3, <1>4, <1>5, <1>6 DEF Orderly

\* A connection that waits or is closed has nothing for the server to do.
LEMMA QuietOrderly ==
  ASSUME TypeInv, at = "closed" \/ Waiting, AsAsked, ServerStep
  PROVE  FALSE
BY DEF Waiting, ServerStep, OnReadable, Drain, ParseRequestLine, ParseHeaders, DoRequest,
       NextLine, ParseDone, OnWritable

LEMMA InitInv == Init => IInv
<1>. SUFFICES ASSUME Init PROVE IInv
  OBVIOUS
<1>1. TypeInv
  BY InitTypes
<1>2. Waiting /\ AsAsked
  BY EmptySeq DEF Init, Waiting, AsAsked
<1>. QED
  BY <1>1, <1>2 DEF IInv, Orderly

LEMMA StepInv == IInv /\ [Next]_vars => IInv'
<1>. SUFFICES ASSUME IInv, [Next]_vars
              PROVE  IInv'
  OBVIOUS
<1>1. TypeInv /\ TypeInv'
  BY StepTypes DEF IInv
<1>2. piped \in BOOLEAN /\ cut \in BOOLEAN /\ ((~piped /\ ~cut) => Orderly)
  BY <1>1 DEF TypeInv, IInv
<1>. SUFFICES ASSUME ~piped', ~cut'
              PROVE  Orderly'
  BY <1>1 DEF IInv
<1>3. CASE UNCHANGED vars
  <2>1. ~piped /\ ~cut
    BY <1>3 DEF vars
  <2>. QED
    BY <1>2, <1>3, <2>1 DEF vars, Orderly, AsAsked, Waiting, Reading, Served, Unanswered,
      Pending, Unread, Together
<1>4. CASE Next
  <2>1. ~piped /\ ~cut
    <3>1. ASSUME ServerStep PROVE ~piped /\ ~cut
      <4>1. UNCHANGED client
        BY <3>1 DEF ServerStep, OnReadable, Drain, ParseRequestLine, ParseHeaders, DoRequest,
                    NextLine, ParseDone, OnWritable
      <4>. QED
        BY <4>1 DEF client
    <3>2. ASSUME NEW r \in Requests, Ask(r) PROVE ~piped /\ ~cut
      BY <3>2, Zenon DEF Ask
    <3>3. ASSUME NEW n, Send(n) PROVE ~piped /\ ~cut
      BY <3>3, Zenon DEF Send
    <3>. QED
      BY <1>4, <3>1, <3>2, <3>3 DEF Next, ClientStep
  <2>2. Orderly /\ AsAsked
    BY <1>2, <2>1 DEF Orderly
  <2>3. ASSUME asked # <<>> PROVE Last(asked) \in Requests
    BY <1>1, <2>3, LastAsked
  <2>4. ASSUME NEW r \in Requests, Ask(r)
        PROVE  Orderly'
    BY <1>1, <2>2, <2>4, AskOrderly
  <2>5. ASSUME NEW n, Send(n)
        PROVE  Orderly'
    <3>1. at # "closed" /\ unsent # <<>>
      BY <1>1, <2>5, Streams, EmptySeq DEF Send
    <3>2. PICK k \in Nat : asked # <<>> /\ Reading(Last(asked), k)
      BY <2>2, <3>1 DEF Orderly, Waiting, Served, Unanswered
    <3>3. Asking(Last(asked), k)
      BY <2>2, <2>3, <3>2 DEF Asking
    <3>. QED
      BY <1>1, <2>5, <3>3, SendOrderly
  <2>6. CASE ServerStep
    <3>1. CASE at = "closed" \/ Waiting
      BY <1>1, <2>2, <2>6, <3>1, QuietOrderly
    <3>2. CASE asked # <<>> /\ Served(Last(asked))
      BY <1>1, <2>2, <2>3, <2>6, <3>2, ServedOrderly
    <3>3. CASE asked # <<>> /\ Unanswered
      BY <1>1, <2>2, <2>6, <3>3, UnansweredOrderly
    <3>4. ASSUME asked # <<>>, NEW k \in Nat, Reading(Last(asked), k)
          PROVE  Orderly'
      <4>. DEFINE r == Last(asked)
      <4>1. Asking(r, k)
        BY <2>2, <2>3, <3>4 DEF Asking
      <4>. HIDE DEF r
      <4>2. at # "out"
        BY <4>1 DEF Asking, Reading
      <4>3. CASE OnReadable
        BY <1>1, <4>1, <4>3, OnReadableOrderly
      <4>4. CASE Drain
        BY <1>1, <4>1, <4>4, DrainOrderly
      <4>5. CASE ParseRequestLine
        BY <1>1, <4>1, <4>5, RequestLineOrderly
      <4>6. CASE ParseHeaders
        BY <1>1, <4>1, <4>6, HeadersOrderly
      <4>7. CASE DoRequest
        BY <1>1, <4>1, <4>7, DoRequestOrderly
      <4>8. CASE ParseDone
        BY <1>1, <4>1, <4>8, DoneOrderly
      <4>. QED
        BY <2>6, <4>2, <4>3, <4>4, <4>5, <4>6, <4>7, <4>8 DEF ServerStep, OnWritable
    <3>. QED
      BY <2>2, <3>1, <3>2, <3>3, <3>4 DEF Orderly
  <2>. QED
    BY <1>4, <2>4, <2>5, <2>6 DEF Next, ClientStep
<1>. QED
  BY <1>3, <1>4

(* A client that waits for each reply, and does not send in pieces what    *)
(* http_conn keeps pointers into, is answered as it asked, whatever it asks *)
(* and however small the buffer: no body, flag, token or line of a request *)
(* is taken for part of the next (http_conn.cpp 28-55, 117-177).           *)
THEOREM AnswersAreAsAsked == Spec => []AnsweredAsAsked
<1>1. IInv => AnsweredAsAsked
  BY DEF IInv, Orderly, AnsweredAsAsked
<1>. QED
  BY <1>1, InitInv, StepInv, PTL DEF Spec

-----------------------------------------------------------------------------
(* What a polite client is promised.                                       *)

\* A connection is closed before the reply only if the request does not fit.
LEMMA ClosedTooBig ==
  ASSUME TypeInv, NEW r, NEW k, Asking(r, k), OnReadable, ReadFails
  PROVE  Len(Lines(r)) > READ_BUFFER_SIZE
<1>1. /\ k + Unread + Len(net) + Len(unsent) = Len(Lines(r)) /\ k \in Nat
      /\ at = "in" /\ net # <<>>
  BY DEF Asking, Reading, Pending, OnReadable
<1>2. /\ Len(buf) \in Nat /\ Len(net) \in Nat /\ Len(unsent) \in Nat
      /\ start = 0 /\ READ_BUFFER_SIZE \in Nat
  BY <1>1, Streams, HttpAssumption DEF TypeInv
<1>3. Len(net) # 0
  BY <1>1, EmptySeq DEF TypeInv
<1>4. READ_BUFFER_SIZE - Len(buf) <= 0 \/ Len(net) > READ_BUFFER_SIZE - Len(buf)
  BY DEF ReadFails, Room
<1>. QED
  BY <1>1, <1>2, <1>3, <1>4 DEF Unread

\* Every step of the server is one of Exchange, or invisible to it.
LEMMA ServerImplements ==
  ASSUME TypeInv, Orderly, Orderly', ServerStep, ~piped, ~cut
  PROVE  E!Reply \/ E!Refuse \/ UNCHANGED E!vars
<1>0. UNCHANGED <<asked, piped, cut>>
  BY DEF ServerStep, OnReadable, Drain, ParseRequestLine, ParseHeaders, DoRequest,
         NextLine, ParseDone, OnWritable, client
<1>1. at' # "crashed" /\ AsAsked
  BY DEF Orderly, AsAsked
<1>2. /\ asked # <<>>
      /\ Served(Last(asked)) \/ Unanswered \/ \E k \in Nat : Reading(Last(asked), k)
  BY QuietOrderly DEF Orderly
<1>. DEFINE r == Last(asked)
<1>3. r \in Requests /\ r = asked[Len(asked)] /\ Len(asked) \in Nat /\ Len(replies) \in Nat
  BY <1>2, LastAsked, Streams
<1>4. Len(replies) < Len(asked) /\ at \notin {"closed", "crashed"}
  BY <1>2, <1>3 DEF Served, Unanswered, Reading
<1>. HIDE DEF r
<1>5. CASE OnWritable
  <2>1. Served(r) /\ at = "out"
    BY <1>2, <1>5 DEF Reading, Unanswered, OnWritable, r
  <2>2. Expected(r).page # "broken"
    BY <1>3, ExpectedType
  <2>3. replies' = Append(replies, Expected(r)) /\ (at' \notin {"closed", "crashed"} <=> r.keep)
    BY <1>5, <2>1, <2>2 DEF Served, OnWritable
  <2>. QED
    BY <1>0, <1>3, <1>4, <2>3 DEF E!Reply, E!Due, E!Latest
<1>6. CASE OnReadable /\ ReadFails
  <2>1. PICK k \in Nat : Reading(r, k)
    BY <1>2, <1>6 DEF Served, Unanswered, OnReadable, r
  <2>2. Asking(r, k)
    BY <1>1, <1>2, <1>3, <2>1 DEF Asking, r
  <2>3. Len(Lines(r)) > READ_BUFFER_SIZE
    BY <1>6, <2>2, ClosedTooBig
  <2>4. ~(Len(Lines(r)) <= READ_BUFFER_SIZE)
    BY <1>3, <2>3, LinesFacts, HttpAssumption
  <2>5. at' = "closed" /\ replies' = replies
    BY <1>6 DEF OnReadable
  <2>. QED
    BY <1>0, <1>3, <1>4, <2>4, <2>5 DEF E!Refuse, E!Due, E!Latest
<1>7. CASE ~OnWritable /\ ~(OnReadable /\ ReadFails)
  <2>1. replies' = replies /\ at' # "closed"
    BY <1>4, <1>7 DEF ServerStep, OnReadable, Drain, ParseRequestLine, ParseHeaders, DoRequest,
                      NextLine, ParseDone
  <2>. QED
    BY <1>0, <1>1, <1>4, <2>1 DEF E!vars
<1>. QED
  BY <1>5, <1>6, <1>7

\* So is every step.
LEMMA StepExchange == IInv /\ IInv' /\ [Next]_vars => [E!Next]_E!vars
<1>. SUFFICES ASSUME IInv, IInv', [Next]_vars
              PROVE  [E!Next]_E!vars
  OBVIOUS
<1>1. CASE piped' \/ cut'
  BY <1>1 DEF E!Next
<1>2. CASE UNCHANGED vars
  BY <1>2 DEF vars, E!vars
<1>3. CASE ~piped' /\ ~cut' /\ Next
  <2>1. TypeInv /\ Orderly'
    BY <1>3 DEF IInv
  <2>2. ASSUME NEW r \in Requests, Ask(r)
        PROVE  E!Ask(r) 
    <3>1. ~piped /\ ~cut /\ Len(replies) = Len(asked)
      BY <1>3, <2>2, Zenon DEF Ask
    <3>2. Len(asked) \in Nat
      BY <2>1, Streams
    <3>. QED
      BY <1>3, <2>2, <3>1, <3>2 DEF Ask, E!Ask, E!Due
  <2>3. ASSUME NEW n, Send(n)
        PROVE  UNCHANGED E!vars
    <3>1. ~piped /\ ~cut
      BY <1>3, <2>3, Zenon DEF Send
    <3>. QED
      BY <1>3, <2>3, <3>1 DEF Send, E!vars
  <2>4. CASE ServerStep
    <3>1. UNCHANGED <<piped, cut>>
      BY <2>4 DEF ServerStep, OnReadable, Drain, ParseRequestLine, ParseHeaders, DoRequest,
                  NextLine, ParseDone, OnWritable, client
    <3>2. ~piped /\ ~cut /\ Orderly
      BY <1>3, <3>1 DEF IInv
    <3>. QED
      BY <2>1, <2>4, <3>2, ServerImplements DEF E!Next
  <2>. QED
    BY <1>3, <2>2, <2>3, <2>4 DEF Next, ClientStep, E!Next
<1>. QED
  BY <1>1, <1>2, <1>3

(* The connection of a client that waits for its replies is what Exchange  *)
(* promises: every request gets its own reply, the connection is kept or   *)
(* closed as it asked, and closed without a reply only for a request that  *)
(* is larger than the buffer (http_conn.cpp 410-415, 419-451; main.cpp     *)
(* 98-118, 129-142).                                                       *)
THEOREM Refinement == Spec => ImplementsExchange
<1>1. Init => E!Init
  BY DEF Init, E!Init
<1>. QED
  BY <1>1, InitInv, StepInv, StepExchange, PTL DEF Spec, ImplementsExchange, E!Spec
=============================================================================
