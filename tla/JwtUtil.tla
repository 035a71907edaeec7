------------------------------ MODULE JwtUtil ------------------------------
(***************************************************************************)
(* src/src/utils/jwt_util.cpp: the token a login is answered with          *)
(* (http_conn.cpp 259) and what is read back out of it (302).              *)
(*                                                                         *)
(* A string is the sequence of its bytes; a character of Base64Url is the  *)
(* six bits it stands for, whichever of its two alphabets is used, and Dot *)
(* is none of them.  HMAC-SHA256 with the server's key is a constant.      *)
(***************************************************************************)
EXTENDS Integers, SequencesExt, FiniteSetsExt

CONSTANTS
  Hmac(_),          \* of a string of characters and dots: its Base64Url
  Names             \* the user names that are looked at

Byte == 0 .. 255
Sextet == 0 .. 63
Dot == 64
Quote == 34

At(s, i) == IF i \in DOMAIN s THEN s[i] ELSE 0

\* Three bytes to four characters, and what is left with zeros and no "=".
Base64UrlEncode(s) ==
  [k \in 1 .. (4 * Len(s) + 2) \div 3 |->
     LET g == 3 * ((k - 1) \div 4) IN
     CASE k % 4 = 1 -> At(s, g + 1) \div 4
       [] k % 4 = 2 -> (At(s, g + 1) % 4) * 16 + At(s, g + 2) \div 16
       [] k % 4 = 3 -> (At(s, g + 2) % 16) * 4 + At(s, g + 3) \div 64
       [] k % 4 = 0 -> At(s, g + 3) % 64]

\* Seeded bug: an incomplete group gives as many bytes as it has characters.
BytesOfAll(n) == n - n \div 4

Bytes(n) == (3 * n) \div 4

\* Stops at what is no character; sums are kept in unsigned char.
Base64UrlDecode(t) ==
  LET stops == {i \in DOMAIN t : t[i] \notin Sextet}
      n == IF stops = {} THEN Len(t) ELSE Min(stops) - 1
  IN [k \in 1 .. Bytes(n) |->
        LET g == 4 * ((k - 1) \div 3) IN
        CASE k % 3 = 1 -> ((At(t, g + 1) * 4) + ((At(t, g + 2) \div 16) % 4)) % 256
          [] k % 3 = 2 -> ((At(t, g + 2) % 16) * 16) + ((At(t, g + 3) \div 4) % 16)
          [] k % 3 = 0 -> (At(t, g + 3) % 4) * 64 + At(t, g + 4)]

JWT_HEADER ==      \* {"alg":"HS256","typ":"JWT"}
  <<123, 34, 97, 108, 103, 34, 58, 34, 72, 83, 50, 53, 54, 34, 44,
    34, 116, 121, 112, 34, 58, 34, 74, 87, 84, 34, 125>>
UserKey == <<34, 117, 115, 101, 114, 34, 58, 34>>     \* "user":"

\* {"user":"<username>"}
Payload(username) == <<123>> \o UserKey \o username \o <<Quote, 125>>

Signed(username) ==
  Base64UrlEncode(JWT_HEADER) \o <<Dot>> \o Base64UrlEncode(Payload(username))

Generate(username) == Signed(username) \o <<Dot>> \o Hmac(Signed(username))

ASSUME JwtAssumption ==
  \A s \in Names : s \in Seq(Byte) /\ Hmac(Signed(s)) \in Seq(Sextet)

NoUser == <<-1>>      \* Verify returns false

\* The name in the payload, from behind UserKey to the next quote.
UserIn(json) ==
  LET keys == {i \in 1 .. Len(json) - 7 : SubSeq(json, i, i + 7) = UserKey}
      from == Min(keys) + 8
      ends == {i \in from .. Len(json) : json[i] = Quote}
  IN IF keys = {} THEN NoUser
     ELSE IF ends = {} THEN NoUser
     ELSE SubSeq(json, from, Min(ends) - 1)

Verify(token) ==
  LET dots == {i \in DOMAIN token : token[i] = Dot}
      first_dot == Min(dots)
      second_dot == Max(dots)
  IN IF Cardinality(dots) < 2 THEN NoUser
     ELSE IF SubSeq(token, second_dot + 1, Len(token)) # Hmac(SubSeq(token, 1, second_dot - 1))
     THEN NoUser
     ELSE UserIn(Base64UrlDecode(SubSeq(token, first_dot + 1, second_dot - 1)))

\* What was encoded is decoded, whatever number of bytes is left over for the
\* last group, and a token names the user it was made for, if there is no quote
\* in the name, which would end it.
NamesComeBack ==
  \A s \in Names :
    /\ Base64UrlDecode(Base64UrlEncode(s)) = s
    /\ Quote \notin ToSet(s) => Verify(Generate(s)) = s
=============================================================================
