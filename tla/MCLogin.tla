------------------------------ MODULE MCLogin ------------------------------
(* Login with more workers than connections, so that they queue for them,  *)
(* and the tokens that successful logins are given, for names of up to     *)
(* three bytes from both ends of every group of bits that Base64 cuts off. *)
EXTENDS Login

MCNames == UNION {[1 .. n -> {1, 3, 15, 34, 63, 128, 240, 255}] : n \in 0 .. 3}

MCHmac(data) == <<Last(data), Len(data) % 64>>
=============================================================================
