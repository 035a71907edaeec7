----------------------------- MODULE Exchange ------------------------------
(***************************************************************************)
(* What src/src/http promises a client that waits for each reply before it *)
(* asks again: the reply to what it asked, the connection kept if it asked *)
(* for that and closed if not, and no closing before the reply but of a    *)
(* request that does not fit.  To a client gone loose, which does not wait *)
(* or cuts what must not be cut, nothing is promised.                      *)
(***************************************************************************)
EXTENDS Naturals, Sequences

CONSTANTS
  Requests,
  ReplyTo,          \* the reply that each request is to get
  Kept,             \* the requests that ask to keep the connection
  Fitting           \* the requests that the server has room for

VARIABLES asked, replies, open, loose

vars == <<asked, replies, open, loose>>

Init == asked = <<>> /\ replies = <<>> /\ open = TRUE /\ loose = FALSE

Due == Len(replies) < Len(asked)
Latest == asked[Len(asked)]

Ask(r) ==
  /\ open /\ ~Due
  /\ asked' = Append(asked, r)
  /\ UNCHANGED <<replies, open, loose>>

Reply ==
  /\ open /\ Due
  /\ replies' = Append(replies, ReplyTo[Latest])
  /\ open' = (Latest \in Kept)
  /\ UNCHANGED <<asked, loose>>

Refuse ==
  /\ open /\ Due /\ Latest \notin Fitting
  /\ open' = FALSE
  /\ UNCHANGED <<asked, replies, loose>>

Next == (\E r \in Requests : Ask(r)) \/ Reply \/ Refuse \/ loose'

Spec == Init /\ [][Next]_vars
=============================================================================
