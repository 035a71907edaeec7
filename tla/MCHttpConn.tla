---------------------------- MODULE MCHttpConn -----------------------------
(* HttpConn with a file whose request fills the buffer, one whose request   *)
(* goes beyond it, a login with its body and a page for token holders.     *)
EXTENDS HttpConn

Get(url, keep, auth, other) ==
  [post |-> FALSE, url |-> url, keep |-> keep, auth |-> auth, other |-> other, body |-> 0]

MCRequests ==
  {Get("root", TRUE, FALSE, 3), Get("hello", TRUE, TRUE, 0), Get("hello", FALSE, FALSE, 0),
   Get("page", FALSE, FALSE, 5),
   [post |-> TRUE, url |-> "login", keep |-> TRUE, auth |-> FALSE, other |-> 0, body |-> 1]}
=============================================================================
