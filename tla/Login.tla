------------------------------- MODULE Login -------------------------------
(***************************************************************************)
(* http_conn::verify_login (http_conn.cpp 453-536) as the workers of the   *)
(* pool run it: a password is looked for in Redis, through a connection of *)
(* the thread's own that is made again after an error, and then in MySQL,  *)
(* through one of the few connections of SqlConnPool; a password that MySQL *)
(* confirms is left in Redis for half an hour.                             *)
(***************************************************************************)
EXTENDS JwtUtil, FiniteSets

CONSTANTS
  Workers,
  MySQLs,         \* the connections of SqlConnPool
  Users, Passwords, NoPassword,
  TTL,            \* of a cached password, in ticks
  MaxChanges      \* bound: passwords changed in MySQL

NoMySQL == "nullptr"

ASSUME LoginAssumption ==
  /\ IsFiniteSet(Workers) /\ IsFiniteSet(MySQLs) /\ MySQLs # {}
  /\ NoMySQL \notin MySQLs
  /\ TTL \in Nat \ {0} /\ MaxChanges \in Nat
  /\ NoPassword \notin Passwords

VARIABLES
  connQue_,       \* the idle connections to MySQL
  pc,             \* where each worker is in verify_login
  mysql,          \* the connection in each worker's hand, or NoMySQL
  arg,            \* [name, pwd]: what it was asked, then what MySQL said
  redis_conn,     \* its connection to Redis: "none" (or err), "ok" or "cut"
  redisUp,
  cache, ttl,     \* the password Redis holds for each user, and for how long
  passwd,         \* column of the table in MySQL
  changes         \* how often it was changed

vars == <<connQue_, pc, mysql, arg, redis_conn, redisUp, cache, ttl, passwd, changes>>
redisVars == <<redis_conn, redisUp, cache, ttl>>
worldVars == <<passwd, changes>>

NoLogin == [name |-> "nobody", pwd |-> NoPassword]
Asleep == {w \in Workers : pc[w] = "asleep"}

Init ==
  /\ connQue_ = SetToSeq(MySQLs)
  /\ pc = [w \in Workers |-> "idle"]
  /\ mysql = [w \in Workers |-> NoMySQL]
  /\ arg = [w \in Workers |-> NoLogin]
  /\ redis_conn = [w \in Workers |-> "none"]
  /\ redisUp = TRUE
  /\ cache = [u \in Users |-> NoPassword]
  /\ ttl = [u \in Users |-> 0]
  /\ passwd \in [Users -> Passwords]
  /\ changes = 0

Goto(w, where) == pc' = [pc EXCEPT ![w] = where]

VerifyLogin(w, name, pwd) ==
  /\ pc[w] = "idle"
  /\ arg' = [arg EXCEPT ![w] = [name |-> name, pwd |-> pwd]]
  /\ Goto(w, "redis")
  /\ UNCHANGED <<connQue_, mysql, redisVars, worldVars>>

-----------------------------------------------------------------------------
(* Redis.                                                                  *)

\* redisConnect, where there is no connection or one with an error.
Connected(w) ==
  IF redis_conn[w] = "none" /\ redisUp THEN "ok" ELSE redis_conn[w]

\* A command on a connection that was cut fails and marks it.
Used(c) == IF c = "ok" THEN "ok" ELSE "none"

\* Seeded bug: a password that is asked for is kept longer.
Renewed(name) == [ttl EXCEPT ![name] = TTL]

Untouched(name) == ttl

Hit(w) == Used(Connected(w)) = "ok" /\ cache[arg[w].name] # NoPassword

\* redisCommand(GET): a hit decides, anything else goes on to MySQL.
AskRedis(w) ==
  /\ pc[w] = "redis"
  /\ redis_conn' = [redis_conn EXCEPT ![w] = Used(Connected(w))]
  /\ ttl' = IF Hit(w) THEN Untouched(arg[w].name) ELSE ttl
  /\ Goto(w, IF Hit(w) THEN "idle" ELSE "get")
  /\ arg' = IF Hit(w) THEN [arg EXCEPT ![w] = NoLogin] ELSE arg
  /\ UNCHANGED <<connQue_, mysql, redisUp, cache, worldVars>>

\* redisCommand(SETEX), unless the connection has an error already.
SetEx(w) ==
  /\ pc[w] = "setex"
  /\ LET c == redis_conn[w] name == arg[w].name IN
       /\ redis_conn' = [redis_conn EXCEPT ![w] = Used(c)]
       /\ IF c = "ok" THEN /\ cache' = [cache EXCEPT ![name] = arg[w].pwd]
                           /\ ttl' = [ttl EXCEPT ![name] = TTL]
                      ELSE UNCHANGED <<cache, ttl>>
  /\ Goto(w, "free")
  /\ UNCHANGED <<connQue_, mysql, arg, redisUp, worldVars>>

\* Redis goes down and comes back, with what it held; connections are cut.
RedisFails ==
  /\ redisUp
  /\ redisUp' = FALSE
  /\ redis_conn' = [w \in Workers |-> IF redis_conn[w] = "ok" THEN "cut" ELSE redis_conn[w]]
  /\ UNCHANGED <<connQue_, pc, mysql, arg, cache, ttl, worldVars>>

RedisReturns ==
  /\ ~redisUp
  /\ redisUp' = TRUE
  /\ UNCHANGED <<connQue_, pc, mysql, arg, redis_conn, cache, ttl, worldVars>>

\* Half an hour in TTL ticks, whether Redis is up or not.
Tick ==
  /\ \E u \in Users : ttl[u] > 0
  /\ ttl' = [u \in Users |-> IF ttl[u] > 0 THEN ttl[u] - 1 ELSE 0]
  /\ cache' = [u \in Users |-> IF ttl'[u] = 0 THEN NoPassword ELSE cache[u]]
  /\ UNCHANGED <<connQue_, pc, mysql, arg, redis_conn, redisUp, worldVars>>

-----------------------------------------------------------------------------
(* MySQL.                                                                  *)

\* Seeded bug: the connection is looked at and left in the queue.
Peeked == connQue_

Popped == Tail(connQue_)

\* SqlConnRAII's constructor: cond_.wait while the queue is empty.
GetConnection(w) ==
  /\ pc[w] = "get"
  /\ IF connQue_ = <<>>
     THEN Goto(w, "asleep") /\ UNCHANGED <<connQue_, mysql>>
     ELSE /\ mysql' = [mysql EXCEPT ![w] = Head(connQue_)]
          /\ connQue_' = Popped
          /\ Goto(w, "query")
  /\ UNCHANGED <<arg, redisVars, worldVars>>

SpuriousWake(w) ==
  /\ pc[w] = "asleep"
  /\ Goto(w, "get")
  /\ UNCHANGED <<connQue_, mysql, arg, redisVars, worldVars>>

\* Seeded bug: a user who has a row is let in.
Found(row, pwd) == row # NoPassword

Matches(row, pwd) == row = pwd

\* mysql_query finds the user's row, or fails: the connection may have died,
\* and nobody looks whether it has, or makes it again.
Query(w) ==
  /\ pc[w] = "query"
  /\ \E row \in {passwd[arg[w].name], NoPassword} :
       Goto(w, IF Matches(row, arg[w].pwd) THEN "setex" ELSE "free")
  /\ UNCHANGED <<connQue_, mysql, arg, redisVars, worldVars>>

\* Seeded bug: whoever waits is not told.
TellNobody(w) == Goto(w, "idle")

\* cond_.notify_one()
NotifyOne(w) ==
  IF Asleep = {} THEN Goto(w, "idle")
  ELSE \E v \in Asleep : pc' = [pc EXCEPT ![w] = "idle", ![v] = "get"]

\* SqlConnRAII's destructor.
FreeConnection(w) ==
  /\ pc[w] = "free"
  /\ connQue_' = Append(connQue_, mysql[w])
  /\ mysql' = [mysql EXCEPT ![w] = NoMySQL]
  /\ arg' = [arg EXCEPT ![w] = NoLogin]
  /\ NotifyOne(w)
  /\ UNCHANGED <<redisVars, worldVars>>

ChangePassword(u, p) ==
  /\ changes < MaxChanges /\ p # passwd[u]
  /\ passwd' = [passwd EXCEPT ![u] = p]
  /\ changes' = changes + 1
  /\ UNCHANGED <<connQue_, pc, mysql, arg, redisVars>>

-----------------------------------------------------------------------------
WorkerStep(w) == AskRedis(w) \/ GetConnection(w) \/ Query(w) \/ SetEx(w) \/ FreeConnection(w)

Environment ==
  \/ \E u \in Users, p \in Passwords : ChangePassword(u, p) \/ \E w \in Workers : VerifyLogin(w, u, p)
  \/ RedisFails \/ RedisReturns \/ Tick
  \/ \E w \in Workers : SpuriousWake(w)

Next == Environment \/ \E w \in Workers : WorkerStep(w)

\* Threads are scheduled and time passes; nobody has to log in, and Redis
\* may stay away.
Spec == Init /\ [][Next]_vars /\ WF_vars(Tick) /\ \A w \in Workers : WF_vars(WorkerStep(w))

-----------------------------------------------------------------------------
InHand == {w \in Workers : mysql[w] # NoMySQL}

TypeOK ==
  /\ connQue_ \in Seq(MySQLs) /\ Len(connQue_) <= Cardinality(MySQLs)
  /\ pc \in [Workers -> {"idle", "redis", "get", "asleep", "query", "setex", "free"}]
  /\ mysql \in [Workers -> MySQLs \cup {NoMySQL}]
  /\ arg \in [Workers -> [name : Users, pwd : Passwords] \cup {NoLogin}]
  /\ redis_conn \in [Workers -> {"none", "ok", "cut"}]
  /\ redisUp \in BOOLEAN
  /\ cache \in [Users -> Passwords \cup {NoPassword}]
  /\ ttl \in [Users -> 0 .. TTL]
  /\ passwd \in [Users -> Passwords]
  /\ changes \in 0 .. MaxChanges

(* A connection is in the queue or in one worker's hand, whatever way it   *)
(* leaves verify_login: two threads never talk over the same MYSQL*, and   *)
(* none is lost (sql_connection_pool.cpp 45-54; http_conn.cpp 496-536).    *)
OneHolder ==
  /\ IsInjective(connQue_)
  /\ \A w \in InHand : mysql[w] \notin ToSet(connQue_)
  /\ \A v, w \in InHand : mysql[v] = mysql[w] => v = w
  /\ Len(connQue_) + Cardinality(InHand) = Cardinality(MySQLs)

(* Nobody sleeps in GetConnection beside an idle connection that no other  *)
(* worker has been woken for (sql_connection_pool.cpp 41-54).              *)
NoLostWakeup ==
  Asleep # {} => Len(connQue_) <= Cardinality({w \in Workers : pc[w] = "get"})

(* Every login is decided, with fewer connections than workers and Redis   *)
(* gone at any moment: unless more come for ever (who has been woken may   *)
(* find the connection taken, each time), all workers are idle in the end. *)
LoginsEnd ==
  []<>(\E w \in Workers : pc[w] = "redis") \/ <>[](\A w \in Workers : pc[w] = "idle")

\* The passwords with which u may be let in, now or by what is under way.
Good(u) ==
  ({passwd[u], cache[u]} \ {NoPassword})
    \cup {arg[w].pwd : w \in {v \in Workers : pc[v] = "setex" /\ arg[v].name = u}}

(* A password that has been changed in MySQL and that neither the cache nor *)
(* a login under way still holds never comes back: the cache is filled with *)
(* what MySQL confirmed and nothing else (http_conn.cpp 474-521).           *)
OldOnesStayAway ==
  [][\A u \in Users : Good(u)' \subseteq Good(u) \cup {passwd'[u]}]_vars

(* A changed password is let in out of the cache for a while; but however  *)
(* often it is tried, it fades (http_conn.cpp 476-486, 518).               *)
OldOnesFade == \A u \in Users : <>[](Good(u) \subseteq {passwd[u]})

(* Whoever is let in, under a name without a quote, gets a token from which *)
(* the page for token holders reads that name: the bits of every byte come *)
(* back out of Base64, whatever is left over for its last group of three.  *)
(* A quote ends the name that is read (http_conn.cpp 259, 302; jwt_util.cpp *)
(* 12-67, 94-158).                                                         *)
TokenNamesItsUser == (\E w \in Workers : pc[w] = "setex") => NamesComeBack
=============================================================================
