---------------------------- MODULE LoginProofs ----------------------------
(***************************************************************************)
(* Proofs about Login for any number of workers and connections, and any   *)
(* users and passwords.                                                    *)
(***************************************************************************)
EXTENDS Login, TLAPS, FiniteSetTheorems, SequenceTheorems

-----------------------------------------------------------------------------
(* Facts about queues without repetition.                                  *)

(* The first element of the queue is nowhere else in it.                   *)
LEMMA HeadGoes ==
  ASSUME NEW S, NEW s \in Seq(S), s # <<>>, IsInjective(s)
  PROVE  /\ Head(s) \in S /\ Head(s) \in ToSet(s) /\ Head(s) \notin ToSet(Tail(s))
         /\ Tail(s) \in Seq(S) /\ Len(Tail(s)) = Len(s) - 1
         /\ IsInjective(Tail(s)) /\ ToSet(Tail(s)) \subseteq ToSet(s)
<1>1. /\ Head(s) \in S /\ Tail(s) \in Seq(S) /\ Len(Tail(s)) = Len(s) - 1
      /\ \A i \in 1 .. Len(Tail(s)) : Tail(s)[i] = s[i + 1]
  BY HeadTailProperties
<1>2. /\ Len(s) \in Nat \ {0} /\ DOMAIN s = 1 .. Len(s) /\ DOMAIN Tail(s) = 1 .. (Len(s) - 1)
      /\ Head(s) = s[1]
  BY <1>1, LenProperties
<1>3. Head(s) \in ToSet(s)
  BY <1>2 DEF ToSet
<1>4. ToSet(Tail(s)) \subseteq ToSet(s)
  BY <1>1, <1>2 DEF ToSet
<1>5. IsInjective(Tail(s))
  BY <1>1, <1>2 DEF IsInjective
<1>6. Head(s) \notin ToSet(Tail(s))
  BY <1>1, <1>2 DEF ToSet, IsInjective
<1>. QED
  BY <1>1, <1>3, <1>4, <1>5, <1>6

(* What is put into the queue for the first time is in it once.            *)
LEMMA AppendNew ==
  ASSUME NEW S, NEW s \in Seq(S), NEW e \in S, IsInjective(s), e \notin ToSet(s)
  PROVE  /\ Append(s, e) \in Seq(S) /\ Len(Append(s, e)) = Len(s) + 1
         /\ IsInjective(Append(s, e)) /\ ToSet(Append(s, e)) = ToSet(s) \cup {e}
<1>1. /\ Append(s, e) \in Seq(S) /\ Len(Append(s, e)) = Len(s) + 1
      /\ \A i \in 1 .. Len(s) : Append(s, e)[i] = s[i]
      /\ Append(s, e)[Len(s) + 1] = e
  BY AppendProperties
<1>2. /\ Len(s) \in Nat /\ DOMAIN s = 1 .. Len(s)
      /\ DOMAIN Append(s, e) = 1 .. (Len(s) + 1)
  BY <1>1, LenProperties
<1>3. DOMAIN Append(s, e) = DOMAIN s \cup {Len(s) + 1}
  BY <1>2
<1>4. ToSet(Append(s, e)) = ToSet(s) \cup {e}
  BY <1>1, <1>2, <1>3 DEF ToSet
<1>5. IsInjective(Append(s, e))
  BY <1>1, <1>2, <1>3 DEF IsInjective, ToSet
<1>. QED
  BY <1>1, <1>4, <1>5

(* SetToSeq has each element of a finite set once (sql_connection_pool.cpp *)
(* 20-31 fills the queue so).                                              *)
LEMMA SeqOfAll ==
  ASSUME NEW S, IsFiniteSet(S)
  PROVE  /\ SetToSeq(S) \in Seq(S) /\ Len(SetToSeq(S)) = Cardinality(S)
         /\ IsInjective(SetToSeq(S))
<1>1. Cardinality(S) \in Nat /\ ExistsBijection(1 .. Cardinality(S), S)
  BY FS_CardinalityType
<1>2. \E f \in [1 .. Cardinality(S) -> S] : IsInjective(f)
  BY <1>1 DEF ExistsBijection, Bijection, Injection, IsInjective
<1>3. SetToSeq(S) \in [1 .. Cardinality(S) -> S] /\ IsInjective(SetToSeq(S))
  BY <1>2 DEF SetToSeq
<1>. QED
  BY <1>1, <1>3

-----------------------------------------------------------------------------
(* The inductive invariant: who holds a connection is between the          *)
(* constructor and the destructor of SqlConnRAII, and whoever is in        *)
(* verify_login was asked about some user and password.                    *)
Held ==
  \A w \in Workers : pc[w] \in {"query", "setex", "free"} <=> mysql[w] # NoMySQL
Asked ==
  \A w \in Workers : pc[w] # "idle" => arg[w] \in [name : Users, pwd : Passwords]

IInv == TypeOK /\ Held /\ Asked /\ OneHolder

LEMMA Hands ==
  IsFiniteSet(InHand) /\ Cardinality(InHand) \in Nat /\ Cardinality(MySQLs) \in Nat
<1>1. InHand \in SUBSET Workers
  BY DEF InHand
<1>. QED
  BY <1>1, LoginAssumption, FS_Subset, FS_CardinalityType

LEMMA InitInvariant == Init => IInv
<1>. SUFFICES ASSUME Init PROVE IInv
  OBVIOUS
<1>1. /\ connQue_ \in Seq(MySQLs) /\ Len(connQue_) = Cardinality(MySQLs)
      /\ IsInjective(connQue_)
  BY SeqOfAll, LoginAssumption DEF Init
<1>2. InHand = {}
  BY DEF Init, InHand
<1>3. OneHolder
  BY <1>1, <1>2, Hands, FS_EmptySet DEF OneHolder
<1>4. TypeOK
  <2>1. arg \in [Workers -> [name : Users, pwd : Passwords] \cup {NoLogin}]
    BY DEF Init
  <2>2. pc \in [Workers -> {"idle", "redis", "get", "asleep", "query", "setex", "free"}]
    BY DEF Init
  <2>3. mysql \in [Workers -> MySQLs \cup {NoMySQL}]
    BY DEF Init
  <2>4. redis_conn \in [Workers -> {"none", "ok", "cut"}] /\ redisUp \in BOOLEAN
    BY DEF Init
  <2>5. cache \in [Users -> Passwords \cup {NoPassword}] /\ passwd \in [Users -> Passwords]
    BY DEF Init
  <2>6. 0 \in 0 .. TTL /\ 0 \in 0 .. MaxChanges
    BY LoginAssumption
  <2>7. ttl \in [Users -> 0 .. TTL] /\ changes \in 0 .. MaxChanges
    BY <2>6 DEF Init
  <2>8. Len(connQue_) <= Cardinality(MySQLs)
    BY <1>1, Hands
  <2>. QED
    BY <1>1, <2>1, <2>2, <2>3, <2>4, <2>5, <2>7, <2>8 DEF TypeOK
<1>5. Held /\ Asked
  BY DEF Init, Held, Asked
<1>. QED
  BY <1>3, <1>4, <1>5 DEF IInv

(* Getting a connection takes it out of the queue into one hand.           *)
LEMMA TakenOnce ==
  ASSUME IInv, NEW w \in Workers, GetConnection(w), connQue_ # <<>>
  PROVE  OneHolder' /\ connQue_' \in Seq(MySQLs) /\ mysql'[w] \in MySQLs
<1>1. /\ connQue_ \in Seq(MySQLs) /\ IsInjective(connQue_)
      /\ mysql[w] = NoMySQL /\ mysql \in [Workers -> MySQLs \cup {NoMySQL}]
  BY DEF IInv, TypeOK, OneHolder, Held, GetConnection
<1>. DEFINE c == Head(connQue_)
<1>2. /\ c \in MySQLs /\ c \in ToSet(connQue_) /\ c \notin ToSet(Tail(connQue_))
      /\ Tail(connQue_) \in Seq(MySQLs) /\ Len(Tail(connQue_)) = Len(connQue_) - 1
      /\ IsInjective(Tail(connQue_)) /\ ToSet(Tail(connQue_)) \subseteq ToSet(connQue_)
  BY <1>1, HeadGoes
<1>3. connQue_' = Tail(connQue_) /\ mysql' = [mysql EXCEPT ![w] = c]
  BY DEF GetConnection, Popped
<1>4. InHand' = InHand \cup {w} /\ w \notin InHand
  BY <1>1, <1>2, <1>3, LoginAssumption DEF InHand
<1>5. Cardinality(InHand') = Cardinality(InHand) + 1
  BY <1>4, Hands, FS_AddElement
<1>6. Len(connQue_') + Cardinality(InHand') = Cardinality(MySQLs)
  BY <1>1, <1>2, <1>3, <1>5, Hands, LenProperties DEF IInv, OneHolder
<1>7. \A v \in InHand' : mysql'[v] \notin ToSet(connQue_')
  BY <1>1, <1>2, <1>3, <1>4 DEF IInv, OneHolder, InHand
<1>8. \A u, v \in InHand' : mysql'[u] = mysql'[v] => u = v
  BY <1>1, <1>2, <1>3, <1>4 DEF IInv, OneHolder, InHand
<1>. QED
  BY <1>1, <1>2, <1>3, <1>6, <1>7, <1>8 DEF OneHolder

(* Freeing it puts it back, and it was in no queue and no other hand.      *)
LEMMA ReturnedOnce ==
  ASSUME IInv, NEW w \in Workers, FreeConnection(w)
  PROVE  OneHolder' /\ connQue_' \in Seq(MySQLs)
<1>. DEFINE c == mysql[w]
<1>1. /\ connQue_ \in Seq(MySQLs) /\ IsInjective(connQue_) /\ w \in InHand
      /\ c \in MySQLs /\ c \notin ToSet(connQue_)
      /\ mysql \in [Workers -> MySQLs \cup {NoMySQL}]
  BY DEF IInv, TypeOK, OneHolder, Held, FreeConnection, InHand
<1>2. /\ Append(connQue_, c) \in Seq(MySQLs)
      /\ Len(Append(connQue_, c)) = Len(connQue_) + 1
      /\ IsInjective(Append(connQue_, c))
      /\ ToSet(Append(connQue_, c)) = ToSet(connQue_) \cup {c}
  BY <1>1, AppendNew
<1>3. connQue_' = Append(connQue_, c) /\ mysql' = [mysql EXCEPT ![w] = NoMySQL]
  BY DEF FreeConnection
<1>4. InHand' = InHand \ {w}
  BY <1>1, <1>3 DEF InHand
<1>5. Cardinality(InHand') = Cardinality(InHand) - 1
  BY <1>1, <1>4, Hands, FS_RemoveElement
<1>6. Len(connQue_') + Cardinality(InHand') = Cardinality(MySQLs)
  BY <1>1, <1>2, <1>3, <1>5, Hands, LenProperties DEF IInv, OneHolder
<1>7. \A v \in InHand' : mysql'[v] = mysql[v] /\ mysql[v] # c
  BY <1>1, <1>3, <1>4 DEF IInv, OneHolder, InHand
<1>8. \A v \in InHand' : mysql'[v] \notin ToSet(connQue_')
  BY <1>2, <1>3, <1>4, <1>7 DEF IInv, OneHolder
<1>9. \A u, v \in InHand' : mysql'[u] = mysql'[v] => u = v
  BY <1>4, <1>7 DEF IInv, OneHolder
<1>. QED
  BY <1>2, <1>3, <1>6, <1>8, <1>9 DEF OneHolder

(* A queue that is its own and complete is no longer than the pool.        *)
LEMMA QueueFits ==
  ASSUME OneHolder, connQue_ \in Seq(MySQLs)
  PROVE  Len(connQue_) <= Cardinality(MySQLs)
BY Hands, LenProperties DEF OneHolder

LEMMA NextInvariant == IInv /\ [Next]_vars => IInv'
<1>. SUFFICES ASSUME IInv, [Next]_vars
              PROVE  IInv'
  OBVIOUS
<1>. USE DEF Goto, redisVars, worldVars
<1>1. ASSUME UNCHANGED <<connQue_, mysql>>
      PROVE  OneHolder'
  BY <1>1 DEF IInv, OneHolder, InHand
<1>2. ASSUME NEW w \in Workers, NEW u \in Users, NEW p \in Passwords, VerifyLogin(w, u, p)
      PROVE  IInv'
  BY <1>1, <1>2 DEF VerifyLogin, IInv, TypeOK, Held, Asked
<1>3. ASSUME NEW w \in Workers, AskRedis(w)
      PROVE  IInv'
  <2>1. ttl' = ttl
    BY <1>3 DEF AskRedis, Untouched
  <2>2. redis_conn' \in [Workers -> {"none", "ok", "cut"}]
    BY <1>3 DEF AskRedis, Used, IInv, TypeOK
  <2>3. pc' \in [Workers -> {"idle", "redis", "get", "asleep", "query", "setex", "free"}]
    BY <1>3 DEF AskRedis, IInv, TypeOK
  <2>4. arg' \in [Workers -> [name : Users, pwd : Passwords] \cup {NoLogin}]
    BY <1>3 DEF AskRedis, IInv, TypeOK
  <2>5. TypeOK'
    BY <1>3, <2>1, <2>2, <2>3, <2>4 DEF AskRedis, IInv, TypeOK
  <2>6. Held' /\ Asked'
    BY <1>3 DEF AskRedis, IInv, TypeOK, Held, Asked
  <2>. QED
    BY <1>1, <1>3, <2>5, <2>6 DEF AskRedis, IInv
<1>4. ASSUME NEW w \in Workers, GetConnection(w)
      PROVE  IInv'
  <2>1. CASE connQue_ = <<>>
    BY <1>1, <1>4, <2>1 DEF GetConnection, IInv, TypeOK, Held, Asked
  <2>2. CASE connQue_ # <<>>
    <3>1. OneHolder' /\ connQue_' \in Seq(MySQLs) /\ mysql'[w] \in MySQLs
      BY <1>4, <2>2, TakenOnce
    <3>2. Len(connQue_') <= Cardinality(MySQLs)
      <4>1. (OneHolder /\ connQue_ \in Seq(MySQLs) => Len(connQue_) <= Cardinality(MySQLs))'
        BY QueueFits, PTL
      <4>. QED
        BY <3>1, <4>1
    <3>3. mysql' \in [Workers -> MySQLs \cup {NoMySQL}] /\ mysql'[w] # NoMySQL
      BY <1>4, <2>2, <3>1, LoginAssumption DEF GetConnection, IInv, TypeOK
    <3>4. TypeOK'
      BY <1>4, <2>2, <3>1, <3>2, <3>3 DEF GetConnection, IInv, TypeOK
    <3>5. Held' /\ Asked'
      BY <1>4, <2>2, <3>3 DEF GetConnection, IInv, TypeOK, Held, Asked
    <3>. QED
      BY <3>1, <3>4, <3>5 DEF IInv
  <2>. QED
    BY <2>1, <2>2
<1>5. ASSUME NEW w \in Workers, Query(w) \/ SpuriousWake(w)
      PROVE  IInv'
  BY <1>1, <1>5 DEF Query, SpuriousWake, IInv, TypeOK, Held, Asked
<1>6. ASSUME NEW w \in Workers, SetEx(w)
      PROVE  IInv'
  <2>1. arg[w] \in [name : Users, pwd : Passwords]
    BY <1>6 DEF SetEx, IInv, Asked
  <2>2. TTL \in 0 .. TTL
    BY LoginAssumption
  <2>3. /\ cache' \in [Users -> Passwords \cup {NoPassword}]
        /\ ttl' \in [Users -> 0 .. TTL]
    <3>1. CASE redis_conn[w] = "ok"
      BY <1>6, <2>1, <2>2, <3>1, ZenonT(60) DEF SetEx, IInv, TypeOK
    <3>2. CASE redis_conn[w] # "ok"
      BY <1>6, <3>2 DEF SetEx, IInv, TypeOK
    <3>. QED
      BY <3>1, <3>2
  <2>4. redis_conn' \in [Workers -> {"none", "ok", "cut"}]
    BY <1>6 DEF SetEx, Used, IInv, TypeOK
  <2>5. TypeOK'
    BY <1>6, <2>3, <2>4 DEF SetEx, IInv, TypeOK
  <2>6. Held' /\ Asked'
    BY <1>6 DEF SetEx, IInv, TypeOK, Held, Asked
  <2>. QED
    BY <1>1, <1>6, <2>5, <2>6 DEF SetEx, IInv
<1>7. ASSUME NEW w \in Workers, FreeConnection(w)
      PROVE  IInv'
  <2>1. OneHolder' /\ connQue_' \in Seq(MySQLs)
    BY <1>7, ReturnedOnce
  <2>2. Len(connQue_') <= Cardinality(MySQLs)
    <3>1. (OneHolder /\ connQue_ \in Seq(MySQLs) => Len(connQue_) <= Cardinality(MySQLs))'
      BY QueueFits, PTL
    <3>. QED
      BY <2>1, <3>1
  <2>3. /\ pc' \in [Workers -> {"idle", "redis", "get", "asleep", "query", "setex", "free"}]
        /\ pc'[w] = "idle"
        /\ \A v \in Workers \ {w} : pc'[v] = pc[v] \/ (pc[v] = "asleep" /\ pc'[v] = "get")
    BY <1>7 DEF FreeConnection, NotifyOne, Asleep, IInv, TypeOK
  <2>4. TypeOK'
    BY <1>7, <2>1, <2>2, <2>3 DEF FreeConnection, IInv, TypeOK
  <2>5. Held' /\ Asked'
    BY <1>7, <2>3 DEF FreeConnection, IInv, TypeOK, Held, Asked
  <2>. QED
    BY <2>1, <2>4, <2>5 DEF IInv
<1>8. ASSUME NEW u \in Users, NEW p \in Passwords, ChangePassword(u, p)
      PROVE  IInv'
  <2>1. changes' \in 0 .. MaxChanges
    BY <1>8, LoginAssumption DEF ChangePassword, IInv, TypeOK
  <2>2. TypeOK'
    BY <1>8, <2>1 DEF ChangePassword, IInv, TypeOK
  <2>. QED
    BY <1>1, <1>8, <2>2 DEF ChangePassword, IInv, Held, Asked
<1>9. CASE RedisFails \/ RedisReturns
  BY <1>1, <1>9 DEF RedisFails, RedisReturns, IInv, TypeOK, Held, Asked
<1>10. CASE Tick
  <2>1. ttl' \in [Users -> 0 .. TTL]
    <3>1. \A u \in Users : (IF ttl[u] > 0 THEN ttl[u] - 1 ELSE 0) \in 0 .. TTL
      BY LoginAssumption DEF IInv, TypeOK
    <3>. QED
      BY <1>10, <3>1 DEF Tick
  <2>2. cache' \in [Users -> Passwords \cup {NoPassword}]
    BY <1>10 DEF Tick, IInv, TypeOK
  <2>3. TypeOK'
    BY <1>10, <2>1, <2>2 DEF Tick, IInv, TypeOK
  <2>. QED
    BY <1>1, <1>10, <2>3 DEF Tick, IInv, Held, Asked
<1>11. CASE UNCHANGED vars
  BY <1>1, <1>11 DEF vars, IInv, TypeOK, Held, Asked
<1>. QED
  BY <1>2, <1>3, <1>4, <1>5, <1>6, <1>7, <1>8, <1>9, <1>10, <1>11
     DEF Next, Environment, WorkerStep

LEMMA InvariantKept == Spec => []IInv
BY InitInvariant, NextInvariant, PTL DEF Spec

(* Types, and a queue no longer than the pool of connections is large.     *)
THEOREM TypeCorrect == Spec => []TypeOK
BY InvariantKept, PTL DEF IInv

(* No two workers ever talk over one connection to MySQL, and none of the  *)
(* connections is lost (sql_connection_pool.cpp 39-54).                    *)
THEOREM ConnectionsAreExclusive == Spec => []OneHolder
BY InvariantKept, PTL DEF IInv

-----------------------------------------------------------------------------
(* Wake-ups: idle connections and the workers on their way to them.        *)

Getting == {w \in Workers : pc[w] = "get"}

LEMMA GettingFinite ==
  IsFiniteSet(Getting) /\ Cardinality(Getting) \in Nat
<1>1. Getting \in SUBSET Workers
  BY DEF Getting
<1>. QED
  BY <1>1, LoginAssumption, FS_Subset, FS_CardinalityType

LEMMA WakeNext == IInv /\ NoLostWakeup /\ [Next]_vars => NoLostWakeup'
<1>. SUFFICES ASSUME IInv, NoLostWakeup, [Next]_vars
              PROVE  NoLostWakeup'
  OBVIOUS
<1>. USE DEF Goto, redisVars, worldVars
<1>a. Asleep # {} => Len(connQue_) <= Cardinality(Getting)
  BY DEF NoLostWakeup, Getting
<1>b. /\ Len(connQue_) \in Nat /\ Cardinality(Getting) \in Nat
      /\ IsFiniteSet(Getting) /\ Cardinality(Getting') \in Nat
  <2>1. (Cardinality(Getting) \in Nat)'
    BY GettingFinite, PTL
  <2>. QED
    BY <2>1, GettingFinite, LenProperties DEF IInv, TypeOK
<1>c. pc \in [Workers -> {"idle", "redis", "get", "asleep", "query", "setex", "free"}]
  BY DEF IInv, TypeOK
<1>d. ASSUME Asleep' # {} => Len(connQue_') <= Cardinality(Getting')
      PROVE  NoLostWakeup'
  BY <1>d DEF NoLostWakeup, Getting
<1>e. ASSUME Asleep' = Asleep, Getting' = Getting, connQue_' = connQue_
      PROVE  NoLostWakeup'
  BY <1>a, <1>d, <1>e
<1>f. ASSUME NEW w \in Workers, w \notin Getting, Getting' = Getting \cup {w}
      PROVE  Cardinality(Getting') = Cardinality(Getting) + 1
  BY <1>b, <1>f, FS_AddElement
<1>g. ASSUME NEW w \in Workers, w \in Getting, Getting' = Getting \ {w}
      PROVE  Cardinality(Getting') = Cardinality(Getting) - 1
  BY <1>b, <1>g, FS_RemoveElement
<1>1. ASSUME NEW w \in Workers, NEW u \in Users, NEW p \in Passwords, VerifyLogin(w, u, p)
      PROVE  NoLostWakeup'
  <2>1. Asleep' = Asleep /\ Getting' = Getting
    BY <1>c, <1>1 DEF VerifyLogin, Asleep, Getting
  <2>. QED
    BY <1>1, <1>e, <2>1 DEF VerifyLogin
<1>2. ASSUME NEW w \in Workers, AskRedis(w)
      PROVE  NoLostWakeup'
  <2>1. Asleep' = Asleep /\ connQue_' = connQue_
    BY <1>c, <1>2 DEF AskRedis, Asleep
  <2>2. CASE Hit(w)
    <3>1. Getting' = Getting
      BY <1>c, <1>2, <2>2 DEF AskRedis, Getting
    <3>. QED
      BY <1>e, <2>1, <3>1
  <2>3. CASE ~Hit(w)
    <3>1. Getting' = Getting \cup {w} /\ w \notin Getting
      BY <1>c, <1>2, <2>3 DEF AskRedis, Getting
    <3>2. Cardinality(Getting') = Cardinality(Getting) + 1
      BY <1>f, <3>1
    <3>. QED
      BY <1>a, <1>b, <1>d, <2>1, <3>2
  <2>. QED
    BY <2>2, <2>3
<1>3. ASSUME NEW w \in Workers, GetConnection(w)
      PROVE  NoLostWakeup'
  <2>1. Getting' = Getting \ {w} /\ w \in Getting
    BY <1>c, <1>3 DEF GetConnection, Getting
  <2>2. Cardinality(Getting') = Cardinality(Getting) - 1
    BY <1>g, <2>1
  <2>3. CASE connQue_ = <<>>
    <3>1. Len(connQue_') = 0
      BY <1>3, <2>3 DEF GetConnection
    <3>. QED
      BY <1>b, <1>d, <3>1
  <2>4. CASE connQue_ # <<>>
    <3>1. Len(connQue_') = Len(connQue_) - 1
      BY <1>3, <2>4, HeadTailProperties DEF GetConnection, Popped, IInv, TypeOK
    <3>2. Asleep' = Asleep
      BY <1>c, <1>3, <2>4 DEF GetConnection, Asleep
    <3>. QED
      BY <1>a, <1>b, <1>d, <2>2, <3>1, <3>2
  <2>. QED
    BY <2>3, <2>4
<1>4. ASSUME NEW w \in Workers, SpuriousWake(w)
      PROVE  NoLostWakeup'
  <2>1. /\ w \in Asleep /\ connQue_' = connQue_
        /\ Getting' = Getting \cup {w} /\ w \notin Getting
    BY <1>c, <1>4 DEF SpuriousWake, Asleep, Getting
  <2>2. Cardinality(Getting') = Cardinality(Getting) + 1
    BY <1>f, <2>1
  <2>. QED
    BY <1>a, <1>b, <1>d, <2>1, <2>2
<1>5. ASSUME NEW w \in Workers, Query(w) \/ SetEx(w)
      PROVE  NoLostWakeup'
  <2>1. Asleep' = Asleep /\ Getting' = Getting /\ connQue_' = connQue_
    BY <1>c, <1>5 DEF Query, SetEx, Asleep, Getting
  <2>. QED
    BY <1>e, <2>1
<1>6. ASSUME NEW w \in Workers, FreeConnection(w)
      PROVE  NoLostWakeup'
  <2>1. CASE Asleep = {}
    BY <1>c, <1>6, <1>d, <2>1 DEF FreeConnection, NotifyOne, Asleep
  <2>2. CASE Asleep # {}
    <3>1. PICK v \in Asleep : pc' = [pc EXCEPT ![w] = "idle", ![v] = "get"]
      BY <1>6, <2>2 DEF FreeConnection, NotifyOne
    <3>2. Getting' = Getting \cup {v} /\ v \notin Getting /\ v \in Workers
      BY <1>c, <1>6, <3>1 DEF FreeConnection, Getting, Asleep
    <3>3. mysql[w] \in MySQLs
      BY <1>6 DEF FreeConnection, IInv, TypeOK, Held
    <3>4. Len(connQue_') = Len(connQue_) + 1
      BY <1>6, <3>3, AppendProperties DEF FreeConnection, IInv, TypeOK
    <3>5. Cardinality(Getting') = Cardinality(Getting) + 1
      BY <1>f, <3>2
    <3>. QED
      BY <1>a, <1>b, <1>d, <2>2, <3>4, <3>5
  <2>. QED
    BY <2>1, <2>2
<1>7. ASSUME UNCHANGED <<pc, connQue_>>
      PROVE  NoLostWakeup'
  BY <1>7, <1>e DEF Asleep, Getting
<1>8. ASSUME NEW u \in Users, NEW p \in Passwords, ChangePassword(u, p)
      PROVE  NoLostWakeup'
  BY <1>7, <1>8 DEF ChangePassword
<1>9. CASE RedisFails \/ RedisReturns \/ Tick
  BY <1>7, <1>9 DEF RedisFails, RedisReturns, Tick
<1>10. CASE UNCHANGED vars
  BY <1>7, <1>10 DEF vars
<1>. QED
  BY <1>1, <1>2, <1>3, <1>4, <1>5, <1>6, <1>8, <1>9, <1>10
     DEF Next, Environment, WorkerStep

(* Nobody sleeps in GetConnection beside an idle connection that no other  *)
(* worker is on its way to (sql_connection_pool.cpp 41-54).                *)
THEOREM WakeupsKept == Spec => []NoLostWakeup
<1>1. Init => NoLostWakeup
  BY DEF Init, NoLostWakeup, Asleep
<1>. QED
  BY <1>1, WakeNext, InvariantKept, PTL DEF Spec

-----------------------------------------------------------------------------
(* Passwords.                                                              *)

LEMMA GoodNext ==
  ASSUME IInv, [Next]_vars, NEW u \in Users
  PROVE  Good(u)' \subseteq Good(u) \cup {passwd'[u]}
<1>. USE DEF Goto, redisVars, worldVars
<1>. DEFINE Confirmed == {v \in Workers : pc[v] = "setex" /\ arg[v].name = u}
<1>a. Good(u) = ({passwd[u], cache[u]} \ {NoPassword}) \cup {arg[v].pwd : v \in Confirmed}
  BY DEF Good
<1>b. Good(u)' = ({passwd'[u], cache'[u]} \ {NoPassword}) \cup {arg'[v].pwd : v \in Confirmed'}
  BY DEF Good
<1>c. /\ pc \in [Workers -> {"idle", "redis", "get", "asleep", "query", "setex", "free"}]
      /\ arg \in [Workers -> [name : Users, pwd : Passwords] \cup {NoLogin}]
      /\ cache \in [Users -> Passwords \cup {NoPassword}]
      /\ passwd \in [Users -> Passwords]
  BY DEF IInv, TypeOK
<1>d. ASSUME cache'[u] \in Good(u) \cup {NoPassword},
             \A v \in Confirmed' : arg'[v].pwd \in Good(u) \cup {passwd'[u]}
      PROVE  Good(u)' \subseteq Good(u) \cup {passwd'[u]}
  BY <1>b, <1>d
<1>e. cache[u] \in Good(u) \cup {NoPassword}
  BY <1>a
<1>f. ASSUME NEW v \in Confirmed
      PROVE  arg[v].pwd \in Good(u)
  BY <1>a
<1>1. ASSUME \A v \in Confirmed' : v \in Confirmed /\ arg'[v] = arg[v], cache' = cache
      PROVE  Good(u)' \subseteq Good(u) \cup {passwd'[u]}
  BY <1>1, <1>d, <1>e, <1>f
<1>2. ASSUME NEW w \in Workers, NEW n \in Users, NEW p \in Passwords, VerifyLogin(w, n, p)
      PROVE  Good(u)' \subseteq Good(u) \cup {passwd'[u]}
  <2>1. \A v \in Confirmed' : v \in Confirmed /\ arg'[v] = arg[v]
    BY <1>c, <1>2 DEF VerifyLogin
  <2>. QED
    BY <1>1, <1>2, <2>1 DEF VerifyLogin
<1>3. ASSUME NEW w \in Workers, AskRedis(w)
      PROVE  Good(u)' \subseteq Good(u) \cup {passwd'[u]}
  <2>1. \A v \in Confirmed' : v \in Confirmed /\ arg'[v] = arg[v]
    BY <1>c, <1>3 DEF AskRedis
  <2>. QED
    BY <1>1, <1>3, <2>1 DEF AskRedis
<1>4. ASSUME NEW w \in Workers, GetConnection(w) \/ SpuriousWake(w)
      PROVE  Good(u)' \subseteq Good(u) \cup {passwd'[u]}
  <2>1. \A v \in Confirmed' : v \in Confirmed /\ arg'[v] = arg[v]
    BY <1>c, <1>4 DEF GetConnection, SpuriousWake
  <2>. QED
    BY <1>1, <1>4, <2>1 DEF GetConnection, SpuriousWake
<1>5. ASSUME NEW w \in Workers, Query(w)
      PROVE  Good(u)' \subseteq Good(u) \cup {passwd'[u]}
  <2>1. arg' = arg /\ cache' = cache /\ passwd' = passwd
    BY <1>5 DEF Query
  <2>2. arg[w] \in [name : Users, pwd : Passwords]
    BY <1>5 DEF Query, IInv, Asked
  <2>3. pc'[w] = "setex" => arg[w].pwd = passwd[arg[w].name]
    BY <1>c, <1>5, <2>2, LoginAssumption DEF Query, Matches
  <2>4. \A v \in Workers \ {w} : pc'[v] = pc[v]
    BY <1>c, <1>5 DEF Query
  <2>5. \A v \in Confirmed' : arg'[v].pwd \in Good(u) \cup {passwd'[u]}
    BY <1>f, <2>1, <2>3, <2>4
  <2>. QED
    BY <1>d, <1>e, <2>1, <2>5
<1>6. ASSUME NEW w \in Workers, SetEx(w)
      PROVE  Good(u)' \subseteq Good(u) \cup {passwd'[u]}
  <2>1. \A v \in Confirmed' : v \in Confirmed /\ arg'[v] = arg[v]
    BY <1>c, <1>6 DEF SetEx
  <2>2. cache'[u] = cache[u] \/ (w \in Confirmed /\ cache'[u] = arg[w].pwd)
    BY <1>c, <1>6 DEF SetEx
  <2>3. cache'[u] \in Good(u) \cup {NoPassword}
    BY <1>e, <1>f, <2>2
  <2>. QED
    BY <1>d, <1>f, <2>1, <2>3
<1>7. ASSUME NEW w \in Workers, FreeConnection(w)
      PROVE  Good(u)' \subseteq Good(u) \cup {passwd'[u]}
  <2>1. \A v \in Workers : pc'[v] = "setex" => v # w /\ pc[v] = "setex"
    BY <1>c, <1>7 DEF FreeConnection, NotifyOne, Asleep
  <2>2. \A v \in Confirmed' : v \in Confirmed /\ arg'[v] = arg[v]
    BY <1>c, <1>7, <2>1 DEF FreeConnection
  <2>. QED
    BY <1>1, <1>7, <2>2 DEF FreeConnection
<1>8. ASSUME UNCHANGED <<pc, arg, cache>>
      PROVE  Good(u)' \subseteq Good(u) \cup {passwd'[u]}
  BY <1>1, <1>8
<1>9. ASSUME NEW n \in Users, NEW p \in Passwords, ChangePassword(n, p)
      PROVE  Good(u)' \subseteq Good(u) \cup {passwd'[u]}
  BY <1>8, <1>9 DEF ChangePassword
<1>10. CASE RedisFails \/ RedisReturns \/ UNCHANGED vars
  BY <1>8, <1>10 DEF RedisFails, RedisReturns, vars
<1>11. CASE Tick
  <2>1. cache'[u] \in {cache[u], NoPassword}
    BY <1>11 DEF Tick
  <2>2. \A v \in Confirmed' : v \in Confirmed /\ arg'[v] = arg[v]
    BY <1>11 DEF Tick
  <2>. QED
    BY <1>d, <1>e, <1>f, <2>1, <2>2
<1>. QED
  BY <1>2, <1>3, <1>4, <1>5, <1>6, <1>7, <1>9, <1>10, <1>11
     DEF Next, Environment, WorkerStep

(* A password that was changed, and that neither the cache nor a login     *)
(* under way holds, never comes back (http_conn.cpp 474-521).              *)
THEOREM OldPasswordsStayAway == Spec => OldOnesStayAway
<1>1. IInv /\ [Next]_vars => [\A u \in Users : Good(u)' \subseteq Good(u) \cup {passwd'[u]}]_vars
  BY GoodNext
<1>. QED
  BY <1>1, InvariantKept, PTL DEF Spec, OldOnesStayAway

-----------------------------------------------------------------------------
(* Tokens (jwt_util.cpp): for any key and any names.                       *)

(* The characters of Base64 stand for six bits each (jwt_util.cpp 94-122). *)
LEMMA Sextets ==
  ASSUME NEW a \in Byte, NEW b \in Byte
  PROVE  /\ a \div 4 \in Sextet /\ (a % 4) * 16 + b \div 16 \in Sextet
         /\ (a % 16) * 4 + b \div 64 \in Sextet /\ a % 64 \in Sextet
BY DEF Byte, Sextet

(* What the decoder does to the characters that the encoder makes of three *)
(* bytes a, b, c gives the bytes, and needs no more characters than there  *)
(* are for the first of them, or the first two.                            *)
LEMMA BitsComeBack ==
  ASSUME NEW a \in Byte, NEW b \in Byte, NEW c \in Byte
  PROVE  /\ (((a \div 4) * 4) + ((((a % 4) * 16 + b \div 16) \div 16) % 4)) % 256 = a
         /\ ((((a % 4) * 16 + b \div 16) % 16) * 16) + ((((b % 16) * 4 + c \div 64) \div 4) % 16) = b
         /\ (((b % 16) * 4 + c \div 64) % 4) * 64 + (c % 64) = c
<1>1. (((a \div 4) * 4) + ((((a % 4) * 16 + b \div 16) \div 16) % 4)) % 256 = a
  BY DEF Byte
<1>2. ((((a % 4) * 16 + b \div 16) % 16) * 16) + ((((b % 16) * 4 + c \div 64) \div 4) % 16) = b
  BY DEF Byte
<1>3. (((b % 16) * 4 + c \div 64) % 4) * 64 + (c % 64) = c
  BY DEF Byte
<1>. QED
  BY <1>1, <1>2, <1>3

(* n bytes make as many characters as are needed for n bytes.              *)
LEMMA LengthComesBack ==
  ASSUME NEW n \in Nat
  PROVE  (4 * n + 2) \div 3 \in Nat /\ Bytes((4 * n + 2) \div 3) = n
BY DEF Bytes

(* The characters of the g-th group of three bytes.                        *)
LEMMA Encoded ==
  ASSUME NEW s \in Seq(Byte)
  PROVE  /\ \A i \in Nat : At(s, i) \in Byte
         /\ Base64UrlEncode(s) \in Seq(Sextet)
         /\ Len(Base64UrlEncode(s)) = (4 * Len(s) + 2) \div 3
         /\ \A g \in Nat, k \in DOMAIN Base64UrlEncode(s) :
              /\ k = 4 * g + 1 => Base64UrlEncode(s)[k] = At(s, 3 * g + 1) \div 4
              /\ k = 4 * g + 2 =>
                   Base64UrlEncode(s)[k] = (At(s, 3 * g + 1) % 4) * 16 + At(s, 3 * g + 2) \div 16
              /\ k = 4 * g + 3 =>
                   Base64UrlEncode(s)[k] = (At(s, 3 * g + 2) % 16) * 4 + At(s, 3 * g + 3) \div 64
              /\ k = 4 * g + 4 => Base64UrlEncode(s)[k] = At(s, 3 * g + 3) % 64
<1>. DEFINE n == (4 * Len(s) + 2) \div 3
            E == Base64UrlEncode(s)
<1>1. Len(s) \in Nat /\ n \in Nat
  BY LenProperties, LengthComesBack
<1>2. ASSUME NEW i \in Nat
      PROVE  At(s, i) \in Byte
  <2>1. CASE i \in DOMAIN s
    BY <2>1 DEF At
  <2>2. CASE i \notin DOMAIN s
    BY <2>2 DEF At, Byte
  <2>. QED
    BY <2>1, <2>2
<1>3. DOMAIN E = 1 .. n
  BY DEF Base64UrlEncode
<1>4. ASSUME NEW g \in Nat, NEW k \in 1 .. n
      PROVE  /\ k = 4 * g + 1 => E[k] = At(s, 3 * g + 1) \div 4
             /\ k = 4 * g + 2 => E[k] = (At(s, 3 * g + 1) % 4) * 16 + At(s, 3 * g + 2) \div 16
             /\ k = 4 * g + 3 => E[k] = (At(s, 3 * g + 2) % 16) * 4 + At(s, 3 * g + 3) \div 64
             /\ k = 4 * g + 4 => E[k] = At(s, 3 * g + 3) % 64
  <2>. DEFINE h == 3 * ((k - 1) \div 4)
  <2>1. E[k] = CASE k % 4 = 1 -> At(s, h + 1) \div 4
                 [] k % 4 = 2 -> (At(s, h + 1) % 4) * 16 + At(s, h + 2) \div 16
                 [] k % 4 = 3 -> (At(s, h + 2) % 16) * 4 + At(s, h + 3) \div 64
                 [] k % 4 = 0 -> At(s, h + 3) % 64
    BY DEF Base64UrlEncode
  <2>. HIDE DEF E, h
  <2>2. ASSUME k = 4 * g + 1
        PROVE  E[k] = At(s, 3 * g + 1) \div 4
    <3>1. k % 4 = 1 /\ h = 3 * g
      BY <1>1, <2>2 DEF h
    <3>. QED
      BY <2>1, <3>1
  <2>3. ASSUME k = 4 * g + 2
        PROVE  E[k] = (At(s, 3 * g + 1) % 4) * 16 + At(s, 3 * g + 2) \div 16
    <3>1. k % 4 = 2 /\ h = 3 * g
      BY <1>1, <2>3 DEF h
    <3>. QED
      BY <2>1, <3>1
  <2>4. ASSUME k = 4 * g + 3
        PROVE  E[k] = (At(s, 3 * g + 2) % 16) * 4 + At(s, 3 * g + 3) \div 64
    <3>1. k % 4 = 3 /\ h = 3 * g
      BY <1>1, <2>4 DEF h
    <3>. QED
      BY <2>1, <3>1
  <2>5. ASSUME k = 4 * g + 4
        PROVE  E[k] = At(s, 3 * g + 3) % 64
    <3>1. k % 4 = 0 /\ h = 3 * g
      BY <1>1, <2>5 DEF h
    <3>. QED
      BY <2>1, <3>1
  <2>. QED
    BY <2>2, <2>3, <2>4, <2>5
<1>5. ASSUME NEW k \in 1 .. n
      PROVE  E[k] \in Sextet
  <2>1. PICK g \in Nat : k \in {4 * g + 1, 4 * g + 2, 4 * g + 3, 4 * g + 4}
    <3>1. /\ (k - 1) \div 4 \in Nat
          /\ k \in {4 * ((k - 1) \div 4) + 1, 4 * ((k - 1) \div 4) + 2,
                    4 * ((k - 1) \div 4) + 3, 4 * ((k - 1) \div 4) + 4}
      BY <1>1
    <3>. QED
      BY <3>1
  <2>2. At(s, 3 * g + 1) \in Byte /\ At(s, 3 * g + 2) \in Byte /\ At(s, 3 * g + 3) \in Byte
    BY <1>2
  <2>. HIDE DEF E, n
  <2>. QED
    BY <2>1, <2>2, <1>4, Sextets
<1>6. E \in [1 .. n -> Sextet]
  <2>1. E = [k \in 1 .. n |-> E[k]]
    BY <1>3 DEF Base64UrlEncode
  <2>. HIDE DEF E, n
  <2>. QED
    BY <2>1, <1>5
<1>7. E \in Seq(Sextet) /\ Len(E) = n
  <2>. HIDE DEF E, n
  <2>. QED
    BY <1>1, <1>6
<1>. QED
  BY <1>2, <1>3, <1>4, <1>7

(* Base64UrlDecode undoes Base64UrlEncode on every string of bytes, whatever *)
(* is left over for its last group of three (jwt_util.cpp 94-158).          *)
THEOREM DecodeEncode ==
  ASSUME NEW s \in Seq(Byte)
  PROVE  Base64UrlDecode(Base64UrlEncode(s)) = s
<1>. DEFINE t == Base64UrlEncode(s)
            m == Len(s)
            byte(k) == LET g == 4 * ((k - 1) \div 3) IN
              CASE k % 3 = 1 -> ((At(t, g + 1) * 4) + ((At(t, g + 2) \div 16) % 4)) % 256
                [] k % 3 = 2 -> ((At(t, g + 2) % 16) * 16) + ((At(t, g + 3) \div 4) % 16)
                [] k % 3 = 0 -> (At(t, g + 3) % 4) * 64 + At(t, g + 4)
<1>1. /\ m \in Nat /\ s \in [1 .. m -> Byte]
      /\ t \in Seq(Sextet) /\ Len(t) = (4 * m + 2) \div 3 /\ DOMAIN t = 1 .. Len(t)
  BY Encoded, LenProperties
<1>2. {i \in DOMAIN t : t[i] \notin Sextet} = {}
  BY <1>1
<1>3. Base64UrlDecode(t) = [k \in 1 .. Bytes(Len(t)) |-> byte(k)]
  <2>. HIDE DEF t
  <2>. QED
    BY <1>2 DEF Base64UrlDecode
<1>4. Bytes(Len(t)) = m
  <2>. HIDE DEF t
  <2>. QED
    BY <1>1, LengthComesBack
<1>5. ASSUME NEW k \in 1 .. m
      PROVE  byte(k) = s[k]
  <2>. DEFINE q == (k - 1) \div 3
              a == At(s, 3 * q + 1)
              b == At(s, 3 * q + 2)
              c == At(s, 3 * q + 3)
  <2>1. q \in Nat /\ a \in Byte /\ b \in Byte /\ c \in Byte /\ At(s, k) = s[k]
    <3>1. q \in Nat
      BY <1>1
    <3>2. At(s, k) = s[k]
      BY <1>1 DEF At
    <3>. QED
      BY <3>1, <3>2, Encoded
  <2>2. ASSUME NEW i \in 1 .. Len(t)
        PROVE  /\ At(t, i) = t[i]
               /\ i = 4 * q + 1 => t[i] = a \div 4
               /\ i = 4 * q + 2 => t[i] = (a % 4) * 16 + b \div 16
               /\ i = 4 * q + 3 => t[i] = (b % 16) * 4 + c \div 64
               /\ i = 4 * q + 4 => t[i] = c % 64
    <3>1. At(t, i) = t[i]
      BY <1>1 DEF At
    <3>. QED
      BY <1>1, <2>1, <3>1, Encoded
  <2>7. byte(k) =
          CASE k % 3 = 1 -> ((At(t, 4 * q + 1) * 4) + ((At(t, 4 * q + 2) \div 16) % 4)) % 256
            [] k % 3 = 2 -> ((At(t, 4 * q + 2) % 16) * 16) + ((At(t, 4 * q + 3) \div 4) % 16)
            [] k % 3 = 0 -> (At(t, 4 * q + 3) % 4) * 64 + At(t, 4 * q + 4)
    OBVIOUS
  <2>6. k = 3 * q + 1 \/ k = 3 * q + 2 \/ k = 3 * q + 3
    BY <1>1
  <2>. HIDE DEF byte, t, q, a, b, c
  <2>3. CASE k = 3 * q + 1
    <3>1. /\ k % 3 = 1 /\ 4 * q + 1 \in 1 .. Len(t) /\ 4 * q + 2 \in 1 .. Len(t)
      BY <1>1, <2>1, <2>3
    <3>2. At(t, 4 * q + 1) = a \div 4 /\ At(t, 4 * q + 2) = (a % 4) * 16 + b \div 16
      BY <2>2, <3>1
    <3>3. byte(k) = ((At(t, 4 * q + 1) * 4) + ((At(t, 4 * q + 2) \div 16) % 4)) % 256
      BY <2>7, <3>1
    <3>. QED
      BY <2>1, <2>3, <3>2, <3>3, BitsComeBack DEF a
  <2>4. CASE k = 3 * q + 2
    <3>1. /\ k % 3 = 2 /\ 4 * q + 2 \in 1 .. Len(t) /\ 4 * q + 3 \in 1 .. Len(t)
      BY <1>1, <2>1, <2>4
    <3>2. At(t, 4 * q + 2) = (a % 4) * 16 + b \div 16 /\ At(t, 4 * q + 3) = (b % 16) * 4 + c \div 64
      BY <2>2, <3>1
    <3>3. byte(k) = ((At(t, 4 * q + 2) % 16) * 16) + ((At(t, 4 * q + 3) \div 4) % 16)
      BY <2>7, <3>1
    <3>. QED
      BY <2>1, <2>4, <3>2, <3>3, BitsComeBack DEF b
  <2>5. CASE k = 3 * q + 3
    <3>1. /\ k % 3 = 0 /\ 4 * q + 3 \in 1 .. Len(t) /\ 4 * q + 4 \in 1 .. Len(t)
      BY <1>1, <2>1, <2>5
    <3>2. At(t, 4 * q + 3) = (b % 16) * 4 + c \div 64 /\ At(t, 4 * q + 4) = c % 64
      BY <2>2, <3>1
    <3>3. byte(k) = (At(t, 4 * q + 3) % 4) * 64 + At(t, 4 * q + 4)
      BY <2>7, <3>1
    <3>. QED
      BY <2>1, <2>5, <3>2, <3>3, BitsComeBack DEF c
  <2>. QED
    BY <2>3, <2>4, <2>5, <2>6
<1>6. [k \in 1 .. m |-> byte(k)] = s
  <2>1. s = [k \in 1 .. m |-> s[k]]
    BY <1>1
  <2>. HIDE DEF byte, t, m
  <2>. QED
    BY <1>5, <2>1
<1>. HIDE DEF byte, t, m
<1>. QED
  BY <1>3, <1>4, <1>6 DEF t

(* Min and Max of a set whose smallest and largest elements are known.     *)
LEMMA Extremes ==
  ASSUME NEW S \in SUBSET Int, NEW x \in S
  PROVE  /\ (\A y \in S : x <= y) => Min(S) = x
         /\ (\A y \in S : x >= y) => Max(S) = x
<1>1. ASSUME \A y \in S : x <= y
      PROVE  Min(S) = x
  <2>1. Min(S) \in S /\ \A y \in S : Min(S) <= y
    BY <1>1 DEF Min
  <2>2. Min(S) <= x /\ x <= Min(S) /\ Min(S) \in Int
    BY <1>1, <2>1
  <2>. QED
    BY <2>2
<1>2. ASSUME \A y \in S : x >= y
      PROVE  Max(S) = x
  <2>1. Max(S) \in S /\ \A y \in S : Max(S) >= y
    BY <1>2 DEF Max
  <2>2. Max(S) >= x /\ x >= Max(S) /\ Max(S) \in Int
    BY <1>2, <2>1
  <2>. QED
    BY <2>2
<1>. QED
  BY <1>1, <1>2

(* A part of x that has the elements of y is y.                            *)
LEMMA PartIs ==
  ASSUME NEW S, NEW x \in Seq(S), NEW y \in Seq(S), NEW n \in Nat, n + Len(y) <= Len(x),
         \A i \in 1 .. Len(y) : x[n + i] = y[i]
  PROVE  SubSeq(x, n + 1, n + Len(y)) = y
<1>. DEFINE l == Len(y)
            z == SubSeq(x, n + 1, n + l)
<1>1. l \in Nat /\ Len(x) \in Nat
  BY LenProperties
<1>. HIDE DEF l
<1>2. \A i \in (n + 1) .. (n + l) : x[i] \in S
  <2>1. \A i \in (n + 1) .. (n + l) : i \in 1 .. Len(x)
    BY <1>1 DEF l
  <2>. QED
    BY <2>1, ElementOfSeq
<1>3. /\ z \in Seq(S) /\ Len(z) = (IF n + 1 <= n + l THEN ((n + l) - (n + 1)) + 1 ELSE 0)
      /\ \A i \in 1 .. (((n + l) - (n + 1)) + 1) : z[i] = x[((n + 1) + i) - 1]
  BY <1>1, <1>2, SubSeqProperties
<1>. HIDE DEF z
<1>4. Len(z) = l
  BY <1>1, <1>3
<1>5. ASSUME NEW i \in 1 .. l
      PROVE  z[i] = y[i]
  <2>1. ((n + l) - (n + 1)) + 1 = l /\ ((n + 1) + i) - 1 = n + i
    BY <1>1
  <2>2. z[i] = x[n + i]
    BY <1>3, <2>1
  <2>. QED
    BY <2>2 DEF l
<1>. QED
  BY <1>3, <1>4, <1>5, SeqEqual DEF z, l

(* The elements of two sequences after each other.                         *)
LEMMA Glued ==
  ASSUME NEW S, NEW a \in Seq(S), NEW b \in Seq(S)
  PROVE  /\ a \o b \in Seq(S) /\ Len(a \o b) = Len(a) + Len(b)
         /\ \A i \in 1 .. Len(a) : (a \o b)[i] = a[i]
         /\ \A i \in 1 .. Len(b) : (a \o b)[Len(a) + i] = b[i]
<1>. DEFINE x == a \o b
<1>1. /\ x \in Seq(S) /\ Len(x) = Len(a) + Len(b)
      /\ \A i \in 1 .. (Len(a) + Len(b)) : x[i] = IF i <= Len(a) THEN a[i] ELSE b[i - Len(a)]
      /\ Len(a) \in Nat /\ Len(b) \in Nat
  BY ConcatProperties, LenProperties
<1>. HIDE DEF x
<1>2. \A i \in 1 .. Len(a) : x[i] = a[i]
  BY <1>1
<1>3. ASSUME NEW i \in 1 .. Len(b)
      PROVE  x[Len(a) + i] = b[i]
  <2>1. /\ Len(a) + i \in 1 .. (Len(a) + Len(b)) /\ ~(Len(a) + i <= Len(a))
        /\ (Len(a) + i) - Len(a) = i
    BY <1>1
  <2>. QED
    BY <1>1, <2>1
<1>. QED
  BY <1>1, <1>2, <1>3 DEF x

(* Two sequences with an element between them.                             *)
LEMMA Joined ==
  ASSUME NEW S, NEW a \in Seq(S), NEW d \in S, NEW b \in Seq(S)
  PROVE  LET x == (a \o <<d>>) \o b IN
         /\ x \in Seq(S) /\ Len(x) = Len(a) + 1 + Len(b)
         /\ \A i \in 1 .. Len(a) : x[i] = a[i]
         /\ x[Len(a) + 1] = d
         /\ \A i \in 1 .. Len(b) : x[Len(a) + 1 + i] = b[i]
<1>. DEFINE ad == a \o <<d>>
            x == ad \o b
<1>1. <<d>> \in Seq(S) /\ Len(<<d>>) = 1 /\ <<d>>[1] = d /\ Len(a) \in Nat /\ Len(b) \in Nat
  BY LenProperties
<1>2. /\ ad \in Seq(S) /\ Len(ad) = Len(a) + 1
      /\ \A i \in 1 .. Len(a) : ad[i] = a[i]
      /\ ad[Len(a) + 1] = d
  <2>1. /\ ad \in Seq(S) /\ Len(ad) = Len(a) + Len(<<d>>)
        /\ \A i \in 1 .. Len(a) : ad[i] = a[i]
        /\ \A i \in 1 .. Len(<<d>>) : ad[Len(a) + i] = <<d>>[i]
    BY <1>1, Glued
  <2>. HIDE DEF ad
  <2>. QED
    BY <1>1, <2>1
<1>. HIDE DEF ad
<1>3. /\ x \in Seq(S) /\ Len(x) = Len(ad) + Len(b)
      /\ \A i \in 1 .. Len(ad) : x[i] = ad[i]
      /\ \A i \in 1 .. Len(b) : x[Len(ad) + i] = b[i]
  <2>1. ad \in Seq(S)
    BY <1>2
  <2>. QED
    BY <2>1, Glued
<1>. HIDE DEF x
<1>4. Len(x) = Len(a) + 1 + Len(b) /\ x[Len(a) + 1] = d /\ \A i \in 1 .. Len(a) : x[i] = a[i]
  BY <1>1, <1>2, <1>3
<1>5. \A i \in 1 .. Len(b) : x[Len(a) + 1 + i] = b[i]
  BY <1>2, <1>3
<1>. QED
  BY <1>3, <1>4, <1>5 DEF x, ad

(* A set of two.                                                           *)
LEMMA PairHasTwo ==
  ASSUME NEW x, NEW y, x # y
  PROVE  Cardinality({x, y}) = 2
<1>1. IsFiniteSet({x}) /\ Cardinality({x}) = 1
  BY FS_Singleton
<1>2. {x, y} = {x} \cup {y} /\ y \notin {x}
  OBVIOUS
<1>3. Cardinality({x} \cup {y}) = 1 + 1
  BY <1>1, <1>2, FS_AddElement
<1>. QED
  BY <1>2, <1>3

\* Where find and rfind look.
Dots(token) == {i \in DOMAIN token : token[i] = Dot}

(* A token falls apart at its two dots into what was put together, and is  *)
(* believed if the signature is that of its first two parts.               *)
LEMMA Believed ==
  ASSUME NEW h \in Seq(Sextet), NEW p \in Seq(Sextet), NEW hp, NEW token,
         hp = (h \o <<Dot>>) \o p, Hmac(hp) \in Seq(Sextet),
         token = (hp \o <<Dot>>) \o Hmac(hp)
  PROVE  Verify(token) = UserIn(Base64UrlDecode(p))
<1>0. PICK m \in Seq(Sextet) : m = Hmac(hp)
  OBVIOUS
<1>. DEFINE S == 0 .. 64
            H == Len(h)
            P == Len(p)
            M == Len(m)
<1>1. /\ H \in Nat /\ P \in Nat /\ M \in Nat
      /\ \A i \in 1 .. H : h[i] \in Sextet
      /\ \A i \in 1 .. P : p[i] \in Sextet
      /\ \A i \in 1 .. M : m[i] \in Sextet
  BY LenProperties, ElementOfSeq
<1>2. Dot \in S /\ Dot \notin Sextet /\ h \in Seq(S) /\ p \in Seq(S) /\ m \in Seq(S)
  BY DEF Sextet, Dot
<1>. HIDE DEF S
<1>3. /\ hp \in Seq(S) /\ Len(hp) = H + 1 + P
      /\ \A i \in 1 .. H : hp[i] = h[i]
      /\ hp[H + 1] = Dot
      /\ \A i \in 1 .. P : hp[H + 1 + i] = p[i]
  BY <1>2, Joined
<1>4. /\ token \in Seq(S) /\ Len(token) = Len(hp) + 1 + M
      /\ \A i \in 1 .. Len(hp) : token[i] = hp[i]
      /\ token[Len(hp) + 1] = Dot
      /\ \A i \in 1 .. M : token[Len(hp) + 1 + i] = m[i]
  BY <1>0, <1>2, <1>3, Joined
<1>. DEFINE X == H + 1
            Y == H + P + 2
<1>5. /\ X \in Nat /\ Y \in Nat /\ X < Y /\ X \in 1 .. Len(hp) /\ Y = Len(hp) + 1
      /\ Len(token) = Y + M /\ DOMAIN token = 1 .. (Y + M)
  <2>1. Len(hp) = H + 1 + P /\ Len(token) = Len(hp) + 1 + M /\ DOMAIN token = 1 .. Len(token)
    BY <1>3, <1>4, LenProperties
  <2>. HIDE DEF H, P, M
  <2>2. X \in Nat /\ Y \in Nat /\ X < Y
    BY <1>1
  <2>3. X \in 1 .. Len(hp) /\ Y = Len(hp) + 1
    <3>1. 1 <= X /\ X <= H + 1 + P /\ Y = (H + 1 + P) + 1 /\ H + 1 + P \in Nat
      BY <1>1
    <3>. QED
      BY <2>1, <2>2, <3>1
  <2>4. Len(token) = Y + M
    BY <2>1, <2>3
  <2>. QED
    BY <2>1, <2>2, <2>3, <2>4
<1>6. /\ \A i \in 1 .. H : token[i] = h[i]
      /\ token[X] = Dot /\ token[Y] = Dot
      /\ \A i \in 1 .. P : token[X + i] = p[i]
      /\ \A i \in 1 .. M : token[Y + i] = m[i]
  <2>. HIDE DEF H, P, M
  <2>1. /\ \A i \in 1 .. H : i \in 1 .. Len(hp)
        /\ \A i \in 1 .. P : X + i \in 1 .. Len(hp)
    BY <1>1, <1>3
  <2>2. \A i \in 1 .. H : token[i] = h[i]
    BY <1>3, <1>4, <2>1
  <2>3. \A i \in 1 .. P : token[X + i] = p[i]
    BY <1>3, <1>4, <2>1
  <2>4. token[X] = Dot /\ token[Y] = Dot /\ \A i \in 1 .. M : token[Y + i] = m[i]
    BY <1>3, <1>4, <1>5
  <2>. QED
    BY <2>2, <2>3, <2>4
<1>7. ASSUME NEW i \in 1 .. (Y + M), i # X, i # Y
      PROVE  token[i] # Dot
  <2>. HIDE DEF H, P, M
  <2>1. CASE i \in 1 .. H
    BY <1>1, <1>2, <1>6, <2>1
  <2>2. CASE i - X \in 1 .. P
    <3>1. X + (i - X) = i
      BY <1>5
    <3>2. token[i] = p[i - X]
      BY <1>6, <2>2, <3>1
    <3>. QED
      BY <1>1, <1>2, <2>2, <3>2
  <2>3. CASE i - Y \in 1 .. M
    <3>1. Y + (i - Y) = i
      BY <1>5
    <3>2. token[i] = m[i - Y]
      BY <1>6, <2>3, <3>1
    <3>. QED
      BY <1>1, <1>2, <2>3, <3>2
  <2>4. i \in 1 .. H \/ i - X \in 1 .. P \/ i - Y \in 1 .. M
    BY <1>1, <1>7
  <2>. QED
    BY <2>1, <2>2, <2>3, <2>4
<1>. HIDE DEF H, P, M, X, Y
<1>8. Dots(token) = {X, Y}
  <2>1. X \in 1 .. (Y + M) /\ Y \in 1 .. (Y + M)
    BY <1>1, <1>3, <1>5, LenProperties
  <2>2. Dots(token) = {i \in 1 .. (Y + M) : token[i] = Dot}
    BY <1>5 DEF Dots
  <2>. QED
    BY <1>6, <1>7, <2>1, <2>2
<1>9. Min(Dots(token)) = X /\ Max(Dots(token)) = Y /\ Cardinality(Dots(token)) = 2
  <2>1. Dots(token) \in SUBSET Int /\ X \in Dots(token) /\ Y \in Dots(token) /\ \A y \in Dots(token) : X <= y /\ Y >= y
    <3>1. /\ {X, Y} \in SUBSET Int /\ X \in {X, Y} /\ Y \in {X, Y}
          /\ \A y \in {X, Y} : X <= y /\ Y >= y
      BY <1>5
    <3>. QED
      BY <1>8, <3>1
  <2>2. Min(Dots(token)) = X /\ Max(Dots(token)) = Y
    BY <2>1, Extremes
  <2>3. Cardinality({X, Y}) = 2
    <3>1. X # Y
      BY <1>5
    <3>. QED
      BY <3>1, PairHasTwo, Zenon
  <2>. QED
    BY <1>8, <2>2, <2>3
<1>10. SubSeq(token, Y + 1, Len(token)) = m
  <2>1. Y + Len(m) = Len(token) /\ \A i \in 1 .. Len(m) : token[Y + i] = m[i]
    BY <1>5, <1>6 DEF M
  <2>2. Y + Len(m) <= Len(token)
    BY <1>1, <1>5, <2>1 DEF M
  <2>3. SubSeq(token, Y + 1, Y + Len(m)) = m
    <3>1. token \in Seq(S) /\ m \in Seq(S) /\ Y \in Nat
      BY <1>2, <1>4, <1>5
    <3>. QED
      BY <2>1, <2>2, <3>1, PartIs
  <2>. QED
    BY <2>1, <2>3
<1>11. SubSeq(token, 1, Y - 1) = hp
  <2>1. SubSeq(token, 0 + 1, 0 + Len(hp)) = hp
    <3>1. Len(hp) \in Nat /\ 0 + Len(hp) <= Len(token)
      BY <1>1, <1>3, <1>5, LenProperties
    <3>2. \A i \in 1 .. Len(hp) : token[0 + i] = hp[i]
      BY <1>4, <3>1
    <3>3. token \in Seq(S) /\ hp \in Seq(S) /\ 0 \in Nat
      BY <1>3, <1>4
    <3>. QED
      BY <3>1, <3>2, <3>3, PartIs
  <2>2. 0 + 1 = 1 /\ 0 + Len(hp) = Y - 1
    BY <1>3, <1>5, LenProperties
  <2>. QED
    BY <2>1, <2>2
<1>12. SubSeq(token, X + 1, Y - 1) = p
  <2>1. X + Len(p) <= Len(token) /\ X + Len(p) = Y - 1
    BY <1>1, <1>3, <1>5 DEF X, Y, P
  <2>2. SubSeq(token, X + 1, X + Len(p)) = p
    <3>1. token \in Seq(S) /\ p \in Seq(S) /\ X \in Nat /\ X + Len(p) <= Len(token)
      BY <1>2, <1>4, <1>5, <2>1
    <3>2. \A i \in 1 .. Len(p) : token[X + i] = p[i]
      BY <1>6 DEF P
    <3>. QED
      BY <3>1, <3>2, PartIs
  <2>. QED
    BY <2>1, <2>2
<1>. QED
  <2>1. Verify(token) = IF Cardinality(Dots(token)) < 2 THEN NoUser
          ELSE IF SubSeq(token, Max(Dots(token)) + 1, Len(token))
                    # Hmac(SubSeq(token, 1, Max(Dots(token)) - 1))
          THEN NoUser
          ELSE UserIn(Base64UrlDecode(SubSeq(token, Min(Dots(token)) + 1, Max(Dots(token)) - 1)))
    BY DEF Verify, Dots
  <2>2. ~(Cardinality(Dots(token)) < 2)
    BY <1>9
  <2>. QED
    BY <1>0, <1>9, <1>10, <1>11, <1>12, <2>1, <2>2, Zenon

(* A name without a quote is read out of the payload it was put into.      *)
LEMMA UserFound ==
  ASSUME NEW s \in Seq(Byte), Quote \notin ToSet(s)
  PROVE  Payload(s) \in Seq(Byte) /\ UserIn(Payload(s)) = s
<1>. DEFINE L == Len(s)
            json == Payload(s)
            front == <<123, 34, 117, 115, 101, 114, 34, 58, 34>>
            end == <<34, 125>>
<1>1. /\ L \in Nat /\ \A i \in 1 .. L : s[i] \in Byte /\ s[i] # 34
  <2>1. L \in Nat /\ DOMAIN s = 1 .. L /\ \A i \in 1 .. L : s[i] \in Byte
    BY LenProperties, ElementOfSeq
  <2>. QED
    BY <2>1 DEF ToSet, Quote
<1>2. front \in Seq(Byte) /\ end \in Seq(Byte) /\ Len(front) = 9 /\ Len(end) = 2
  BY DEF Byte
<1>3. json = (front \o s) \o end
  <2>1. <<123>> \o UserKey = front
    <3>1. /\ <<123>> \in Seq(Byte) /\ Len(<<123>>) = 1 /\ <<123>>[1] = 123
          /\ UserKey \in Seq(Byte) /\ Len(UserKey) = 8
      BY DEF UserKey, Byte
    <3>. DEFINE x == <<123>> \o UserKey
    <3>2. /\ x \in Seq(Byte) /\ Len(x) = 9 /\ x[1] = 123
          /\ \A i \in 1 .. 8 : x[1 + i] = UserKey[i]
      <4>1. /\ x \in Seq(Byte) /\ Len(x) = Len(<<123>>) + Len(UserKey)
            /\ \A i \in 1 .. Len(<<123>>) : x[i] = <<123>>[i]
            /\ \A i \in 1 .. Len(UserKey) : x[Len(<<123>>) + i] = UserKey[i]
        <5>1. <<123>> \in Seq(Byte) /\ UserKey \in Seq(Byte)
          BY <3>1
        <5>. QED
          BY <5>1, Glued
      <4>. HIDE DEF x
      <4>. QED
        BY <3>1, <4>1
    <3>. HIDE DEF x
    <3>3. ASSUME NEW i \in 1 .. 9
          PROVE  x[i] = front[i]
      <4>1. CASE i = 1
        BY <3>2, <4>1
      <4>2. CASE i \in 2 .. 9
        <5>1. i - 1 \in 1 .. 8 /\ 1 + (i - 1) = i
          BY <4>2
        <5>2. x[i] = UserKey[i - 1]
          BY <3>2, <5>1
        <5>3. UserKey[i - 1] = front[i]
          BY <4>2 DEF UserKey
        <5>. QED
          BY <5>2, <5>3
      <4>. QED
        BY <4>1, <4>2
    <3>4. x = front
      <4>. HIDE DEF front
      <4>1. x \in Seq(Byte) /\ front \in Seq(Byte) /\ Len(x) = Len(front)
        BY <1>2, <3>2
      <4>2. \A i \in 1 .. Len(x) : x[i] = front[i]
        BY <3>2, <3>3
      <4>. QED
        BY <4>1, <4>2, SeqEqual
    <3>. QED
      BY <3>4 DEF x
  <2>. QED
    BY <2>1 DEF Payload, Quote
<1>4. /\ front \o s \in Seq(Byte) /\ Len(front \o s) = L + 9
      /\ \A i \in 1 .. 9 : (front \o s)[i] = front[i]
      /\ \A i \in 1 .. L : (front \o s)[9 + i] = s[i]
  <2>. HIDE DEF front
  <2>1. front \in Seq(Byte)
    BY <1>2
  <2>2. /\ front \o s \in Seq(Byte) /\ Len(front \o s) = Len(front) + L
        /\ \A i \in 1 .. Len(front) : (front \o s)[i] = front[i]
        /\ \A i \in 1 .. L : (front \o s)[Len(front) + i] = s[i]
    BY <2>1, Glued
  <2>. QED
    BY <1>1, <1>2, <2>2
<1>5. /\ json \in Seq(Byte) /\ Len(json) = L + 11
      /\ \A i \in 1 .. 9 : json[i] = front[i]
      /\ \A i \in 1 .. L : json[9 + i] = s[i]
      /\ json[L + 10] = 34
  <2>. DEFINE fs == front \o s
  <2>1. /\ fs \in Seq(Byte) /\ Len(fs) = L + 9 /\ json = fs \o end
    BY <1>3, <1>4
  <2>. HIDE DEF fs, json, L
  <2>2. /\ json \in Seq(Byte) /\ Len(json) = L + 11
        /\ \A i \in 1 .. (L + 9) : json[i] = fs[i]
        /\ json[L + 10] = 34
    <3>1. end[1] = 34 /\ 1 \in 1 .. Len(end)
      BY <1>2
    <3>. HIDE DEF end
    <3>2. end \in Seq(Byte) /\ fs \in Seq(Byte)
      BY <1>2, <2>1
    <3>3. /\ fs \o end \in Seq(Byte) /\ Len(fs \o end) = Len(fs) + Len(end)
          /\ \A i \in 1 .. Len(fs) : (fs \o end)[i] = fs[i]
          /\ \A i \in 1 .. Len(end) : (fs \o end)[Len(fs) + i] = end[i]
      BY <3>2, Glued
    <3>4. json = fs \o end /\ Len(fs) = L + 9 /\ Len(end) = 2
      BY <1>2, <2>1
    <3>5. json \in Seq(Byte) /\ Len(json) = L + 11 /\ \A i \in 1 .. (L + 9) : json[i] = fs[i]
      BY <1>1, <3>3, <3>4
    <3>6. json[(L + 9) + 1] = 34
      BY <3>1, <3>3, <3>4
    <3>. QED
      BY <1>1, <3>5, <3>6
  <2>3. /\ \A i \in 1 .. 9 : i \in 1 .. (L + 9)
        /\ \A i \in 1 .. L : 9 + i \in 1 .. (L + 9)
    BY <1>1
  <2>4. /\ \A i \in 1 .. 9 : fs[i] = front[i]
        /\ \A i \in 1 .. L : fs[9 + i] = s[i]
    BY <1>4 DEF fs
  <2>. HIDE DEF front
  <2>. QED
    BY <2>2, <2>3, <2>4
<1>. HIDE DEF json, L
<1>. DEFINE keys == {i \in 1 .. Len(json) - 7 : SubSeq(json, i, i + 7) = UserKey}
            ends == {i \in 10 .. Len(json) : json[i] = Quote}
<1>6. 2 \in keys
  <2>1. /\ SubSeq(json, 2, 9) \in Seq(Byte) /\ Len(SubSeq(json, 2, 9)) = 8
        /\ \A i \in 1 .. 8 : SubSeq(json, 2, 9)[i] = json[i + 1]
    BY <1>1, <1>5
  <2>2. UserKey \in Seq(Byte) /\ Len(UserKey) = 8
    BY DEF UserKey, Byte
  <2>3. ASSUME NEW i \in 1 .. 8
        PROVE  SubSeq(json, 2, 9)[i] = UserKey[i]
    <3>1. i \in {1, 2, 3, 4, 5, 6, 7, 8} /\ i + 1 \in 1 .. 9
      OBVIOUS
    <3>2. front[i + 1] = UserKey[i]
      BY <3>1 DEF UserKey
    <3>3. json[i + 1] = front[i + 1]
      BY <1>5, <3>1
    <3>. QED
      BY <2>1, <3>2, <3>3
  <2>4. SubSeq(json, 2, 9) = UserKey
    <3>. DEFINE z == SubSeq(json, 2, 9)
    <3>1. z \in Seq(Byte) /\ Len(z) = 8 /\ \A i \in 1 .. 8 : z[i] = UserKey[i]
      BY <2>1, <2>3
    <3>. HIDE DEF z
    <3>2. Len(z) = Len(UserKey) /\ \A i \in 1 .. Len(z) : z[i] = UserKey[i]
      BY <2>2, <3>1
    <3>3. z = UserKey
      BY <2>2, <3>1, <3>2, SeqEqual
    <3>. QED
      BY <3>3 DEF z
  <2>5. 2 \in 1 .. Len(json) - 7 /\ 2 + 7 = 9
    BY <1>1, <1>5
  <2>. QED
    BY <2>4, <2>5
<1>7. 1 \notin keys
  <2>1. SubSeq(json, 1, 8)[1] = json[1]
    BY <1>1, <1>5
  <2>2. json[1] = 123 /\ UserKey[1] = 34
    BY <1>5 DEF UserKey
  <2>. QED
    BY <2>1, <2>2
<1>8. Min(keys) = 2
  <2>1. ASSUME NEW y \in keys
        PROVE  y \in Int /\ 2 <= y
    <3>1. y \in 1 .. Len(json) - 7 /\ y # 1
      BY <1>7
    <3>. HIDE DEF keys
    <3>. QED
      BY <1>1, <1>5, <3>1
  <2>. HIDE DEF keys
  <2>. QED
    BY <1>6, <2>1, Extremes
<1>9. L + 10 \in ends /\ Min(ends) = L + 10
  <2>1. ends \in SUBSET Int /\ L + 10 \in ends
    BY <1>1, <1>5 DEF Quote
  <2>2. ASSUME NEW i \in 10 .. (L + 9)
        PROVE  json[i] # 34
    <3>1. i - 9 \in 1 .. L /\ 9 + (i - 9) = i
      BY <1>1
    <3>2. json[i] = s[i - 9]
      BY <1>5, <3>1
    <3>. QED
      BY <1>1, <3>1, <3>2
  <2>3. ASSUME NEW y \in ends
        PROVE  L + 10 <= y
    BY <1>1, <1>5, <2>2, <2>3 DEF Quote
  <2>. HIDE DEF ends
  <2>. QED
    BY <2>1, <2>3, Extremes
<1>10. SubSeq(json, 10, L + 9) = s
  <2>1. 9 + Len(s) <= Len(json) /\ \A i \in 1 .. Len(s) : json[9 + i] = s[i]
    BY <1>1, <1>5 DEF L
  <2>2. SubSeq(json, 9 + 1, 9 + Len(s)) = s
    <3>1. json \in Seq(Byte) /\ s \in Seq(Byte) /\ 9 \in Nat
      BY <1>5
    <3>. QED
      BY <2>1, <3>1, PartIs
  <2>3. 9 + 1 = 10 /\ 9 + Len(s) = L + 9
    BY <1>1 DEF L
  <2>. QED
    BY <2>2, <2>3
<1>11. UserIn(json) = SubSeq(json, 10, L + 9)
  <2>. DEFINE from == Min(keys) + 8
  <2>1. keys # {} /\ ends # {} /\ from = 10
    <3>. HIDE DEF keys, ends
    <3>. QED
      BY <1>6, <1>8, <1>9
  <2>2. UserIn(json) = IF keys = {} THEN NoUser
          ELSE IF {i \in from .. Len(json) : json[i] = Quote} = {} THEN NoUser
          ELSE SubSeq(json, from, Min({i \in from .. Len(json) : json[i] = Quote}) - 1)
    BY DEF UserIn
  <2>. HIDE DEF keys, from
  <2>3. UserIn(json) = SubSeq(json, 10, Min(ends) - 1)
    BY <2>1, <2>2
  <2>4. Min(ends) - 1 = L + 9
    BY <1>1, <1>9
  <2>. QED
    BY <2>3, <2>4
<1>. QED
  BY <1>5, <1>10, <1>11 DEF json

(* Every name comes back out of a token, for any key and any set of names. *)
LEMMA TokenRoundTrip == NamesComeBack
<1>1. SUFFICES ASSUME NEW s \in Names, Quote \notin ToSet(s)
               PROVE  Verify(Generate(s)) = s
  BY JwtAssumption, DecodeEncode DEF NamesComeBack
<1>2. s \in Seq(Byte) /\ Hmac(Signed(s)) \in Seq(Sextet)
  BY JwtAssumption
<1>3. Payload(s) \in Seq(Byte) /\ UserIn(Payload(s)) = s
  BY <1>1, <1>2, UserFound
<1>4. /\ Base64UrlEncode(JWT_HEADER) \in Seq(Sextet)
      /\ Base64UrlEncode(Payload(s)) \in Seq(Sextet)
      /\ Base64UrlDecode(Base64UrlEncode(Payload(s))) = Payload(s)
  <2>1. JWT_HEADER \in Seq(Byte)
    BY DEF JWT_HEADER, Byte
  <2>. QED
    BY <1>3, <2>1, Encoded, DecodeEncode
<1>5. /\ Signed(s) = (Base64UrlEncode(JWT_HEADER) \o <<Dot>>) \o Base64UrlEncode(Payload(s))
      /\ Generate(s) = (Signed(s) \o <<Dot>>) \o Hmac(Signed(s))
  BY DEF Signed, Generate
<1>6. Verify(Generate(s)) = UserIn(Base64UrlDecode(Base64UrlEncode(Payload(s))))
  BY <1>2, <1>4, <1>5, Believed
<1>. QED
  BY <1>3, <1>4, <1>6

(* Every token names the user it was made for, whatever the key, the names *)
(* and who logs in when (http_conn.cpp 259, 302; jwt_util.cpp 12-67,       *)
(* 94-158).                                                                *)
THEOREM TokensNameTheirUsers == Spec => []TokenNamesItsUser
<1>1. TokenNamesItsUser
  BY TokenRoundTrip DEF TokenNamesItsUser
<1>. QED
  BY <1>1, PTL
=============================================================================
