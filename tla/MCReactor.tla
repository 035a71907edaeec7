----------------------------- MODULE MCReactor -----------------------------
(* Reactor on small instances.  Connections, workers are told apart by     *)
(* nothing but their identity.                                             *)
EXTENDS Reactor, TLC

CONSTANTS
  Lost,       \* in the aged server: the client that got descriptor 0
  Served      \* in the serving one: a client that has had a reply

Symmetry == Permutations(Conns \ {Lost}) \cup Permutations(Workers)

(* A server that has been running: some client was given descriptor 0,     *)
(* which the first init() of a slot had closed.  Lost has connected, sent  *)
(* its request and gone, and nobody will look at it.  Slots are swept, or  *)
(* not used yet.  If there is somebody in service, it is under the last    *)
(* number, and the clients who had the others have left deadlines that are *)
(* over by now.                                                            *)
Running(slots, served) ==
  /\ phase = [c \in Conns |-> IF c \in {Lost} \cup served THEN "open" ELSE "new"]
  /\ inbox = [c \in Conns |-> IF c = Lost THEN "whole" ELSE "none"]
  /\ hup = [c \in Conns |-> c = Lost]
  /\ sends = [c \in Conns |-> IF c \in {Lost} \cup served THEN MaxSends ELSE 0]
  /\ got = [c \in Conns |-> {c} \cap served]
  /\ fdTable = [f \in Fds |-> IF f = 0 THEN Lost
                              ELSE IF f = MaxFd /\ served # {} THEN Served ELSE Free]
  /\ epollOf = [c \in Conns |-> IF c \in served THEN 0 ELSE NoReactor]
  /\ mask = [c \in Conns |-> IF c \in served THEN "in" ELSE "off"]
  /\ bell = FALSE
  /\ users \in [ClientFds -> slots]
  /\ expires = [r \in Reactors |-> [f \in ClientFds |->
                  IF r # 0 \/ served = {} THEN NoDeadline
                  ELSE IF f = MaxFd THEN TIMEOUT_MS ELSE 0]]
  /\ rpc = [r \in Reactors |-> "wait"]
  /\ events = [r \in Reactors |-> [f \in ClientFds |-> "none"]]
  /\ recvOf = [r \in Reactors |-> NoConn]
  /\ watched = served
  /\ tasks = <<>>
  /\ job = [w \in Workers |-> Idle]
  /\ mpc = "wait"
  /\ client_fd = NoFd
  /\ round_robin_idx = 0

\* It has used each of its slots before, or perhaps not.
AgedInit == Running({Swept}, {})
YoungInit == Running({Swept, Unborn}, {})
ServingInit == Running({Swept}, {Served})

ServerStep ==
  \/ \E r \in Reactors : SubReactorStep(r)
  \/ \E w \in Workers : WorkerStep(w)
  \/ MainStep

\* Served falls silent, but stays.
ServingNext ==
  \/ \E c \in Conns : Connect(c) \/ Send(c, "part") \/ Send(c, "whole")
  \/ \E c \in Conns \ {Served} : HangUp(c)
  \/ ServerStep
  \/ Advance

ServingSpec == ServingInit /\ [][ServingNext]_vars /\ Fairness

AgedSafeSpec == AgedInit /\ [][Next]_vars

YoungBurstSafeSpec == YoungInit /\ [][NextWithinTick]_vars

\* One client, whichever, sends MaxSends pieces and every other one.
OneTalks == \E c \in Conns : \A d \in Conns \ {c, Lost} : sends[d] <= 1
SomeoneSends == (\E c \in Conns : Send(c, "part") \/ Send(c, "whole")) /\ OneTalks'

TalkNext ==
  \/ \E c \in Conns : Connect(c) \/ HangUp(c)
  \/ SomeoneSends
  \/ ServerStep

\* Within one tick, with every thread scheduled.
TalkSpec ==
  /\ AgedInit /\ [][TalkNext]_vars
  /\ \A r \in Reactors : WF_vars(SubReactorStep(r))
  /\ \A w \in Workers : WF_vars(WorkerStep(w))
  /\ WF_vars(MainStep)
=============================================================================
