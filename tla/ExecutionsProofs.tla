-------------------------- MODULE ExecutionsProofs --------------------------
(****************************************************************************)
(* Proofs about Executions: the type invariant with the exclusion of locks, *)
(* the agreement of answers, cats that are new once, effects that are       *)
(* exact, the book of commands it implements, and commands that do not      *)
(* deadlock among themselves.                                               *)
(****************************************************************************)
EXTENDS Executions, SetSums, FiniteSetTheorems, TLAPS

USE ExecutionsAssumption DEF ExecutionsAssumption

-----------------------------------------------------------------------------
(* Commands                                                                 *)

\* Each command has the fields its operation needs.
LEMMA CommandFields ==
  ASSUME NEW c \in Commands
  PROVE  \/ c.op = "buy" /\ c.item \in Items /\ c.n \in Nat \ {0}
         \/ c.op = "use" /\ c.item \in Items /\ c.cat \in Cats
         \/ c.op = "draw" /\ c.n \in DrawCounts
BY DEF CommandType, Items

\* A draw never gives more new cats than cats.
LEMMA DrawType ==
  ASSUME NEW u \in Users, NEW n \in DrawCounts, NEW drawn \in [1 .. n -> Rewards]
  PROVE  DrawEffect(u, drawn) \in EffectType
<1> DEFINE new == Range(drawn) \cap (Cats \ cats[u])
           ofCats == {k \in DOMAIN drawn : drawn[k] \in Cats}
           first == {k \in DOMAIN drawn : drawn[k] \in new}
<1>1. /\ n \in Nat
      /\ DOMAIN drawn = 1 .. n /\ IsFiniteSet(1 .. n) /\ Cardinality(1 .. n) = n
  BY FS_Interval
<1>2. \A s \in SUBSET (1 .. n) : IsFiniteSet(s) /\ Cardinality(s) \in Nat
  BY <1>1, FS_Subset, FS_CardinalityType
<1>3. IsFiniteSet(ofCats) /\ IsFiniteSet(first) /\ first \in SUBSET ofCats
  BY <1>1, <1>2
<1>4. Cardinality(first) <= Cardinality(ofCats)
  BY <1>3, FS_Subset
<1>5. [k \in first |-> drawn[k]] \in Surjection(first, new)
  BY DEF Surjection, Range
<1>6. IsFiniteSet(new) /\ Cardinality(new) <= Cardinality(first)
  <2> HIDE DEF new, first
  <2> QED BY <1>3, <1>5, FS_Surjection
<1>7. DuplicateCoins * (Cardinality(ofCats) - Cardinality(new)) \in Nat
  <2>1. /\ Cardinality(new) \in Nat /\ Cardinality(ofCats) \in Nat /\ Cardinality(first) \in Nat
    BY <1>3, <1>6, FS_CardinalityType
  <2>2. Cardinality(ofCats) - Cardinality(new) \in Nat
    BY <1>4, <1>6, <2>1
  <2> HIDE DEF new, ofCats
  <2> QED BY <2>2
<1>8. [i \in Items |-> Cardinality({k \in DOMAIN drawn : drawn[k] = i})] \in [Items -> Nat]
  BY <1>1, <1>2
<1>9. DrawCost[Cardinality(DOMAIN drawn)] \in Nat
  BY <1>1
<1>10. new \in SUBSET Cats
  OBVIOUS
<1> HIDE DEF new, ofCats
<1> QED BY <1>7, <1>8, <1>9, <1>10 DEF DrawEffect, EffectType, new, ofCats

\* What a command that is allowed does leaves no negative quantity, and gives
\* no cat that the player has.
LEMMA EffectTypes ==
  ASSUME quantity \in [Users -> [Items -> Nat]],
         NEW u \in Users, NEW c \in Commands, Allowed(u, c), NEW effect \in Effects(u, c)
  PROVE  /\ effect \in EffectType
         /\ Received(u, effect) \in [Items -> Nat]
         /\ effect.cats \cap cats[u] = {}
         /\ effect.cost = CostOf(c)
<1>1. CASE c.op = "buy"
  <2>1. effect = [cost |-> Price[c.item] * c.n, coins |-> 0,
                  items |-> [Nothing EXCEPT ![c.item] = c.n], cats |-> {}]
    BY <1>1 DEF Effects
  <2>2. c.item \in Items /\ c.n \in Nat
    BY <1>1, CommandFields
  <2>3. Price[c.item] * c.n \in Nat
    <3>1. Price[c.item] \in Nat
      BY <2>2
    <3> QED BY <2>2, <3>1
  <2>4. [Nothing EXCEPT ![c.item] = c.n] \in [Items -> Nat]
    BY <2>2 DEF Nothing
  <2>5. \A i \in Items : quantity[u][i] + [Nothing EXCEPT ![c.item] = c.n][i] \in Nat
    BY <2>4
  <2>6. effect.cost = CostOf(c)
    BY <1>1, <2>1 DEF CostOf
  <2> QED BY <2>1, <2>3, <2>4, <2>5, <2>6 DEF EffectType, Received
<1>2. CASE c.op = "use"
  <2>1. effect = [cost |-> 0, coins |-> 0, items |-> [Nothing EXCEPT ![c.item] = -1], cats |-> {}]
    BY <1>2 DEF Effects
  <2>2. c.item \in Items /\ quantity[u][c.item] > 0
    BY <1>2, CommandFields DEF Allowed
  <2>3. [Nothing EXCEPT ![c.item] = -1] \in [Items -> Int]
    BY <2>2 DEF Nothing
  <2>4. \A i \in Items : quantity[u][i] + [Nothing EXCEPT ![c.item] = -1][i] \in Nat
    BY <2>2 DEF Nothing
  <2>5. effect.cost = CostOf(c)
    BY <1>2, <2>1 DEF CostOf
  <2> QED BY <2>1, <2>3, <2>4, <2>5 DEF EffectType, Received
<1>3. CASE c.op = "draw"
  <2>1. c.n \in DrawCounts
    BY <1>3, CommandFields
  <2>2. PICK drawn \in [1 .. c.n -> Rewards] : effect = DrawEffect(u, drawn)
    BY <1>3 DEF Effects
  <2>3. effect \in EffectType
    BY <2>1, <2>2, DrawType
  <2>4. effect.cats \cap cats[u] = {}
    BY <2>2 DEF DrawEffect
  <2>5. \A i \in Items : effect.items[i] \in Nat
    <3>1. DOMAIN drawn = 1 .. c.n /\ IsFiniteSet(1 .. c.n)
      <4>1. \A n \in DrawCounts : n \in Int
        OBVIOUS
      <4>2. c.n \in Int
        BY <2>1, <4>1, Zenon
      <4> QED BY <4>2, FS_Interval
    <3>2. \A i \in Items : {k \in DOMAIN drawn : drawn[k] = i} \in SUBSET (1 .. c.n)
      BY <3>1
    <3>3. \A i \in Items : Cardinality({k \in DOMAIN drawn : drawn[k] = i}) \in Nat
      BY <3>1, <3>2, FS_Subset, FS_CardinalityType
    <3> QED BY <2>2, <3>3 DEF DrawEffect
  <2>6. Received(u, effect) \in [Items -> Nat]
    BY <2>5 DEF Received
  <2>7. effect.cost = CostOf(c)
    <3>1. DOMAIN drawn = 1 .. c.n /\ Cardinality(1 .. c.n) = c.n
      <4>1. \A n \in DrawCounts : n \in Nat /\ n # 0
        OBVIOUS
      <4>2. c.n \in Nat
        BY <2>1, <4>1, Zenon
      <4> QED BY <4>2, FS_Interval
    <3> QED BY <1>3, <2>2, <3>1 DEF DrawEffect, CostOf
  <2> QED BY <2>3, <2>4, <2>6, <2>7
<1> QED BY <1>1, <1>2, <1>3, CommandFields

-----------------------------------------------------------------------------
(* Transactions                                                             *)

\* Only draws ask for the player's lock after the claim.
StageOK ==
  \A h \in Handlers : tx[h].pc \in {"share", "upgrade"} => ~LocksFirst(tx[h].cmd)

TypeInv == TypeOK /\ StageOK

LEMMA Opened ==
  ASSUME TypeOK, NEW h \in Handlers, tx[h].pc # "idle"
  PROVE  tx[h] \in TransactionType
BY DEF TypeOK, Closed

LEMMA TypeInit == Init => TypeInv
BY DEF Init, TypeInv, TypeOK, StageOK, Closed, HoldsUser, HoldsRequest

\* The locks of one transaction change; it gains none that another one has.
LocksOK ==
  /\ \A g, h \in Handlers : g # h =>
       /\ ~(HoldsUser(g) /\ HoldsUser(h) /\ tx[g].user = tx[h].user)
       /\ ~(HoldsRequest(g) /\ HoldsRequest(h) /\ tx[g].req = tx[h].req)
  /\ StageOK

LEMMA MoveLocks ==
  ASSUME TypeOK, LocksOK, NEW h \in Handlers, NEW pc \in {"claim", "share", "upgrade", "apply"},
         tx[h].pc # "idle", MoveTo(h, pc),
         Blockers(h) = {},
         \/ tx[h].pc = "lock" /\ pc = "claim"
         \/ tx[h].pc = "claim" /\ pc = IF LocksFirst(tx[h].cmd) THEN "apply" ELSE "share"
         \/ tx[h].pc = "share" /\ pc = "upgrade"
         \/ tx[h].pc = "upgrade" /\ pc = "apply"
  PROVE  LocksOK' /\ tx' \in [Handlers -> TransactionType \cup {Closed}]
<1>1. tx[h] \in TransactionType
  BY Opened
<1>2. /\ tx'[h].pc = pc /\ tx'[h].user = tx[h].user /\ tx'[h].req = tx[h].req
      /\ tx'[h].cmd = tx[h].cmd
      /\ \A g \in Handlers \ {h} : tx'[g] = tx[g]
  BY <1>1 DEF MoveTo, TypeOK, TransactionType
<1>3. tx' \in [Handlers -> TransactionType \cup {Closed}]
  <2>1. [tx[h] EXCEPT !.pc = pc] \in TransactionType
    BY <1>1 DEF TransactionType
  <2> QED BY <2>1 DEF MoveTo, TypeOK
<1>4. StageOK'
  BY <1>2 DEF LocksOK, StageOK, LocksFirst
<1>5. \A g \in Handlers \ {h} :
        /\ HoldsUser(g)' <=> HoldsUser(g)
        /\ HoldsRequest(g)' <=> HoldsRequest(g)
  BY <1>2 DEF HoldsUser, HoldsRequest, LocksFirst
<1>6. ASSUME NEW g \in Handlers \ {h}
      PROVE  /\ ~(HoldsUser(g) /\ HoldsUser(h)' /\ tx[g].user = tx[h].user)
             /\ ~(HoldsRequest(g) /\ HoldsRequest(h)' /\ tx[g].req = tx[h].req)
  <2>1. /\ tx[h].pc \in {"lock", "upgrade"} => ~(HoldsUser(g) /\ tx[g].user = tx[h].user)
        /\ tx[h].pc = "claim" => ~(HoldsRequest(g) /\ tx[g].req = tx[h].req)
    BY DEF Blockers
  <2>2. HoldsUser(h)' => HoldsUser(h) \/ tx[h].pc \in {"lock", "upgrade"}
    BY <1>2 DEF HoldsUser, LocksFirst
  <2>3. HoldsRequest(h)' => HoldsRequest(h) \/ tx[h].pc = "claim"
    BY <1>2 DEF HoldsRequest
  <2> QED BY <2>1, <2>2, <2>3 DEF LocksOK
<1>7. LocksOK'
  BY <1>2, <1>4, <1>5, <1>6 DEF LocksOK
<1> QED BY <1>3, <1>7

\* A transaction that ends gives its locks back.
LEMMA CloseLocks ==
  ASSUME TypeOK, LocksOK, NEW h \in Handlers, Close(h)
  PROVE  /\ LocksOK' /\ tx' \in [Handlers -> TransactionType \cup {Closed}]
         /\ tx'[h] = Closed
         /\ \A g \in Handlers \ {h} : tx'[g] = tx[g]
         /\ \A g \in Handlers : HoldsRequest(g)' => HoldsRequest(g) /\ g # h
<1>1. tx'[h] = Closed /\ \A g \in Handlers \ {h} : tx'[g] = tx[g]
  BY DEF Close, TypeOK
<1>2. tx' \in [Handlers -> TransactionType \cup {Closed}]
  BY DEF Close, TypeOK
<1>3. ~HoldsUser(h)' /\ ~HoldsRequest(h)' /\ tx'[h].pc = "idle"
  BY <1>1 DEF HoldsUser, HoldsRequest, Closed
<1>4. \A g \in Handlers \ {h} :
        /\ HoldsUser(g)' <=> HoldsUser(g)
        /\ HoldsRequest(g)' <=> HoldsRequest(g)
  BY <1>1 DEF HoldsUser, HoldsRequest, LocksFirst
<1>5. StageOK'
  BY <1>1, <1>3 DEF LocksOK, StageOK, LocksFirst
<1>6. LocksOK'
  BY <1>1, <1>3, <1>4, <1>5 DEF LocksOK
<1> QED BY <1>1, <1>2, <1>3, <1>4, <1>6

\* What a command applies is what the type invariant says of it.
LEMMA ApplyFacts ==
  ASSUME TypeInv, NEW h \in Handlers, Apply(h)
  PROVE  \E effect \in EffectType, after \in Nat :
           LET u == tx[h].user
               e == [status |-> "COMPLETED", user |-> u, cmd |-> tx[h].cmd,
                     result |-> [effect |-> effect, balance |-> after]]
           IN  /\ Received(u, effect) \in [Items -> Nat]
               /\ effect.cats \cap cats[u] = {}
               /\ effect.cost = CostOf(tx[h].cmd) /\ effect.cost <= balance[u]
               /\ after = balance[u] - effect.cost + effect.coins
               /\ balance' = [balance EXCEPT ![u] = after]
               /\ quantity' = [quantity EXCEPT ![u] = Received(u, effect)]
               /\ cats' = [cats EXCEPT ![u] = @ \cup effect.cats]
               /\ execution' = [execution EXCEPT ![tx[h].req] = e]
               /\ e \in ExecutionType
               /\ answers' = answers \cup {Answer(e, tx[h])}
<1> DEFINE u == tx[h].user
           c == tx[h].cmd
<1>1. u \in Users /\ c \in Commands /\ tx[h].req \in Requests
  BY Opened DEF Apply, TypeInv, TransactionType
<1>2. PICK effect \in Effects(u, c) :
        LET after == balance[u] - effect.cost + effect.coins
            e == [status |-> "COMPLETED", user |-> u, cmd |-> c,
                  result |-> [effect |-> effect, balance |-> after]]
        IN  /\ Affordable(u, effect)
            /\ balance' = [balance EXCEPT ![u] = after]
            /\ quantity' = [quantity EXCEPT ![u] = Received(u, effect)]
            /\ cats' = [cats EXCEPT ![u] = @ \cup effect.cats]
            /\ execution' = [execution EXCEPT ![tx[h].req] = e]
            /\ answers' = answers \cup {Answer(e, tx[h])}
  BY DEF Apply
<1>3. /\ effect \in EffectType /\ Received(u, effect) \in [Items -> Nat]
      /\ effect.cats \cap cats[u] = {} /\ effect.cost = CostOf(c)
  BY <1>1, EffectTypes DEF Apply, TypeInv, TypeOK
<1> DEFINE after == balance[u] - effect.cost + effect.coins
           e == [status |-> "COMPLETED", user |-> u, cmd |-> c,
                 result |-> [effect |-> effect, balance |-> after]]
<1>4. after \in Nat
  <2>1. effect.cost \in Nat /\ effect.coins \in Nat
    BY <1>3 DEF EffectType
  <2>2. balance[u] \in Nat
    BY <1>1 DEF TypeInv, TypeOK
  <2>3. balance[u] >= effect.cost
    BY <1>2 DEF Affordable
  <2> QED BY <2>1, <2>2, <2>3
<1>5. effect.cost <= balance[u]
  <2>1. effect.cost \in Nat /\ balance[u] \in Nat
    BY <1>1, <1>3 DEF EffectType, TypeInv, TypeOK
  <2> QED BY <1>2, <2>1 DEF Affordable
<1>6. e \in ExecutionType
  <2> HIDE DEF after
  <2> QED BY <1>1, <1>3, <1>4 DEF ExecutionType
<1>7. /\ after = balance[u] - effect.cost + effect.coins
      /\ balance' = [balance EXCEPT ![u] = after]
      /\ quantity' = [quantity EXCEPT ![u] = Received(u, effect)]
      /\ cats' = [cats EXCEPT ![u] = @ \cup effect.cats]
      /\ execution' = [execution EXCEPT ![tx[h].req] = e]
      /\ answers' = answers \cup {Answer(e, tx[h])}
  BY <1>2
<1> HIDE DEF after, u, c
<1> QED BY <1>3, <1>4, <1>5, <1>6, <1>7 DEF u, c

LEMMA TypeNext == TypeInv /\ [Next]_vars => TypeInv'
<1> SUFFICES ASSUME TypeInv, [Next]_vars PROVE TypeInv'
  OBVIOUS
<1> DEFINE Kept == UNCHANGED <<balance, quantity, cats, execution>>
           Pending == \A h \in Handlers : HoldsRequest(h) => execution[tx[h].req] = NoExecution
<1>0. LocksOK /\ Pending /\ TypeOK
  BY DEF TypeInv, TypeOK, LocksOK
<1>1. ASSUME NEW h \in Handlers, Close(h), Kept
      PROVE  TypeInv'
  <2>1. Pending'
    BY <1>0, <1>1, CloseLocks
  <2> QED BY <1>0, <1>1, <2>1, CloseLocks DEF TypeInv, TypeOK, LocksOK, ExecutionType, EffectType
<1>2. ASSUME NEW h \in Handlers, NEW pc \in {"claim", "share", "upgrade", "apply"},
             tx[h].pc # "idle", MoveTo(h, pc), Kept, Blockers(h) = {},
             \/ tx[h].pc = "lock" /\ pc = "claim"
             \/ /\ tx[h].pc = "claim" /\ pc = IF LocksFirst(tx[h].cmd) THEN "apply" ELSE "share"
                /\ execution[tx[h].req] = NoExecution
             \/ tx[h].pc = "share" /\ pc = "upgrade"
             \/ tx[h].pc = "upgrade" /\ pc = "apply"
      PROVE  TypeInv'
  <2>1. LocksOK' /\ tx' \in [Handlers -> TransactionType \cup {Closed}]
    BY <1>0, <1>2, MoveLocks
  <2>2. /\ tx'[h].pc = pc /\ tx'[h].req = tx[h].req
        /\ \A g \in Handlers \ {h} : tx'[g] = tx[g]
    BY <1>0, <1>2, Opened DEF MoveTo, TypeOK, TransactionType
  <2>3. Pending'
    BY <1>0, <1>2, <2>2 DEF HoldsRequest
  <2> QED BY <1>0, <1>2, <2>1, <2>3 DEF TypeInv, TypeOK, LocksOK, ExecutionType, EffectType
<1>3. CASE UNCHANGED vars
  BY <1>3 DEF vars, TypeInv, TypeOK, StageOK, HoldsUser, HoldsRequest, ExecutionType, EffectType,
              LocksFirst
<1>4. ASSUME NEW h \in Handlers, NEW u \in Users, NEW r \in Requests, NEW c \in Commands,
             Begin(h, u, r, c)
      PROVE  TypeInv'
  <2> DEFINE new == [pc |-> IF LocksFirst(c) THEN "lock" ELSE "claim",
                     user |-> u, req |-> r, cmd |-> c]
  <2>1. new \in TransactionType
    BY DEF TransactionType
  <2>2. tx'[h] = new /\ \A g \in Handlers \ {h} : tx'[g] = tx[g]
    BY <1>0, <1>4 DEF Begin, TypeOK
  <2>3. tx' \in [Handlers -> TransactionType \cup {Closed}]
    BY <1>0, <1>4, <2>1 DEF Begin, TypeOK
  <2>4. ~HoldsUser(h)' /\ ~HoldsRequest(h)' /\ tx'[h].pc \notin {"share", "upgrade"}
    BY <2>2 DEF HoldsUser, HoldsRequest, LocksFirst
  <2>5. \A g \in Handlers \ {h} :
          /\ HoldsUser(g)' <=> HoldsUser(g)
          /\ HoldsRequest(g)' <=> HoldsRequest(g)
    BY <2>2 DEF HoldsUser, HoldsRequest, LocksFirst
  <2>6. LocksOK'
    BY <1>0, <2>2, <2>4, <2>5 DEF LocksOK, StageOK, LocksFirst
  <2>7. Pending'
    BY <1>0, <1>4, <2>2, <2>4, <2>5 DEF Begin
  <2> QED BY <1>0, <1>4, <2>3, <2>6, <2>7 DEF Begin, TypeInv, TypeOK, LocksOK, ExecutionType, EffectType
<1>5. ASSUME NEW h \in Handlers, LockUser(h)
      PROVE  TypeInv'
  BY <1>2, <1>5 DEF LockUser
<1>6. ASSUME NEW h \in Handlers, ShareUser(h)
      PROVE  TypeInv'
  BY <1>2, <1>6 DEF ShareUser
<1>7. ASSUME NEW h \in Handlers, Claim(h)
      PROVE  TypeInv'
  <2>1. CASE execution[tx[h].req].status = "absent"
    <3>1. tx[h].req \in Requests
      BY <1>0, <1>7, Opened DEF Claim, TransactionType
    <3>2. execution[tx[h].req] = NoExecution
      BY <1>0, <2>1, <3>1 DEF TypeOK, ExecutionType
    <3>3. MoveTo(h, IF LocksFirst(tx[h].cmd) THEN "apply" ELSE "share") /\ Kept
          /\ tx[h].pc = "claim" /\ Blockers(h) = {}
      BY <1>7, <2>1 DEF Claim
    <3> QED BY <1>2, <3>2, <3>3
  <2>2. CASE execution[tx[h].req].status = "COMPLETED"
    BY <1>1, <1>7, <2>2 DEF Claim
  <2> QED BY <1>7, <2>1, <2>2 DEF Claim
<1>8. ASSUME NEW h \in Handlers, Apply(h)
      PROVE  TypeInv'
  <2>1. /\ tx[h].user \in Users /\ tx[h].req \in Requests /\ HoldsRequest(h) /\ Close(h)
    BY <1>0, <1>8, Opened DEF Apply, TransactionType, HoldsRequest
  <2>2. PICK effect \in EffectType, after \in Nat :
          LET u == tx[h].user
              e == [status |-> "COMPLETED", user |-> u, cmd |-> tx[h].cmd,
                    result |-> [effect |-> effect, balance |-> after]]
          IN  /\ Received(u, effect) \in [Items -> Nat]
              /\ effect.cats \cap cats[u] = {}
              /\ balance' = [balance EXCEPT ![u] = after]
              /\ quantity' = [quantity EXCEPT ![u] = Received(u, effect)]
              /\ cats' = [cats EXCEPT ![u] = @ \cup effect.cats]
              /\ execution' = [execution EXCEPT ![tx[h].req] = e]
              /\ e \in ExecutionType
    BY <1>8, ApplyFacts
  <2>3. balance' \in [Users -> Nat] /\ quantity' \in [Users -> [Items -> Nat]]
    BY <1>0, <2>1, <2>2 DEF TypeOK
  <2>4. cats' \in [Users -> SUBSET Cats]
    BY <1>0, <2>1, <2>2 DEF TypeOK, EffectType
  <2>5. execution' \in [Requests -> ExecutionType \cup {NoExecution}]
    BY <1>0, <2>1, <2>2 DEF TypeOK
  <2>6. \A r \in Requests \ {tx[h].req} : execution'[r] = execution[r]
    BY <1>0, <2>1, <2>2 DEF TypeOK
  <2>7. Pending'
    <3> SUFFICES ASSUME NEW g \in Handlers, HoldsRequest(g)'
                 PROVE  execution'[tx'[g].req] = NoExecution
      OBVIOUS
    <3>1. HoldsRequest(g) /\ g # h /\ tx'[g] = tx[g]
      BY <1>0, <2>1, CloseLocks
    <3>2. tx[g].req # tx[h].req /\ tx[g].req \in Requests
      BY <1>0, <2>1, <3>1, Opened DEF LocksOK, HoldsRequest, TransactionType
    <3> QED BY <1>0, <2>6, <3>1, <3>2
  <2> QED BY <1>0, <2>1, <2>3, <2>4, <2>5, <2>7, CloseLocks
          DEF TypeInv, TypeOK, LocksOK, ExecutionType, EffectType
<1>9. ASSUME NEW h \in Handlers, Refuse(h) \/ Crash(h) \/ BreakDeadlock(h)
      PROVE  TypeInv'
  BY <1>1, <1>9 DEF Refuse, Crash, BreakDeadlock
<1> QED BY <1>3, <1>4, <1>5, <1>6, <1>7, <1>8, <1>9 DEF Next, Step

\* Coins and quantities are never negative, a player's lock has one holder,
\* and a request_id one uncommitted row and then no committed one.
THEOREM TypeCorrect == Spec => []TypeOK
<1>1. Spec => []TypeInv
  BY TypeInit, TypeNext, PTL DEF Spec
<1> QED BY <1>1, PTL DEF TypeInv

-----------------------------------------------------------------------------
(* Answers and cats                                                         *)

\* Every answer is that of the completed execution; the cats an execution gave
\* are still there.
AnswersInv ==
  \A a \in answers :
    LET e == execution[a.req] IN
    /\ a.req \in Requests /\ e.status = "COMPLETED"
    /\ a = [req |-> a.req, user |-> e.user, cmd |-> e.cmd, result |-> e.result]

CatsInv ==
  /\ \A u \in Users : \A r \in ExecutionsOf(u) : Effect(r).cats \subseteq cats[u]
  /\ CatsAreNewOnce

LEMMA HistoryInit == Init => AnswersInv /\ CatsInv
BY DEF Init, AnswersInv, CatsInv, CatsAreNewOnce, ExecutionsOf, NoExecution

\* Only a command that is applied changes executions and cats.
LEMMA HistoryFrame ==
  ASSUME TypeInv, [Next]_vars
  PROVE  \/ execution' = execution /\ cats' = cats
            /\ \/ answers' = answers
               \/ \E h \in Handlers :
                    /\ tx[h] \in TransactionType
                    /\ execution[tx[h].req].status = "COMPLETED"
                    /\ SameRequest(execution[tx[h].req], tx[h])
                    /\ answers' = answers \cup {Answer(execution[tx[h].req], tx[h])}
         \/ \E h \in Handlers : Apply(h)
<1>1. ASSUME NEW h \in Handlers, Claim(h)
      PROVE  /\ execution' = execution /\ cats' = cats
             /\ \/ answers' = answers
                \/ /\ tx[h] \in TransactionType
                   /\ execution[tx[h].req].status = "COMPLETED"
                   /\ SameRequest(execution[tx[h].req], tx[h])
                   /\ answers' = answers \cup {Answer(execution[tx[h].req], tx[h])}
  <2>1. tx[h] \in TransactionType
    BY <1>1, Opened DEF Claim, TypeInv
  <2> QED BY <1>1, <2>1 DEF Claim
<1>2. CASE UNCHANGED vars
  BY <1>2 DEF vars
<1>3. ASSUME NEW h \in Handlers,
             \/ \E u \in Users, r \in Requests, c \in Commands : Begin(h, u, r, c)
             \/ LockUser(h) \/ ShareUser(h) \/ Refuse(h) \/ Crash(h) \/ BreakDeadlock(h)
      PROVE  execution' = execution /\ cats' = cats /\ answers' = answers
  BY <1>3 DEF Begin, LockUser, ShareUser, Refuse, Crash, BreakDeadlock
<1> QED BY <1>1, <1>2, <1>3 DEF Next, Step

LEMMA HistoryNext == TypeInv /\ AnswersInv /\ CatsInv /\ [Next]_vars => AnswersInv' /\ CatsInv'
<1> SUFFICES ASSUME TypeInv, AnswersInv, CatsInv, [Next]_vars PROVE AnswersInv' /\ CatsInv'
  OBVIOUS
<1>1. CASE execution' = execution /\ cats' = cats
  <2>1. CatsInv'
    BY <1>1 DEF CatsInv, CatsAreNewOnce, ExecutionsOf, Effect
  <2>2. CASE answers' = answers
    BY <1>1, <2>1, <2>2 DEF AnswersInv
  <2>3. ASSUME NEW h \in Handlers, tx[h] \in TransactionType,
               execution[tx[h].req].status = "COMPLETED",
               SameRequest(execution[tx[h].req], tx[h]),
               answers' = answers \cup {Answer(execution[tx[h].req], tx[h])}
        PROVE  AnswersInv'
    BY <1>1, <2>3 DEF AnswersInv, Answer, SameRequest, TransactionType
  <2>4. CASE \E h \in Handlers : Apply(h)
    <3>1. PICK h \in Handlers : Apply(h)
      BY <2>4
    <3>2. tx[h].req \in Requests /\ execution[tx[h].req] = NoExecution
      BY <3>1, Opened DEF Apply, TypeInv, TypeOK, HoldsRequest, TransactionType
    <3>3. PICK e \in ExecutionType : execution' = [execution EXCEPT ![tx[h].req] = e]
      BY <3>1, ApplyFacts
    <3>4. execution'[tx[h].req].status = "COMPLETED"
      BY <3>2, <3>3 DEF TypeInv, TypeOK, ExecutionType
    <3> QED BY <1>1, <3>2, <3>4 DEF NoExecution
  <2> QED BY <1>1, <2>1, <2>2, <2>3, <2>4, HistoryFrame
<1>2. ASSUME NEW h \in Handlers, Apply(h)
      PROVE  AnswersInv' /\ CatsInv'
  <2>1. PICK u \in Users, q \in Requests :
          u = tx[h].user /\ q = tx[h].req /\ execution[q] = NoExecution
    BY <1>2, Opened DEF Apply, TypeInv, TypeOK, HoldsRequest, TransactionType
  <2>2. PICK effect \in EffectType, after \in Nat :
          LET e == [status |-> "COMPLETED", user |-> u, cmd |-> tx[h].cmd,
                    result |-> [effect |-> effect, balance |-> after]]
          IN  /\ effect.cats \cap cats[u] = {}
              /\ cats' = [cats EXCEPT ![u] = @ \cup effect.cats]
              /\ execution' = [execution EXCEPT ![q] = e]
              /\ answers' = answers \cup {Answer(e, tx[h])}
    BY <1>2, <2>1, ApplyFacts
  <2> DEFINE e == [status |-> "COMPLETED", user |-> u, cmd |-> tx[h].cmd,
                   result |-> [effect |-> effect, balance |-> after]]
  <2>3. execution'[q] = e /\ \A r \in Requests \ {q} : execution'[r] = execution[r]
    BY <2>1, <2>2 DEF TypeInv, TypeOK
  <2>4. \A a \in answers : a.req # q
    BY <2>1 DEF AnswersInv, NoExecution
  <2>5. AnswersInv'
    <3> SUFFICES ASSUME NEW a \in answers'
                 PROVE  /\ a.req \in Requests /\ execution'[a.req].status = "COMPLETED"
                        /\ a = [req |-> a.req, user |-> execution'[a.req].user,
                                cmd |-> execution'[a.req].cmd,
                                result |-> execution'[a.req].result]
      BY DEF AnswersInv
    <3>1. CASE a \in answers
      <4>1. a.req \in Requests \ {q}
        BY <2>4, <3>1 DEF AnswersInv
      <4> QED BY <2>3, <3>1, <4>1 DEF AnswersInv
    <3>2. CASE a = Answer(e, tx[h])
      BY <2>1, <2>3, <3>2 DEF Answer
    <3> QED BY <2>2, <3>1, <3>2
  <2>6. /\ cats'[u] = cats[u] \cup effect.cats
        /\ \A v \in Users : cats[v] \subseteq cats'[v]
    BY <2>1, <2>2 DEF TypeInv, TypeOK
  <2>7. /\ Effect(q)' = effect
        /\ \A r \in Requests \ {q} : Effect(r)' = Effect(r)
    BY <2>3 DEF Effect
  <2>8. \A v \in Users : \A r \in ExecutionsOf(v)' :
          \/ r = q /\ v = u
          \/ r # q /\ r \in ExecutionsOf(v) /\ Effect(r)' = Effect(r)
    BY <2>3, <2>7 DEF ExecutionsOf
  <2>9. \A v \in Users : \A r \in ExecutionsOf(v)' : Effect(r)'.cats \subseteq cats'[v]
    BY <2>6, <2>7, <2>8 DEF CatsInv
  <2>10. CatsAreNewOnce'
    <3> SUFFICES ASSUME NEW v \in Users, NEW r \in ExecutionsOf(v)', NEW s \in ExecutionsOf(v)',
                        r # s
                 PROVE  Effect(r)'.cats \cap Effect(s)'.cats = {}
      BY DEF CatsAreNewOnce
    <3>1. CASE r # q /\ s # q
      BY <2>8, <3>1 DEF CatsInv, CatsAreNewOnce
    <3>2. CASE r = q
      <4>1. v = u /\ Effect(s)' = Effect(s) /\ Effect(s).cats \subseteq cats[u]
        BY <2>8, <3>2 DEF CatsInv
      <4> QED BY <2>2, <2>7, <3>2, <4>1
    <3>3. CASE s = q
      <4>1. v = u /\ Effect(r)' = Effect(r) /\ Effect(r).cats \subseteq cats[u]
        BY <2>8, <3>3 DEF CatsInv
      <4> QED BY <2>2, <2>7, <3>3, <4>1
    <3> QED BY <3>1, <3>2, <3>3
  <2> QED BY <2>5, <2>9, <2>10 DEF CatsInv
<1> QED BY <1>1, <1>2, HistoryFrame

LEMMA HistoryInvariant == Spec => [](TypeInv /\ AnswersInv /\ CatsInv)
BY TypeInit, TypeNext, HistoryInit, HistoryNext, PTL DEF Spec

\* Two successful answers to one request_id are the same.
THEOREM RequestsHaveOneAnswer == Spec => []AnswersAgree
<1>1. AnswersInv => AnswersAgree
  BY DEF AnswersInv, AnswersAgree
<1> QED BY <1>1, HistoryInvariant, PTL

\* No two executions gave a player the same cat as a new one.
THEOREM NewCatsAreNew == Spec => []CatsAreNewOnce
<1>1. CatsInv => CatsAreNewOnce
  BY DEF CatsInv
<1> QED BY <1>1, HistoryInvariant, PTL

-----------------------------------------------------------------------------
(* Effects                                                                  *)

\* Only a command that is applied changes what a player has.
LEMMA EffectsFrame ==
  ASSUME [Next]_vars
  PROVE  \/ UNCHANGED <<balance, quantity, cats, execution>>
         \/ \E h \in Handlers : Apply(h)
BY DEF vars, Next, Step, Begin, LockUser, ShareUser, Claim, Refuse, Crash, BreakDeadlock

LEMMA EffectsNext ==
  ASSUME TypeInv, ExecutedExactlyOnce, [Next]_vars
  PROVE  ExecutedExactlyOnce'
<1>1. CASE UNCHANGED <<balance, quantity, cats, execution>>
  <2>1. \A r : Effect(r)' = Effect(r)
    BY <1>1 DEF Effect
  <2>2. \A u : ExecutionsOf(u)' = ExecutionsOf(u)
    BY <1>1 DEF ExecutionsOf
  <2>3. \A u : CoinsOf(u)' = CoinsOf(u) /\ \A i : ItemsOf(u, i)' = ItemsOf(u, i)
    BY <2>1, <2>2 DEF CoinsOf, ItemsOf
  <2> QED BY <1>1, <2>1, <2>2, <2>3 DEF ExecutedExactlyOnce
<1>2. ASSUME NEW h \in Handlers, Apply(h)
      PROVE  ExecutedExactlyOnce'
  <2>1. PICK u \in Users, q \in Requests :
          u = tx[h].user /\ q = tx[h].req /\ execution[q] = NoExecution
    BY <1>2, Opened DEF Apply, TypeInv, TypeOK, HoldsRequest, TransactionType
  <2>2. PICK effect \in EffectType, after \in Nat :
          LET p == tx[h].user
              e == [status |-> "COMPLETED", user |-> p, cmd |-> tx[h].cmd,
                    result |-> [effect |-> effect, balance |-> after]]
          IN  /\ Received(p, effect) \in [Items -> Nat]
              /\ effect.cats \cap cats[p] = {}
              /\ after = balance[p] - effect.cost + effect.coins
              /\ balance' = [balance EXCEPT ![p] = after]
              /\ quantity' = [quantity EXCEPT ![p] = Received(p, effect)]
              /\ cats' = [cats EXCEPT ![p] = @ \cup effect.cats]
              /\ execution' = [execution EXCEPT ![tx[h].req] = e]
              /\ e \in ExecutionType
              /\ answers' = answers \cup {Answer(e, tx[h])}
    BY <1>2, ApplyFacts
  <2>3. /\ execution'[q].status = "COMPLETED" /\ execution'[q].user = u
        /\ execution'[q].result.effect = effect
        /\ \A r \in Requests \ {q} : execution'[r] = execution[r]
    BY <2>1, <2>2 DEF TypeInv, TypeOK
  <2>4. Effect(q)' = effect /\ \A r \in Requests \ {q} : Effect(r)' = Effect(r)
    BY <2>3 DEF Effect
  <2> SUFFICES ASSUME NEW v \in Users
               PROVE  /\ balance'[v] = StartBalance + SumFunctionOnSet(CoinsOf(v)', ExecutionsOf(v)')
                      /\ \A i \in Items : quantity'[v][i] =
                           StartQuantity[i] + SumFunctionOnSet(ItemsOf(v, i)', ExecutionsOf(v)')
                      /\ cats'[v] = UNION {Effect(r)'.cats : r \in ExecutionsOf(v)'}
    BY DEF ExecutedExactlyOnce
  <2>5. PICK A, B : A = ExecutionsOf(v) /\ B = ExecutionsOf(v)'
    OBVIOUS
  <2>6. /\ A \subseteq Requests /\ q \notin A /\ IsFiniteSet(A)
        /\ \A r \in A : Effect(r) \in EffectType /\ Effect(r)' = Effect(r)
    <3>1. A \subseteq Requests /\ q \notin A
      BY <2>1, <2>5 DEF ExecutionsOf, NoExecution
    <3>2. \A r \in A : Effect(r) \in EffectType
      BY <2>5, <3>1 DEF ExecutionsOf, Effect, TypeInv, TypeOK, ExecutionType, NoExecution
    <3> QED BY <2>4, <3>1, <3>2, FS_Subset
  <2>7. /\ balance[v] = StartBalance + SumFunctionOnSet(CoinsOf(v), A)
        /\ \A i \in Items :
             quantity[v][i] = StartQuantity[i] + SumFunctionOnSet(ItemsOf(v, i), A)
        /\ cats[v] = UNION {Effect(r).cats : r \in A}
    BY <2>5 DEF ExecutedExactlyOnce
  <2>8. CASE v # u
    <3>1. B = A /\ balance'[v] = balance[v] /\ quantity'[v] = quantity[v] /\ cats'[v] = cats[v]
      BY <2>1, <2>2, <2>3, <2>5, <2>8 DEF ExecutionsOf, NoExecution, TypeInv, TypeOK
    <3>2. CoinsOf(v)' = CoinsOf(v) /\ \A i \in Items : ItemsOf(v, i)' = ItemsOf(v, i)
      BY <2>5, <2>6, <3>1 DEF CoinsOf, ItemsOf
    <3>3. UNION {Effect(r)'.cats : r \in B} = UNION {Effect(r).cats : r \in A}
      BY <2>6, <3>1
    <3> QED BY <2>5, <2>7, <3>1, <3>2, <3>3
  <2>9. CASE v = u
    <3>1. B = A \cup {q}
      BY <2>1, <2>3, <2>5, <2>9 DEF ExecutionsOf
    <3>2. /\ effect.coins \in Nat /\ effect.cost \in Nat
          /\ \A i \in Items : effect.items[i] \in Int
          /\ \A r \in A : /\ Effect(r).coins \in Nat /\ Effect(r).cost \in Nat
                          /\ \A i \in Items : Effect(r).items[i] \in Int
      BY <2>6 DEF EffectType
    <3>3. balance'[v] = StartBalance + SumFunctionOnSet(CoinsOf(v)', B)
      <4>1. PICK f, g : f = CoinsOf(v) /\ g = CoinsOf(v)'
        OBVIOUS
      <4>2. /\ \A r \in A : f[r] = Effect(r).coins - Effect(r).cost
            /\ \A r \in B : g[r] = Effect(r)'.coins - Effect(r)'.cost
        BY <2>5, <4>1 DEF CoinsOf
      <4>3. /\ \A r \in A : f[r] = g[r] /\ g[r] \in Int
            /\ g[q] = effect.coins - effect.cost
        BY <2>4, <2>6, <3>1, <3>2, <4>2
      <4>4. \A r \in A \cup {q} : g[r] \in Int
        BY <3>2, <4>3
      <4>5. /\ SumFunctionOnSet(g, B) = SumFunctionOnSet(f, A) + g[q]
            /\ SumFunctionOnSet(f, A) \in Int
        BY <2>6, <3>1, <4>3, <4>4, SumGrows
      <4>6. balance'[v] = balance[v] - effect.cost + effect.coins
        BY <2>1, <2>2, <2>9 DEF TypeInv, TypeOK
      <4>7. balance[v] = StartBalance + SumFunctionOnSet(f, A)
        BY <2>7, <4>1
      <4>8. balance'[v] = StartBalance + SumFunctionOnSet(g, B)
        BY <3>2, <4>3, <4>5, <4>6, <4>7
      <4> QED BY <4>1, <4>8
    <3>4. ASSUME NEW i \in Items
          PROVE  quantity'[v][i] = StartQuantity[i] + SumFunctionOnSet(ItemsOf(v, i)', B)
      <4>1. PICK f, g : f = ItemsOf(v, i) /\ g = ItemsOf(v, i)'
        OBVIOUS
      <4>2. /\ \A r \in A : f[r] = Effect(r).items[i]
            /\ \A r \in B : g[r] = Effect(r)'.items[i]
        BY <2>5, <4>1 DEF ItemsOf
      <4>3. /\ \A r \in A : f[r] = g[r] /\ g[r] \in Int
            /\ g[q] = effect.items[i]
        BY <2>4, <2>6, <3>1, <3>2, <4>2
      <4>4. \A r \in A \cup {q} : g[r] \in Int
        BY <3>2, <4>3
      <4>5. /\ SumFunctionOnSet(g, B) = SumFunctionOnSet(f, A) + g[q]
            /\ SumFunctionOnSet(f, A) \in Int
        BY <2>6, <3>1, <4>3, <4>4, SumGrows
      <4>6. quantity'[v][i] = quantity[v][i] + effect.items[i]
        BY <2>1, <2>2, <2>9 DEF TypeInv, TypeOK, Received
      <4>7. quantity[v][i] = StartQuantity[i] + SumFunctionOnSet(f, A)
        BY <2>7, <4>1
      <4>8. StartQuantity[i] \in Int /\ effect.items[i] \in Int
        BY <3>2
      <4>9. quantity'[v][i] = StartQuantity[i] + SumFunctionOnSet(g, B)
        BY <4>3, <4>5, <4>6, <4>7, <4>8
      <4> QED BY <4>1, <4>9
    <3>5. cats'[v] = UNION {Effect(r)'.cats : r \in B}
      <4>1. cats'[v] = cats[v] \cup effect.cats
        BY <2>1, <2>2, <2>9 DEF TypeInv, TypeOK
      <4>2. UNION {Effect(r)'.cats : r \in B} = (UNION {Effect(r).cats : r \in A}) \cup effect.cats
        BY <2>4, <2>6, <3>1
      <4> QED BY <2>7, <4>1, <4>2
    <3> QED BY <2>5, <3>3, <3>4, <3>5
  <2> QED BY <2>8, <2>9
<1> QED BY <1>1, <1>2, EffectsFrame

\* What a player has is what they started with and what their executions
\* account for: no retry, abort, deadlock or crash applies one twice or half.
THEOREM EffectsAreExact == Spec => []ExecutedExactlyOnce
<1>1. Init => ExecutedExactlyOnce
  <2> SUFFICES ASSUME Init, NEW u \in Users
               PROVE  /\ balance[u] = StartBalance + SumFunctionOnSet(CoinsOf(u), ExecutionsOf(u))
                      /\ \A i \in Items : quantity[u][i] =
                           StartQuantity[i] + SumFunctionOnSet(ItemsOf(u, i), ExecutionsOf(u))
                      /\ cats[u] = UNION {Effect(r).cats : r \in ExecutionsOf(u)}
    BY DEF ExecutedExactlyOnce
  <2>1. /\ ExecutionsOf(u) = {} /\ balance[u] = StartBalance
        /\ quantity[u] = StartQuantity /\ cats[u] = {}
    BY DEF Init, NoExecution, ExecutionsOf
  <2>2. /\ SumFunctionOnSet(CoinsOf(u), {}) = 0
        /\ \A i \in Items : SumFunctionOnSet(ItemsOf(u, i), {}) = 0
    BY SumOfNothing
  <2>3. \A i \in Items : StartQuantity[i] \in Int
    OBVIOUS
  <2> QED BY <2>1, <2>2, <2>3
<1>2. TypeInv /\ ExecutedExactlyOnce /\ [Next]_vars => ExecutedExactlyOnce'
  BY EffectsNext
<1> QED BY <1>1, <1>2, HistoryInvariant, PTL DEF Spec

-----------------------------------------------------------------------------
(* The book                                                                 *)

LEMMA BookBegins == Init => Book!BookInit
BY DEF Init, Book!BookInit

\* A command that is applied writes its page.
LEMMA AppliedIsWritten ==
  ASSUME TypeInv, NEW h \in Handlers, Apply(h)
  PROVE  Book!Write(tx[h].req)
<1>1. PICK u \in Users, q \in Requests, c \in Commands :
        u = tx[h].user /\ q = tx[h].req /\ c = tx[h].cmd /\ execution[q] = NoExecution
  BY Opened DEF Apply, TypeInv, TypeOK, HoldsRequest, TransactionType
<1>2. PICK effect \in EffectType, after \in Nat :
        LET e == [status |-> "COMPLETED", user |-> u, cmd |-> c,
                  result |-> [effect |-> effect, balance |-> after]]
        IN  /\ Received(u, effect) \in [Items -> Nat]
            /\ effect.cats \cap cats[u] = {}
            /\ effect.cost = CostOf(c) /\ effect.cost <= balance[u]
            /\ after = balance[u] - effect.cost + effect.coins
            /\ balance' = [balance EXCEPT ![u] = after]
            /\ quantity' = [quantity EXCEPT ![u] = Received(u, effect)]
            /\ cats' = [cats EXCEPT ![u] = @ \cup effect.cats]
            /\ execution' = [execution EXCEPT ![q] = e]
            /\ answers' = answers \cup {Answer(e, tx[h])}
  BY <1>1, ApplyFacts
<1> DEFINE e == [status |-> "COMPLETED", user |-> u, cmd |-> c,
                 result |-> [effect |-> effect, balance |-> after]]
<1>3. execution'[q] = e /\ execution' = [execution EXCEPT ![q] = e]
  BY <1>1, <1>2 DEF TypeInv, TypeOK
<1>4. /\ e.user = u /\ e.cmd = c /\ e.result.effect = effect /\ e.result.balance = after
      /\ e # NoExecution
  BY DEF NoExecution
<1>5. Book!Bears(u, effect)
  <2>1. effect.coins \in Nat
    BY DEF EffectType
  <2>2. \A i \in Items : quantity[u][i] + effect.items[i] \in Nat
    BY <1>2 DEF Received
  <2> QED BY <1>2, <2>1, <2>2 DEF Book!Bears
<1>6. effect.cost = [d \in Commands |-> CostOf(d)][c]
  BY <1>2
<1>7. /\ balance' = [balance EXCEPT ![u] = @ - effect.cost + effect.coins]
      /\ after = balance'[u]
  BY <1>2 DEF TypeInv, TypeOK
<1>8. quantity' = [quantity EXCEPT ![u] = [i \in Items |-> @[i] + effect.items[i]]]
  BY <1>2 DEF Received, TypeInv, TypeOK
<1>9. Answer(e, tx[h]) = Book!AnswerOn(q)'
  BY <1>1, <1>3, <1>4 DEF Answer, Book!AnswerOn
<1>10. /\ execution'[q].user = u /\ execution'[q].cmd = c
       /\ execution'[q].result.effect = effect /\ execution'[q].result.balance = balance'[u]
       /\ execution'[q] # NoExecution
       /\ execution' = [execution EXCEPT ![q] = execution'[q]]
  BY <1>3, <1>4, <1>7
<1>11. answers' = answers \cup {Book!AnswerOn(q)'}
  BY <1>2, <1>9
<1>12. cats' = [cats EXCEPT ![u] = @ \cup effect.cats]
  BY <1>2
<1> HIDE DEF e
<1>13. Book!Write(q)
  BY <1>1, <1>5, <1>6, <1>7, <1>8, <1>10, <1>11, <1>12 DEF Book!Write
<1> QED BY <1>1, <1>13

\* Every other step tells a page again, or the book does not see it.
LEMMA OthersTell ==
  ASSUME TypeInv, [Next]_vars, ~ \E h \in Handlers : Apply(h)
  PROVE  (\E r \in Requests : Book!Tell(r)) \/ UNCHANGED Book!bookVars
<1>1. UNCHANGED <<balance, quantity, cats, execution>>
  BY EffectsFrame
<1>2. CASE answers' = answers
  BY <1>1, <1>2 DEF Book!bookVars
<1>3. ASSUME NEW h \in Handlers, tx[h] \in TransactionType,
             execution[tx[h].req].status = "COMPLETED",
             SameRequest(execution[tx[h].req], tx[h]),
             answers' = answers \cup {Answer(execution[tx[h].req], tx[h])}
      PROVE  \E r \in Requests : Book!Tell(r)
  <2>1. tx[h].req \in Requests /\ execution[tx[h].req] # NoExecution
    BY <1>3 DEF TransactionType, NoExecution
  <2>2. Answer(execution[tx[h].req], tx[h]) = Book!AnswerOn(tx[h].req)
    BY <1>3 DEF Answer, SameRequest, Book!AnswerOn
  <2> QED BY <1>1, <1>3, <2>1, <2>2 DEF Book!Tell
<1> QED BY <1>2, <1>3, HistoryFrame

\* However transactions overlap, wait, are repeated, refused or aborted, what
\* players and the database see is a book in which each request_id is written
\* at most once, whole, and then only told again (shop/service.py,
\* shop/consumables.py, game/gacha.py, db/repositories.py claim and complete).
THEOREM ExecutionsImplementBook == Spec => CarriedOutOnce
<1>1. ASSUME TypeInv, [Next]_vars
      PROVE  [Book!BookNext]_Book!bookVars
  <2>1. ASSUME NEW h \in Handlers, Apply(h)
        PROVE  Book!BookNext
    <3>1. tx[h].req \in Requests
      BY <1>1, <2>1, Opened DEF Apply, TypeInv, TransactionType
    <3> QED BY <1>1, <2>1, <3>1, AppliedIsWritten DEF Book!BookNext
  <2> QED BY <1>1, <2>1, OthersTell DEF Book!BookNext
<1> QED BY <1>1, BookBegins, HistoryInvariant, PTL DEF Spec, CarriedOutOnce, Book!BookSpec

\* Whatever tells a page tells what is written on it, and that never changes.
ToldFromPages ==
  /\ DOMAIN execution = Requests
  /\ \A a \in answers :
       a.req \in Requests /\ execution[a.req] # NoExecution /\ a = Book!AnswerOn(a.req)

\* The book itself keeps answers to one request_id in agreement: a system that
\* implements it has nothing more to show (docs/api/README.md:486).
THEOREM BookAnswersAgree == CarriedOutOnce => []AnswersAgree
<1>1. Book!BookInit => ToldFromPages
  BY DEF Book!BookInit, ToldFromPages
<1>2. ASSUME ToldFromPages, [Book!BookNext]_Book!bookVars
      PROVE  ToldFromPages'
  <2>1. CASE UNCHANGED Book!bookVars
    BY <1>2, <2>1 DEF Book!bookVars, ToldFromPages, Book!AnswerOn
  <2>2. ASSUME NEW r \in Requests, Book!Tell(r)
        PROVE  ToldFromPages'
    BY <1>2, <2>2 DEF Book!Tell, ToldFromPages, Book!AnswerOn
  <2>3. ASSUME NEW r \in Requests, Book!Write(r)
        PROVE  ToldFromPages'
    <3>1. /\ execution[r] = NoExecution /\ execution'[r] # NoExecution
          /\ execution' = [execution EXCEPT ![r] = execution'[r]]
          /\ answers' = answers \cup {Book!AnswerOn(r)'}
      BY <2>3 DEF Book!Write
    <3>2. /\ DOMAIN execution' = Requests
          /\ \A q \in Requests \ {r} : execution'[q] = execution[q]
      BY <1>2, <3>1 DEF ToldFromPages
    <3>3. \A a \in answers : a.req \in Requests \ {r}
      BY <1>2, <3>1 DEF ToldFromPages
    <3>4. \A a \in answers : a.req \in Requests /\ execution'[a.req] # NoExecution
                             /\ a = Book!AnswerOn(a.req)'
      BY <1>2, <3>2, <3>3 DEF ToldFromPages, Book!AnswerOn
    <3>5. Book!AnswerOn(r)'.req = r
      BY DEF Book!AnswerOn
    <3> QED BY <3>1, <3>2, <3>4, <3>5 DEF ToldFromPages
  <2> QED BY <1>2, <2>1, <2>2, <2>3 DEF Book!BookNext
<1>3. ToldFromPages => AnswersAgree
  BY DEF ToldFromPages, AnswersAgree
<1> QED BY <1>1, <1>2, <1>3, PTL DEF CarriedOutOnce, Book!BookSpec

-----------------------------------------------------------------------------
(* Deadlocks                                                                *)

\* Who has both locks waits for nobody; who waits for a request_id waits for a
\* transaction with both; who waits for the player waits for one of these.
THEOREM DeadlockNeedsADraw == Spec => []OnlyDrawsDeadlock
<1>1. TypeInv => OnlyDrawsDeadlock
  <2> SUFFICES ASSUME TypeInv,
                      NEW waiting \in SUBSET {h \in Handlers : tx[h] # Closed /\ tx[h].cmd.op # "draw"},
                      Deadlocked(waiting), NEW h \in waiting
               PROVE  FALSE
    BY DEF OnlyDrawsDeadlock
  <2>1. \A g \in waiting : tx[g].pc \in {"lock", "claim", "apply"} /\ LocksFirst(tx[g].cmd)
    BY DEF TypeInv, TypeOK, StageOK, TransactionType, LocksFirst
  <2>2. \A g \in waiting : \E k \in waiting : k \in Blockers(g)
    BY DEF Deadlocked
  <2>3. \A g \in waiting : tx[g].pc # "apply"
    BY <2>2 DEF Blockers
  <2>4. \A g \in waiting : tx[g].pc # "claim"
    BY <2>1, <2>2, <2>3 DEF Blockers, HoldsRequest
  <2>5. \A g \in waiting : tx[g].pc # "lock"
    BY <2>1, <2>2, <2>3, <2>4 DEF Blockers, HoldsUser, SharesUser
  <2> QED BY <2>1, <2>3, <2>4, <2>5
<1> QED BY <1>1, HistoryInvariant, PTL
=============================================================================
