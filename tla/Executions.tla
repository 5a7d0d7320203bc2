----------------------------- MODULE Executions -----------------------------
(***************************************************************************)
(* Idempotent commands of the economy: buying an item, using a consumable  *)
(* and drawing from the game gacha (shop/service.py, shop/consumables.py,  *)
(* game/gacha.py, and claim/complete in db/repositories.py).               *)
(*                                                                         *)
(* One transaction inserts the execution row of its request_id, changes    *)
(* coins and assets, completes the row and commits.  What it waits for is  *)
(* modelled: the player's row lock, and another transaction's uncommitted  *)
(* insert of the same request_id.  Purchases and consumption lock the      *)
(* player first; the draw inserts first, whereupon the foreign key takes a *)
(* KEY SHARE lock on the player, and asks for the full lock afterwards.    *)
(*                                                                         *)
(* gacha/service.py (draw_cats) cannot run: its route has no policy and    *)
(* answers 503.  Operators named Faulty... are plausible bugs, used by no  *)
(* specification.                                                          *)
(***************************************************************************)
EXTENDS Integers, FiniteSets, FiniteSetsExt, Functions

CONSTANTS
  Users, Handlers, Requests,           \* players, API request slots, request_ids
  Cats,                                \* cats the gacha gives
  Wallpapers, Furniture, Consumables,  \* catalogue items by category
  Price,                               \* items.price
  DrawCost,                            \* coins by draw count
  DuplicateCoins,                      \* coins for a cat already owned
  Commands,                            \* what players may ask for
  StartBalance, StartQuantity,         \* of every player
  None                                 \* no user, no request, no command

Items == Wallpapers \cup Furniture \cup Consumables
Rewards == Cats \cup Furniture
DrawCounts == DOMAIN DrawCost

CommandType ==
  [op : {"buy"}, item : Items, n : Nat \ {0}] \cup
  [op : {"use"}, item : Consumables, cat : Cats] \cup
  [op : {"draw"}, n : DrawCounts]

ASSUME ExecutionsAssumption ==
  /\ Commands \subseteq CommandType
  /\ DrawCounts \subseteq Nat \ {0}
  /\ \A n \in DrawCounts : DrawCost[n] \in Nat
  /\ Price \in [Items -> Nat]
  /\ StartQuantity \in [Items -> Nat]
  /\ StartBalance \in Nat /\ DuplicateCoins \in Nat
  /\ IsFiniteSet(Requests)

VARIABLES
  balance,    \* users.balance
  quantity,   \* assets.quantity of items, 0 where there is no row
  cats,       \* cats with a row in assets
  execution,  \* gacha_executions, by request_id (unique)
  answers,    \* successful answers ever given
  tx          \* open transactions

vars == <<balance, quantity, cats, execution, answers, tx>>

Closed == [pc |-> "idle", user |-> None, req |-> None, cmd |-> None]
NoExecution == [status |-> "absent", user |-> None, cmd |-> None, result |-> None]

Init ==
  /\ balance = [u \in Users |-> StartBalance]
  /\ quantity = [u \in Users |-> StartQuantity]
  /\ cats = [u \in Users |-> {}]
  /\ execution = [r \in Requests |-> NoExecution]
  /\ answers = {}
  /\ tx = [h \in Handlers |-> Closed]

-----------------------------------------------------------------------------
(* Locks                                                                   *)

FaultyLocksFirst(cmd) == FALSE  \* every command claims before it locks
LocksFirst(cmd) == cmd.op # "draw"

\* FOR UPDATE on the player's row, the foreign key's KEY SHARE, and the
\* uncommitted row of a request_id.
HoldsUser(h) ==
  \/ tx[h].pc = "apply"
  \/ tx[h].pc = "claim" /\ LocksFirst(tx[h].cmd)
SharesUser(h) == tx[h].pc = "upgrade"
HoldsRequest(h) == tx[h].pc \in {"share", "upgrade", "apply"}

\* The transactions that h waits for.
Blockers(h) ==
  {g \in Handlers \ {h} :
     \/ /\ tx[h].pc \in {"lock", "share", "upgrade"}
        /\ HoldsUser(g) /\ tx[g].user = tx[h].user
     \/ /\ tx[h].pc \in {"lock", "upgrade"}
        /\ SharesUser(g) /\ tx[g].user = tx[h].user
     \/ /\ tx[h].pc = "claim"
        /\ HoldsRequest(g) /\ tx[g].req = tx[h].req}

\* Every one of them waits for another one of them.
Deadlocked(waiting) == \A h \in waiting : Blockers(h) \cap waiting # {}

MoveTo(h, pc) == tx' = [tx EXCEPT ![h].pc = pc]
Close(h) == tx' = [tx EXCEPT ![h] = Closed]

-----------------------------------------------------------------------------
(* Transactions                                                            *)

Begin(h, u, r, c) ==
  /\ tx[h] = Closed
  /\ tx' = [tx EXCEPT ![h] = [pc |-> IF LocksFirst(c) THEN "lock" ELSE "claim",
                              user |-> u, req |-> r, cmd |-> c]]
  /\ UNCHANGED <<balance, quantity, cats, execution, answers>>

\* get_for_update, before or after the claim.
LockUser(h) ==
  /\ tx[h].pc \in {"lock", "upgrade"}
  /\ Blockers(h) = {}
  /\ MoveTo(h, IF tx[h].pc = "lock" THEN "claim" ELSE "apply")
  /\ UNCHANGED <<balance, quantity, cats, execution, answers>>

\* The foreign key of a row inserted without the player's lock.
ShareUser(h) ==
  /\ tx[h].pc = "share"
  /\ Blockers(h) = {}
  /\ MoveTo(h, "upgrade")
  /\ UNCHANGED <<balance, quantity, cats, execution, answers>>

FaultySameRequest(e, t) == e.cmd = t.cmd  \* the owner is not compared
SameRequest(e, t) == e.user = t.user /\ e.cmd = t.cmd

Answer(e, t) == [req |-> t.req, user |-> t.user, cmd |-> t.cmd, result |-> e.result]

\* A claim that does not find the row another request completed.
FaultyClaim(h) ==
  /\ tx[h].pc = "claim"
  /\ MoveTo(h, IF LocksFirst(tx[h].cmd) THEN "apply" ELSE "share")
  /\ UNCHANGED <<balance, quantity, cats, execution, answers>>

\* claim: insert the row, or find out what became of the one that is there.
Claim(h) ==
  LET e == execution[tx[h].req] IN
  /\ tx[h].pc = "claim"
  /\ Blockers(h) = {}
  /\ \/ /\ e.status = "absent"
        /\ MoveTo(h, IF LocksFirst(tx[h].cmd) THEN "apply" ELSE "share")
        /\ UNCHANGED answers
     \/ /\ e.status = "COMPLETED"
        /\ answers' = IF SameRequest(e, tx[h]) THEN answers \cup {Answer(e, tx[h])} ELSE answers
        /\ Close(h)
  /\ UNCHANGED <<balance, quantity, cats, execution>>

-----------------------------------------------------------------------------
(* What a command does                                                     *)

Nothing == [i \in Items |-> 0]

\* A wallpaper is bought once; what is used must be there.
Allowed(u, c) ==
  CASE c.op = "buy" -> c.item \in Wallpapers => quantity[u][c.item] = 0
    [] c.op = "use" -> c.cat \in cats[u] /\ quantity[u][c.item] > 0
    [] OTHER -> TRUE

\* A draw that looks for duplicates among its own rewards only.
FaultyDrawEffect(u, drawn) ==
  LET new == Range(drawn) \cap Cats
      ofCats == {k \in DOMAIN drawn : drawn[k] \in Cats}
  IN  [cost |-> DrawCost[Cardinality(DOMAIN drawn)],
       coins |-> DuplicateCoins * (Cardinality(ofCats) - Cardinality(new)),
       items |-> [i \in Items |-> Cardinality({k \in DOMAIN drawn : drawn[k] = i})],
       cats |-> new]

\* The rewards of a draw, one after the other: a cat counts as a duplicate
\* from the second time on, within the draw too.
DrawEffect(u, drawn) ==
  LET new == Range(drawn) \cap (Cats \ cats[u])
      ofCats == {k \in DOMAIN drawn : drawn[k] \in Cats}
  IN  [cost |-> DrawCost[Cardinality(DOMAIN drawn)],
       coins |-> DuplicateCoins * (Cardinality(ofCats) - Cardinality(new)),
       items |-> [i \in Items |-> Cardinality({k \in DOMAIN drawn : drawn[k] = i})],
       cats |-> new]

Effects(u, c) ==
  CASE c.op = "buy" -> {[cost |-> Price[c.item] * c.n, coins |-> 0,
                         items |-> [Nothing EXCEPT ![c.item] = c.n], cats |-> {}]}
    [] c.op = "use" -> {[cost |-> 0, coins |-> 0,
                         items |-> [Nothing EXCEPT ![c.item] = -1], cats |-> {}]}
    [] OTHER -> {DrawEffect(u, drawn) : drawn \in [1 .. c.n -> Rewards]}

Affordable(u, effect) == balance[u] >= effect.cost

\* The quantity is set to what came, not increased by it.
FaultyReceived(u, effect) ==
  [i \in Items |-> IF effect.items[i] > 0 THEN effect.items[i]
                   ELSE quantity[u][i] + effect.items[i]]
Received(u, effect) == [i \in Items |-> quantity[u][i] + effect.items[i]]

\* Coins, assets, the completed execution and the answer, in one commit.
Apply(h) ==
  LET u == tx[h].user
      c == tx[h].cmd
  IN  /\ tx[h].pc = "apply"
      /\ Allowed(u, c)
      /\ \E effect \in Effects(u, c) :
           LET after == balance[u] - effect.cost + effect.coins
               e == [status |-> "COMPLETED", user |-> u, cmd |-> c,
                     result |-> [effect |-> effect, balance |-> after]]
           IN  /\ Affordable(u, effect)
               /\ balance' = [balance EXCEPT ![u] = after]
               /\ quantity' = [quantity EXCEPT ![u] = Received(u, effect)]
               /\ cats' = [cats EXCEPT ![u] = @ \cup effect.cats]
               /\ execution' = [execution EXCEPT ![tx[h].req] = e]
               /\ answers' = answers \cup {Answer(e, tx[h])}
      /\ Close(h)

Refused(h) ==
  \/ ~Allowed(tx[h].user, tx[h].cmd)
  \/ \E effect \in Effects(tx[h].user, tx[h].cmd) : ~Affordable(tx[h].user, effect)

\* The error leaves the transaction open.
FaultyRefuse(h) == tx[h].pc = "apply" /\ Refused(h) /\ UNCHANGED vars

\* The player cannot have or afford it: nothing stays, not even the row.
Refuse(h) ==
  /\ tx[h].pc = "apply"
  /\ Refused(h)
  /\ Close(h)
  /\ UNCHANGED <<balance, quantity, cats, execution, answers>>

\* The process dies or the connection breaks.
Crash(h) ==
  /\ tx[h] # Closed
  /\ Close(h)
  /\ UNCHANGED <<balance, quantity, cats, execution, answers>>

\* PostgreSQL aborts one transaction of a cycle.
BreakDeadlock(h) ==
  /\ \E waiting \in SUBSET Handlers : h \in waiting /\ Deadlocked(waiting)
  /\ Close(h)
  /\ UNCHANGED <<balance, quantity, cats, execution, answers>>

-----------------------------------------------------------------------------
Step(h) == LockUser(h) \/ ShareUser(h) \/ Claim(h) \/ Apply(h) \/ Refuse(h)

Next ==
  \/ \E h \in Handlers, u \in Users, r \in Requests, c \in Commands : Begin(h, u, r, c)
  \/ \E h \in Handlers : Step(h) \/ Crash(h) \/ BreakDeadlock(h)

Spec == Init /\ [][Next]_vars

\* The database queues those who wait for a row, so nobody who could go on
\* time and again is passed over for ever, and it finds cycles.
Fairness == \A h \in Handlers : SF_vars(Step(h)) /\ WF_vars(BreakDeadlock(h))
FairSpec == Spec /\ Fairness

-----------------------------------------------------------------------------
(* Type invariant                                                          *)

EffectType == [cost : Nat, coins : Nat, items : [Items -> Int], cats : SUBSET Cats]
ExecutionType ==
  [status : {"COMPLETED"}, user : Users, cmd : Commands,
   result : [effect : EffectType, balance : Nat]]
TransactionType ==
  [pc : {"lock", "claim", "share", "upgrade", "apply"}, user : Users, req : Requests,
   cmd : Commands]

\* Every variable has its type; a player's lock has one holder, a request_id
\* one uncommitted row and then no committed one.
TypeOK ==
  /\ balance \in [Users -> Nat]
  /\ quantity \in [Users -> [Items -> Nat]]
  /\ cats \in [Users -> SUBSET Cats]
  /\ execution \in [Requests -> ExecutionType \cup {NoExecution}]
  /\ tx \in [Handlers -> TransactionType \cup {Closed}]
  /\ \A h \in Handlers : HoldsRequest(h) => execution[tx[h].req] = NoExecution
  /\ \A g, h \in Handlers : g # h =>
       /\ ~(HoldsUser(g) /\ HoldsUser(h) /\ tx[g].user = tx[h].user)
       /\ ~(HoldsRequest(g) /\ HoldsRequest(h) /\ tx[g].req = tx[h].req)

-----------------------------------------------------------------------------
(* Safety                                                                  *)

ExecutionsOf(u) == {r \in Requests : execution[r].status = "COMPLETED" /\ execution[r].user = u}
Effect(r) == execution[r].result.effect

CoinsOf(u) == [r \in ExecutionsOf(u) |-> Effect(r).coins - Effect(r).cost]
ItemsOf(u, i) == [r \in ExecutionsOf(u) |-> Effect(r).items[i]]

\* Whatever is retried, refused, aborted or lost, a player's coins, items and
\* cats are those the executions account for, each applied exactly once
\* (docs/architecture/part3-integration-contract.md:170).
ExecutedExactlyOnce ==
  \A u \in Users :
    /\ balance[u] = StartBalance + SumFunctionOnSet(CoinsOf(u), ExecutionsOf(u))
    /\ \A i \in Items :
         quantity[u][i] = StartQuantity[i] + SumFunctionOnSet(ItemsOf(u, i), ExecutionsOf(u))
    /\ cats[u] = UNION {Effect(r).cats : r \in ExecutionsOf(u)}

\* Two successful answers to one request_id are the same answer, to the same
\* player, for the same command (docs/api/README.md:486).
AnswersAgree == \A a, b \in answers : a.req = b.req => a = b

\* A cat is new to a player once: no two executions gave the same one.
CatsAreNewOnce ==
  \A u \in Users : \A r, s \in ExecutionsOf(u) :
    r # s => Effect(r).cats \cap Effect(s).cats = {}

\* Purchases and consumption never deadlock among themselves: a cycle needs a
\* draw (docs/architecture/part3-status.md:249).
OnlyDrawsDeadlock ==
  \A waiting \in SUBSET {h \in Handlers : tx[h] # Closed /\ tx[h].cmd.op # "draw"} :
    Deadlocked(waiting) => waiting = {}

-----------------------------------------------------------------------------
(* The promise                                                             *)

CostOf(c) ==
  CASE c.op = "buy" -> Price[c.item] * c.n
    [] c.op = "use" -> 0
    [] OTHER -> DrawCost[c.n]

\* The committed execution of a request_id is its page; claims, locks and
\* transactions that end without a commit are not seen.
Book == INSTANCE CommandBook WITH
  page <- execution, told <- answers, Blank <- NoExecution,
  Cost <- [c \in Commands |-> CostOf(c)]

\* Concurrent, repeated, refused and aborted transactions look like commands
\* that are carried out one at a time, each request_id once.
CarriedOutOnce == Book!BookSpec

-----------------------------------------------------------------------------
(* Liveness                                                                *)

\* Every transaction ends, whatever it waits for.
EveryCommandEnds == \A h \in Handlers : tx[h] # Closed ~> tx[h] = Closed
=============================================================================
