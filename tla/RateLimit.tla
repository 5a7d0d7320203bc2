----------------------------- MODULE RateLimit -----------------------------
(******************************************************************************)
(* POST /session/login and the buckets that limit it (identity/router.py,     *)
(* identity/rate_limit.py, scripts/prune_auth_rate_limits.py).                *)
(*                                                                            *)
(* A login makes sure of its IP's bucket, locks it and looks whether it is    *)
(* blocked, then the same for the account's bucket, and checks the password   *)
(* with both locked.  A bucket that exists is found by one statement and      *)
(* locked by the next: the pruning script may delete it in between.  The      *)
(* variable bucket is what is committed; a bucket held by a login and not     *)
(* there is its uncommitted insert, and what a login computes of a bucket it  *)
(* holds is written when it commits.  Times are kept as ages, which is all    *)
(* that is compared; a transaction takes no time on the scale of the windows. *)
(* Operators named Faulty... are plausible bugs, used by no specification.    *)
(******************************************************************************)
EXTENDS Integers, FiniteSets, Sequences

CONSTANTS
  Clients,        \* API request slots
  Ips, Emails,
  Window, Block,  \* auth_rate_window_seconds, auth_rate_block_seconds
  Limit,          \* auth_login_attempt_limit
  Retention,      \* of the script: four times the longer of Window and Block
  NoBucket        \* no row

Never == Block + 1   \* blocked_until IS NULL

BucketType ==
  [attempts : 0 .. Limit, age : 0 .. Window, block : 0 .. Never, idle : 0 .. Retention + 1]

ASSUME RateLimitAssumption ==
  /\ Window \in Nat \ {0} /\ Block \in Nat \ {0}
  /\ Limit \in Nat \ {0, 1}
  /\ Retention \in Nat /\ Retention >= Window /\ Retention >= Block
  /\ Ips \cap Emails = {}
  /\ NoBucket \notin BucketType

Buckets == Ips \cup Emails

VARIABLES
  bucket,    \* auth_rate_limits
  login,     \* requests under way
  pruned,    \* buckets deleted by the script's transaction, not yet committed
  failures   \* ages of the failed password checks, by IP, within a window

rateVars == <<bucket, login, pruned, failures>>

NoLogin == [pc |-> "idle", ip |-> "", email |-> "", held |-> {}]

RateInit ==
  /\ bucket = [b \in Buckets |-> NoBucket]
  /\ login = [c \in Clients |-> NoLogin]
  /\ pruned = {}
  /\ failures = [i \in Ips |-> <<>>]

-----------------------------------------------------------------------------
(* Buckets                                                                    *)

\* attempts, the ages of window_started_at and updated_at, and the time left
\* until blocked_until (0 when that is past).
Fresh == [attempts |-> 0, age |-> 0, block |-> Never, idle |-> 0]

\* _refresh_window
Refreshed(b) == IF b.block = 0 \/ b.age >= Window THEN Fresh ELSE b

Blocked(b) == b.block \in 1 .. Block

\* blocked_retry_after: a window already used up starts a block.
Examined(b) ==
  LET r == Refreshed(b) IN
  IF ~Blocked(r) /\ r.attempts >= Limit THEN [r EXCEPT !.block = Block] ELSE r

\* record_failed_attempts
Failed(b) ==
  [b EXCEPT !.attempts = @ + 1, !.idle = 0,
            !.block = IF b.attempts + 1 >= Limit THEN Block ELSE @]

Older(n, cap) == IF n < cap THEN n + 1 ELSE n
Aged(b) ==
  [b EXCEPT !.age = Older(@, Window), !.idle = Older(@, Retention + 1),
            !.block = IF @ \in {0, Never} THEN @ ELSE @ - 1]

-----------------------------------------------------------------------------
(* Locks                                                                      *)

IsFree(b) == b \notin pruned /\ \A c \in Clients : b \notin login[c].held

Wanted(c) == IF login[c].pc \in {"findIp", "lockIp"} THEN login[c].ip ELSE login[c].email

\* Where a statement of the login waits for somebody else's lock.
IsWaiting(c) ==
  LET b == Wanted(c) IN
  \/ login[c].pc \in {"findIp", "findAccount"} /\ (bucket[b] = NoBucket \/ b \in pruned) /\ ~IsFree(b)
  \/ login[c].pc \in {"lockIp", "lockAccount"} /\ b \notin login[c].held /\ ~IsFree(b)

\* The bucket as its holder sees it, examined.
Seen(b) == Examined(IF bucket[b] = NoBucket THEN Fresh ELSE bucket[b])

-----------------------------------------------------------------------------
(* A login                                                                    *)

BeginLogin(c, ip, email) ==
  /\ login[c] = NoLogin
  /\ login' = [login EXCEPT ![c] = [pc |-> "findIp", ip |-> ip, email |-> email,
                                    held |-> {}]]
  /\ UNCHANGED <<bucket, pruned, failures>>

\* INSERT ... ON CONFLICT DO NOTHING: waits for an uncommitted row, makes a
\* missing one its own, and leaves one that is there alone.
FindBucket(c) ==
  LET b == Wanted(c) IN
  /\ login[c].pc \in {"findIp", "findAccount"}
  /\ ~IsWaiting(c)
  /\ login' = [login EXCEPT
       ![c].pc = IF @ = "findIp" THEN "lockIp" ELSE "lockAccount",
       ![c].held = IF bucket[b] = NoBucket THEN @ \cup {b} ELSE @]
  /\ UNCHANGED <<bucket, pruned, failures>>

\* SELECT ... FOR UPDATE, then the block: 429 commits what was examined.
LockBucket(c) ==
  LET b == Wanted(c)
      held == login[c].held \cup {b}
  IN  /\ login[c].pc \in {"lockIp", "lockAccount"}
      /\ ~IsWaiting(c)
      /\ bucket[b] # NoBucket \/ b \in login[c].held
      /\ IF Blocked(Seen(b))
         THEN /\ bucket' = [a \in Buckets |-> IF a \in held THEN Seen(a) ELSE bucket[a]]
              /\ login' = [login EXCEPT ![c] = NoLogin]
         ELSE /\ login' = [login EXCEPT ![c].pc = IF @ = "lockIp" THEN "findAccount" ELSE "verify",
                                        ![c].held = held]
              /\ UNCHANGED bucket
      /\ UNCHANGED <<pruned, failures>>

\* The row was deleted after it was found: RuntimeError, answered 500, and
\* everything is rolled back.
BucketGone(c) ==
  /\ login[c].pc \in {"lockIp", "lockAccount"} /\ ~IsWaiting(c)
  /\ bucket[Wanted(c)] = NoBucket /\ Wanted(c) \notin login[c].held
  /\ login' = [login EXCEPT ![c] = NoLogin]
  /\ UNCHANGED <<bucket, pruned, failures>>

\* The wrong password counts against both buckets.
VerifyFails(c) ==
  /\ login[c].pc = "verify"
  /\ bucket' = [b \in Buckets |-> IF b \in login[c].held THEN Failed(Seen(b)) ELSE bucket[b]]
  /\ failures' = [failures EXCEPT ![login[c].ip] = Append(@, 0)]
  /\ login' = [login EXCEPT ![c] = NoLogin]
  /\ UNCHANGED pruned

\* The right one clears the account's bucket, not the IP's.
FaultyVerifySucceeds(c) ==
  /\ login[c].pc = "verify"
  /\ bucket' = [b \in Buckets |-> IF b \in login[c].held THEN Fresh ELSE bucket[b]]
  /\ login' = [login EXCEPT ![c] = NoLogin]
  /\ UNCHANGED <<pruned, failures>>
VerifySucceeds(c) ==
  /\ login[c].pc = "verify"
  /\ bucket' = [bucket EXCEPT ![login[c].email] = Fresh, ![login[c].ip] = Seen(login[c].ip)]
  /\ login' = [login EXCEPT ![c] = NoLogin]
  /\ UNCHANGED <<pruned, failures>>

-----------------------------------------------------------------------------
(* Pruning and time                                                           *)

\* The rows that the script's DELETE is to remove, in whichever order it
\* comes upon them.
Expired(b) == bucket[b] # NoBucket /\ bucket[b].idle > Retention

PruneRow(b) ==
  /\ Expired(b) /\ IsFree(b)
  /\ pruned' = pruned \cup {b}
  /\ UNCHANGED <<bucket, login, failures>>

PruneCommit ==
  /\ pruned # {} /\ \A b \in Buckets \ pruned : ~Expired(b)
  /\ bucket' = [b \in Buckets |-> IF b \in pruned THEN NoBucket ELSE bucket[b]]
  /\ pruned' = {}
  /\ UNCHANGED <<login, failures>>

\* The DELETE waits for a bucket of a login that waits for a bucket it has
\* deleted: PostgreSQL aborts one of the two.
InCycle(c) ==
  /\ IsWaiting(c) /\ Wanted(c) \in pruned
  /\ \E b \in login[c].held : Expired(b)
BreakCycle(c) ==
  /\ InCycle(c)
  /\ \/ login' = [login EXCEPT ![c] = NoLogin] /\ UNCHANGED pruned
     \/ pruned' = {} /\ UNCHANGED login
  /\ UNCHANGED <<bucket, failures>>

\* Failures older than a window are forgotten; the oldest come first.
WithinWindow(ages) ==
  SubSeq(ages, Cardinality({k \in DOMAIN ages : ages[k] >= Window}) + 1, Len(ages))

Tick ==
  /\ pruned = {} /\ \A c \in Clients : login[c].held = {}
  /\ bucket' = [b \in Buckets |-> IF bucket[b] = NoBucket THEN NoBucket ELSE Aged(bucket[b])]
  /\ failures' = [i \in Ips |-> WithinWindow([k \in DOMAIN failures[i] |-> failures[i][k] + 1])]
  /\ UNCHANGED <<login, pruned>>

LoginStep(c) ==
  FindBucket(c) \/ LockBucket(c) \/ BucketGone(c) \/ VerifyFails(c) \/ VerifySucceeds(c)

RateNext ==
  \/ \E c \in Clients :
       \/ \E ip \in Ips, email \in Emails : BeginLogin(c, ip, email)
       \/ LoginStep(c) \/ BreakCycle(c)
  \/ \E b \in Buckets : PruneRow(b)
  \/ PruneCommit
  \/ Tick

RateSpec == RateInit /\ [][RateNext]_rateVars

\* The database queues those who wait for a row and breaks cycles; the script
\* deletes what it set out to delete.
RateFairness ==
  /\ \A c \in Clients : SF_rateVars(LoginStep(c))
  /\ WF_rateVars(\E c \in Clients : BreakCycle(c))
  /\ SF_rateVars(pruned # {} /\ (PruneCommit \/ \E b \in Buckets : PruneRow(b)))

-----------------------------------------------------------------------------
(* Properties                                                                 *)

LoginPhases == {"findIp", "lockIp", "findAccount", "lockAccount", "verify"}

\* Every variable has its type, no bucket counts past the limit, one login
\* holds a bucket, and holds those it checks the password with.
RateTypeOK ==
  /\ bucket \in [Buckets -> BucketType \cup {NoBucket}]
  /\ DOMAIN login = Clients
  /\ \A c \in Clients : login[c] # NoLogin =>
       /\ login[c] \in [pc : LoginPhases, ip : Ips, email : Emails, held : SUBSET Buckets]
       /\ login[c].held \subseteq {login[c].ip, login[c].email}
       /\ login[c].pc \in {"findAccount", "lockAccount"} => login[c].ip \in login[c].held
       /\ login[c].pc = "verify" => login[c].held = {login[c].ip, login[c].email}
  /\ \A c, d \in Clients : c # d => login[c].held \cap login[d].held = {}
  /\ \A c \in Clients : login[c].held \cap pruned = {}
  /\ pruned \in SUBSET {b \in Buckets : Expired(b)}
  /\ \A i \in Ips : failures[i] \in Seq(0 .. Window - 1)

\* However many requests, accounts and successful logins there are between
\* them, one IP fails at most twice the limit within a window: in a window that
\* ends and in the one after it (docs/features/production-authentication.md:33).
FailuresAreLimited == Window <= Block => \A i \in Ips : Len(failures[i]) <= 2 * Limit

\* Every login is answered: logins lock the IP before the account, and a cycle
\* with the pruning script is broken.
EveryLoginEnds == \A c \in Clients : login[c] # NoLogin ~> login[c] = NoLogin
=============================================================================
