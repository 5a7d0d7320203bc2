------------------------------ MODULE Accounts ------------------------------
(****************************************************************************)
(* How rows of users come to be (identity/router.py, register and           *)
(* development_session; api/dependencies.py, resolve_current_user).         *)
(*                                                                          *)
(* A registration counts itself in its IP's bucket, looks the e-mail up,    *)
(* inserts the user and commits, the bucket locked all along; when another  *)
(* transaction has inserted the e-mail in between, it is rolled back and    *)
(* counted again.  A request signed in by the host system looks its user up *)
(* and creates it, or brings it up to date, in a commit of its own.         *)
(*                                                                          *)
(* Every INSERT and UPDATE waits for an uncommitted row with the same key.  *)
(* The window of a bucket ends by an action; RateLimit has the times.       *)
(* Operators named Faulty... are plausible bugs, used by no specification.  *)
(****************************************************************************)
EXTENDS Integers, FiniteSets

CONSTANTS
  Requests,    \* API request slots
  Ips,
  Emails,      \* normalized: strip().lower()
  Hosts,       \* user ids of the host system
  OwnEmail,    \* host-<id>@invalid.local, by user of the host system
  DevEmail,    \* DEV_USER_EMAIL
  Limit,       \* auth_registration_attempt_limit
  NoOne

AllEmails == Emails \cup {OwnEmail[h] : h \in Hosts}

ASSUME AccountsAssumption ==
  /\ DevEmail \in Emails
  /\ DOMAIN OwnEmail = Hosts
  /\ Limit \in Nat \ {0}
  /\ NoOne \notin AllEmails \cup Hosts
  /\ IsFiniteSet(Requests)

VARIABLES
  users,     \* committed rows: [email, host]
  request,   \* what each request is doing
  attempts,  \* committed attempts of the registration buckets, by IP
  asked,     \* registrations let through since the window began, by IP
  made       \* accounts registered since then, by IP

accountVars == <<users, request, attempts, asked, made>>

NoRequest == [pc |-> "idle", ip |-> NoOne, email |-> NoOne, host |-> NoOne, known |-> NoOne]

AccountsInit ==
  /\ users = {}
  /\ request = [r \in Requests |-> NoRequest]
  /\ attempts = [i \in Ips |-> 0]
  /\ asked = [i \in Ips |-> 0]
  /\ made = [i \in Ips |-> 0]

\* Who has the bucket locked, and who has inserted an e-mail and not committed.
HasBucket(i) == \E r \in Requests : request[r].pc \in {"insert", "commit"} /\ request[r].ip = i
IsPending(email) == \E r \in Requests : request[r].pc = "commit" /\ request[r].email = email
IsTaken(email) == \E u \in users : u.email = email

\* The e-mail of the host system's user, NoOne before its first request.
EmailOf(h) ==
  IF \E u \in users : u.host = h THEN (CHOOSE u \in users : u.host = h).email ELSE NoOne

EndRequest(r) == request' = [request EXCEPT ![r] = NoRequest]

-----------------------------------------------------------------------------
(* Registration                                                             *)

BeginRegister(r, i, e) ==
  /\ request[r] = NoRequest
  /\ request' = [request EXCEPT ![r].pc = "register", ![r].ip = i, ![r].email = e]
  /\ UNCHANGED <<users, attempts, asked, made>>

\* The bucket is locked: too many attempts are answered 429.  Else the request
\* counts, which an account there already commits (409).
Register(r) ==
  LET i == request[r].ip IN
  /\ request[r].pc = "register"
  /\ ~HasBucket(i)
  /\ IF attempts[i] >= Limit THEN EndRequest(r) /\ UNCHANGED <<attempts, asked>>
     ELSE /\ asked' = [asked EXCEPT ![i] = @ + 1]
          /\ IF IsTaken(request[r].email)
             THEN EndRequest(r) /\ attempts' = [attempts EXCEPT ![i] = @ + 1]
             ELSE request' = [request EXCEPT ![r].pc = "insert"] /\ UNCHANGED attempts
  /\ UNCHANGED <<users, made>>

\* db.flush: an e-mail committed by another meanwhile rolls everything back.
Insert(r) ==
  /\ request[r].pc = "insert"
  /\ ~IsPending(request[r].email)
  /\ request' = [request EXCEPT ![r].pc = IF IsTaken(request[r].email) THEN "recount" ELSE "commit"]
  /\ UNCHANGED <<users, attempts, asked, made>>

\* The bucket is locked once more and counts the request, whatever is in it.
FaultyRecount(r) ==  \* looks at the block first
  LET i == request[r].ip IN
  /\ request[r].pc = "recount" /\ ~HasBucket(i)
  /\ attempts' = [attempts EXCEPT ![i] = IF @ >= Limit THEN @ ELSE @ + 1]
  /\ EndRequest(r) /\ UNCHANGED <<users, asked, made>>
Recount(r) ==
  LET i == request[r].ip IN
  /\ request[r].pc = "recount"
  /\ ~HasBucket(i)
  /\ attempts' = [attempts EXCEPT ![i] = @ + 1]
  /\ EndRequest(r)
  /\ UNCHANGED <<users, asked, made>>

CommitUser(r) ==
  LET i == request[r].ip IN
  /\ request[r].pc = "commit"
  /\ users' = users \cup {[email |-> request[r].email, host |-> NoOne]}
  /\ attempts' = [attempts EXCEPT ![i] = @ + 1]
  /\ made' = [made EXCEPT ![i] = @ + 1]
  /\ EndRequest(r)
  /\ UNCHANGED asked

\* The database gives up on the transaction: nothing of it stays.
Abort(r) ==
  LET i == request[r].ip IN
  /\ request[r].pc \in {"insert", "commit"}
  /\ EndRequest(r)
  /\ asked' = [asked EXCEPT ![i] = @ - 1]
  /\ UNCHANGED <<users, attempts, made>>

\* _refresh_window, by the next to lock the bucket.
WindowEnds(i) ==
  /\ attempts[i] > 0 /\ ~HasBucket(i)
  /\ attempts' = [attempts EXCEPT ![i] = 0]
  /\ asked' = [asked EXCEPT ![i] = Cardinality({r \in Requests :
                                     request[r].pc = "recount" /\ request[r].ip = i})]
  /\ made' = [made EXCEPT ![i] = 0]
  /\ UNCHANGED <<users, request>>

-----------------------------------------------------------------------------
(* The host's users and the development user                                *)

\* The host system has answered who the user is, e-mail or none, and the user
\* is looked up.
BeginHost(r, h, e) ==
  /\ request[r] = NoRequest
  /\ request' = [request EXCEPT ![r].pc = "provision", ![r].host = h, ![r].email = e,
                                ![r].known = EmailOf(h)]
  /\ UNCHANGED <<users, attempts, asked, made>>

\* The endpoint of local and test environments: an existing user is reused.
BeginDevelopment(r) ==
  /\ request[r] = NoRequest
  /\ ~IsTaken(DevEmail)
  /\ request' = [request EXCEPT ![r].pc = "provision", ![r].email = DevEmail]
  /\ UNCHANGED <<users, attempts, asked, made>>

\* The row as the transaction leaves it: an e-mail is written when the host
\* gives one that is not the one that was loaded.
Provisioned(r) ==
  LET q == request[r] IN
  [host |-> q.host,
   email |-> IF q.known = NoOne
             THEN IF q.email = NoOne THEN OwnEmail[q.host] ELSE q.email
             ELSE IF q.email \in {NoOne, q.known} THEN EmailOf(q.host) ELSE q.email]

\* The row it writes over, and those beside which it would not be unique.
Superseded(r) == IF request[r].known = NoOne THEN {} ELSE {u \in users : u.host = request[r].host}

Conflicts(r) ==
  {u \in users \ Superseded(r) :
     u.email = Provisioned(r).email \/ (u.host = Provisioned(r).host /\ u.host # NoOne)}

\* The commit.  A conflict is nobody's to handle: 500, and the user may try again.
Provision(r) ==
  /\ request[r].pc = "provision"
  /\ ~IsPending(Provisioned(r).email)
  /\ users' = IF Conflicts(r) # {} THEN users
              ELSE (users \ Superseded(r)) \cup {Provisioned(r)}
  /\ EndRequest(r)
  /\ UNCHANGED <<attempts, asked, made>>

-----------------------------------------------------------------------------
RequestStep(r) ==
  Register(r) \/ Insert(r) \/ Recount(r) \/ CommitUser(r) \/ Provision(r)

AccountsNext ==
  \/ \E r \in Requests :
       \/ \E i \in Ips, e \in Emails : BeginRegister(r, i, e)
       \/ \E h \in Hosts, e \in Emails \cup {NoOne} : BeginHost(r, h, e)
       \/ BeginDevelopment(r)
       \/ RequestStep(r) \/ Abort(r)
  \/ \E i \in Ips : WindowEnds(i)

AccountsSpec == AccountsInit /\ [][AccountsNext]_accountVars

\* The database queues those who wait for a row.
AccountsFairness == \A r \in Requests : SF_accountVars(RequestStep(r))

-----------------------------------------------------------------------------
(* Properties                                                               *)

RequestType ==
  [pc : {"idle", "register", "insert", "commit", "recount", "provision"},
   ip : Ips \cup {NoOne}, email : Emails \cup {NoOne}, host : Hosts \cup {NoOne}, known : AllEmails \cup {NoOne}]

\* Every variable has its type, a registration its IP and e-mail, one request
\* has a bucket locked, and one an e-mail inserted that nobody has committed.
AccountsTypeOK ==
  /\ users \subseteq [email : AllEmails, host : Hosts \cup {NoOne}]
  /\ request \in [Requests -> RequestType]
  /\ attempts \in [Ips -> Nat] /\ asked \in [Ips -> Nat] /\ made \in [Ips -> Nat]
  /\ \A r \in Requests :
       /\ request[r].pc \in {"register", "insert", "commit", "recount"} =>
            request[r].ip \in Ips /\ request[r].email \in Emails /\ request[r].host = NoOne
       /\ request[r].pc = "commit" => ~IsTaken(request[r].email)
  /\ \A r, s \in Requests : r # s /\ request[r].pc \in {"insert", "commit"} =>
       /\ request[s].pc \in {"insert", "commit"} => request[r].ip # request[s].ip
       /\ request[r].pc = "commit" /\ request[s].pc = "commit" =>
            request[r].email # request[s].email

\* Every registration let through counts in its window, those rolled back and
\* counted anew as well, and so one IP registers no more accounts in a window
\* than the limit (docs/features/production-authentication.md:32).
RegistrationsAreLimited ==
  \A i \in Ips :
    /\ asked[i] = attempts[i] + Cardinality({r \in Requests :
                    request[r].ip = i /\ request[r].pc \in {"insert", "commit", "recount"}})
    /\ made[i] <= Limit

\* Every request is answered, also those that wait for one another.
EveryAccountRequestEnds ==
  \A r \in Requests : request[r] # NoRequest ~> request[r] = NoRequest
=============================================================================
