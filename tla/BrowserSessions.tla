-------------------------- MODULE BrowserSessions --------------------------
(******************************************************************************)
(* Browser sessions (identity/router.py, login, logout and /session/me;       *)
(* api/dependencies.py; models/auth_session.py).                              *)
(*                                                                            *)
(* A browser keeps the session cookie, the nyang_csrf cookie that all its     *)
(* tabs copy into a header, and perhaps a cookie of the host system.  A call  *)
(* carries the cookies of the moment it is sent; its answer, which may change *)
(* them, arrives in any order with others', or never.  In between the call is *)
(* let in by one statement and carried out by later ones.                     *)
(*                                                                            *)
(* The host system is external and answers as it likes.  RateLimit has the    *)
(* passwords, Accounts the rows of users.                                     *)
(* Operators named Faulty... are plausible bugs, used by no specification.    *)
(******************************************************************************)
EXTENDS Integers, FiniteSets

CONSTANTS
  Calls,         \* calls under way
  Browsers,
  HostBrowsers,  \* those with a cookie of the host system
  Tokens,        \* bound: the session tokens ever issued
  IsLocal,       \* app_env is local or test
  NoCookie

ASSUME SessionsAssumption ==
  /\ HostBrowsers \subseteq Browsers
  /\ IsLocal \in BOOLEAN
  /\ Tokens \cap {"host", "header", NoCookie} = {}

VARIABLES
  authSession,  \* auth_sessions: of each token absent, live, revoked or expired
  jar,      \* the cookies of each browser
  call,     \* what each call is doing
  lost      \* browsers that the answer to a logout has not reached

sessionVars == <<authSession, jar, call, lost>>

NoCookies == [session |-> NoCookie, csrf |-> NoCookie]
NoCall == [pc |-> "idle", kind |-> NoCookie, browser |-> NoCookie, header |-> FALSE,
           cookies |-> NoCookies, by |-> NoCookie, wasLive |-> FALSE]

SessionsInit ==
  /\ authSession = [t \in Tokens |-> "absent"]
  /\ jar = [b \in Browsers |-> NoCookies]
  /\ call = [c \in Calls |-> NoCall]
  /\ lost = {}

IsLive(t) == t \in Tokens /\ authSession[t] = "live"

\* login and register are sent without a session and need no CSRF header.
Kinds == {"login", "logout", "me", "command"}
Unsafe == {"logout", "command"}

\* header is X-User-Public-ID; wasLive is what the database said of the session
\* cookie when the call was sent.
Send(c, b, kind, header) ==
  /\ call[c] = NoCall
  /\ header => IsLocal /\ kind # "login"
  /\ call' = [call EXCEPT ![c] =
       [pc |-> "sent", kind |-> kind, browser |-> b, header |-> header,
        cookies |-> jar[b], by |-> NoCookie, wasLive |-> IsLive(jar[b].session)]]
  /\ UNCHANGED <<authSession, jar, lost>>

-----------------------------------------------------------------------------
(* get_current_user and resolve_current_user                                  *)

HasCsrf(c, csrf) == call[c].kind \in Unsafe => call[c].cookies.csrf = csrf

\* By whom the call may be let in: the header, the session of the cookie, or the
\* host system, asked only when there is no session cookie at all.
FaultyLetInBy(c) ==  \* does not look at revoked_at
  LET s == call[c].cookies.session IN
  IF call[c].header THEN {"header"}
  ELSE IF s # NoCookie THEN IF authSession[s] \in {"live", "revoked"} /\ HasCsrf(c, s) THEN {s} ELSE {}
  ELSE IF call[c].browser \in HostBrowsers /\ HasCsrf(c, "host") THEN {"host"} ELSE {}
LetInBy(c) ==
  LET s == call[c].cookies.session IN
  IF call[c].header THEN {"header"}
  ELSE IF s # NoCookie THEN IF IsLive(s) /\ HasCsrf(c, s) THEN {s} ELSE {}
  ELSE IF call[c].browser \in HostBrowsers /\ HasCsrf(c, "host") THEN {"host"} ELSE {}

\* What the call carried is not looked at again.
Served(c, pc, by) ==
  [call[c] EXCEPT !.pc = pc, !.by = by, !.header = FALSE, !.cookies = NoCookies]

LetIn(c) ==
  /\ call[c].pc = "sent" /\ call[c].kind # "login"
  /\ \E by \in LetInBy(c) : call' = [call EXCEPT ![c] = Served(c, "in", by)]
  /\ UNCHANGED <<authSession, jar, lost>>

\* 401, 403, 503: an answer that leaves the cookies alone.  The host may refuse
\* anybody, and the database or a rate limit refuse a login.
Refuse(c) ==
  /\ call[c].pc = "sent"
  /\ LetInBy(c) \in {{}, {"host"}} \/ call[c].kind = "login"
  /\ call' = [call EXCEPT ![c] = NoCall]
  /\ UNCHANGED <<authSession, jar, lost>>

-----------------------------------------------------------------------------
(* The calls                                                                  *)

\* _issue_session: a row of its own for each login, committed before the
\* answer; sessions there before stay as they are.
Login(c) ==
  LET t == CHOOSE u \in Tokens : authSession[u] = "absent" IN
  /\ call[c].pc = "sent" /\ call[c].kind = "login"
  /\ \E u \in Tokens : authSession[u] = "absent"
  /\ authSession' = [authSession EXCEPT ![t] = "live"]
  /\ call' = [call EXCEPT ![c] = Served(c, "answered", t)]
  /\ UNCHANGED <<jar, lost>>

\* logout revokes the session that let it in, if one did.
CarryOut(c) ==
  LET by == call[c].by IN
  /\ call[c].pc = "in"
  /\ authSession' = IF call[c].kind = "logout" /\ by \in Tokens
                THEN [authSession EXCEPT ![by] = "revoked"] ELSE authSession
  /\ call' = [call EXCEPT ![c].pc = "answered"]
  /\ UNCHANGED <<jar, lost>>

\* What the answer makes of the cookies: a login brings both, a logout takes
\* both, and /session/me brings the CSRF token of a host session.
FaultyAfter(c, cookies) ==  \* the CSRF cookie stays
  CASE call[c].kind = "login" -> [session |-> call[c].by, csrf |-> call[c].by]
    [] call[c].kind = "logout" -> [cookies EXCEPT !.session = NoCookie]
    [] call[c].kind = "me" /\ call[c].by = "host" -> [cookies EXCEPT !.csrf = "host"]
    [] OTHER -> cookies
After(c, cookies) ==
  CASE call[c].kind = "login" -> [session |-> call[c].by, csrf |-> call[c].by]
    [] call[c].kind = "logout" -> NoCookies
    [] call[c].kind = "me" /\ call[c].by = "host" -> [cookies EXCEPT !.csrf = "host"]
    [] OTHER -> cookies

\* A cookie that arrives when its session has expired has expired as well.
Fresh(cookies) ==
  LET Kept(k) == IF k \in Tokens /\ authSession[k] = "expired" THEN NoCookie ELSE k IN
  [session |-> Kept(cookies.session), csrf |-> Kept(cookies.csrf)]

Deliver(c) ==
  LET b == call[c].browser IN
  /\ call[c].pc = "answered"
  /\ jar' = [jar EXCEPT ![b] = Fresh(After(c, @))]
  /\ lost' = IF call[c].kind \in {"login", "logout"} THEN lost \ {b} ELSE lost
  /\ call' = [call EXCEPT ![c] = NoCall]
  /\ UNCHANGED authSession

Lose(c) ==
  /\ call[c].pc = "answered"
  /\ lost' = IF call[c].kind = "logout" THEN lost \cup {call[c].browser} ELSE lost
  /\ call' = [call EXCEPT ![c] = NoCall]
  /\ UNCHANGED <<authSession, jar>>

\* expires_at and the max_age of the cookies are the same.
Expire(t) ==
  /\ authSession[t] \in {"live", "revoked"}
  /\ authSession' = [authSession EXCEPT ![t] = "expired"]
  /\ jar' = [b \in Browsers |->
       [k \in DOMAIN jar[b] |-> IF jar[b][k] = t THEN NoCookie ELSE jar[b][k]]]
  /\ UNCHANGED <<call, lost>>

SessionsNext ==
  \/ \E c \in Calls :
       \/ \E b \in Browsers, kind \in Kinds, header \in BOOLEAN : Send(c, b, kind, header)
       \/ LetIn(c) \/ Refuse(c) \/ Login(c) \/ CarryOut(c) \/ Deliver(c) \/ Lose(c)
  \/ \E t \in Tokens : Expire(t)

SessionsSpec == SessionsInit /\ [][SessionsNext]_sessionVars

-----------------------------------------------------------------------------
(* Properties                                                                 *)

CookieType == [session : Tokens \cup {NoCookie}, csrf : Tokens \cup {"host", NoCookie}]
CallType ==
  [pc : {"sent", "in", "answered"}, kind : Kinds, browser : Browsers, header : BOOLEAN,
   cookies : CookieType, by : Tokens \cup {"host", "header", NoCookie}, wasLive : BOOLEAN]

\* Every variable has its type, and a cookie is that of a session that was
\* committed.
SessionsTypeOK ==
  /\ authSession \in [Tokens -> {"absent", "live", "revoked", "expired"}]
  /\ jar \in [Browsers -> CookieType]
  /\ call \in [Calls -> CallType \cup {NoCall}]
  /\ lost \subseteq Browsers
  /\ \A b \in Browsers : {jar[b].session, jar[b].csrf} \cap {t \in Tokens : authSession[t] = "absent"} = {}

\* The two cookies of a browser belong together, in whatever order answers
\* arrive: a browser that has not to do with the host system can use the session
\* it has, and one that has holds no other than the host's CSRF token instead
\* (an answer of /session/me overtaken by that of a login).  And a session cookie
\* that lets nobody in, the host system's users neither, stays only while the
\* answer to a logout is on its way, or when it was lost.
CookiesArePaired ==
  \A b \in Browsers :
    /\ jar[b].csrf = jar[b].session \/ (b \in HostBrowsers /\ jar[b].csrf = "host")
    /\ jar[b].session # NoCookie /\ ~IsLive(jar[b].session) =>
         b \in lost \/ \E c \in Calls : call[c].browser = b /\ call[c].kind = "logout"

\* No call sent after a logout was committed is let in by that session
\* (docs/features/production-authentication.md:20); one sent before may be under
\* way, and is finished.
LoggedOutStaysOut ==
  \A c \in Calls : call[c].by \in Tokens /\ call[c].kind # "login" => call[c].wasLive
=============================================================================
