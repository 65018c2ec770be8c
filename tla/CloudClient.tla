----------------------------- MODULE CloudClient -----------------------------
(***************************************************************************)
(* The client of the cloud (lib/cloud_client.py): login with its fallback, *)
(* the family list, and the device table with its one retry.               *)
(*                                                                         *)
(* One client is shared by the refreshes of a coordinator, which may       *)
(* overlap: its token, family and OAuth method are read and written around *)
(* the awaits of several calls.  Tokens expire, logins are refused and the *)
(* network fails at any time.  A token is the number of the login it came  *)
(* from; access_token and user_id are always set and cleared together and  *)
(* are one variable.                                                       *)
(***************************************************************************)
EXTENDS Integers, FiniteSets

CONSTANTS
    Callers,    \* tasks that use the client
    Families,   \* what the account's family list may name first
    Calls,      \* bound: the calls each task makes
    None        \* no family

ASSUME CloudAssumption == Calls \in Nat /\ None \notin Families

VARIABLES
    method,   \* _oauth_method
    token,    \* access_token and user_id, 0 for None
    family,   \* family_id
    issued,   \* the tokens the cloud has issued so far
    expired,  \* the cloud rejects the tokens up to this one
    pc,       \* caller -> idle, or the answer it awaits: oauth, family, table
    call,     \* caller -> [op, tried, sent, retried], the locals of its call
    result,   \* caller -> how its last call ended
    left,     \* caller -> the calls still allowed by the bound
    seen      \* history: [refused, alone, rejected], see below

vars == <<method, token, family, issued, expired, pc, call, result, left, seen>>
-----------------------------------------------------------------------------
Methods == {"POST", "GET"}
Errors == {"auth", "error"}    \* CloudAuthenticationError, any other CloudClientError
NoCall == [op |-> "none", tried |-> "none", sent |-> 0, retried |-> FALSE]

\* seen.refused[c], seen.rejected[c]: in its present or last call the cloud has
\* refused c's login; the greatest token it has rejected to c.
\* seen.alone[c]: no other call was under way at any time during that call.
NothingSeen == [refused |-> [c \in Callers |-> FALSE],
                rejected |-> [c \in Callers |-> 0],
                alone |-> [c \in Callers |-> FALSE]]

\* The constructor takes either method, POST by default.
Init ==
    /\ method \in Methods
    /\ token = 0
    /\ family \in Families \union {None}
    /\ issued = 0 /\ expired = 0
    /\ pc = [c \in Callers |-> "idle"]
    /\ call = [c \in Callers |-> NoCall]
    /\ result = [c \in Callers |-> "none"]
    /\ left = [c \in Callers |-> Calls]
    /\ seen = NothingSeen
-----------------------------------------------------------------------------
Goto(c, where) == pc' = [pc EXCEPT ![c] = where]

End(c, how) ==
    /\ Goto(c, "idle")
    /\ call' = [call EXCEPT ![c] = NoCall]
    /\ result' = [result EXCEPT ![c] = how]

\* login, up to its first request; local is what the call remembers besides.
StartLogin(c, local) ==
    /\ Goto(c, "oauth")
    /\ call' = [call EXCEPT ![c] = [local EXCEPT !.tried = method]]

\* Slip: the retry keeps the token, so that it logs in only if another call has
\* cleared it.
ForgetNothing(c, local) ==
    /\ IF token = 0
         THEN StartLogin(c, local)
         ELSE Goto(c, "table") /\ call' = [call EXCEPT ![c] = [local EXCEPT !.sent = token]]
    /\ UNCHANGED token

\* The handler of CloudApiError in fetch_devices: forget the token, log in.
LoginAgain(c, local) ==
    /\ token' = 0
    /\ StartLogin(c, local)

\* Slip: an expired token is taken for a wrong password.
RejectedAtOnce(c, how) ==
    End(c, "auth") /\ UNCHANGED token

\* An error of the cloud's API while the device table is fetched: the first
\* one leads to another login, the second one is raised.
Rejected(c, how) ==
    IF call[c].retried
      THEN End(c, how) /\ UNCHANGED token
      ELSE LoginAgain(c, [call[c] EXCEPT !.retried = TRUE]) /\ UNCHANGED result

\* Slip: the table is asked for with whatever token there is.
AskUnchecked(c) ==
    /\ Goto(c, "table")
    /\ call' = [call EXCEPT ![c].sent = token]
    /\ UNCHANGED <<token, result>>

\* _fetch_readtable, up to its request.  Without credentials it raises
\* CloudAuthenticationError, which is an error of the API like any other.
AskTable(c) ==
    IF token = 0
      THEN Rejected(c, "auth")
      ELSE /\ Goto(c, "table")
           /\ call' = [call EXCEPT ![c].sent = token]
           /\ UNCHANGED <<token, result>>
-----------------------------------------------------------------------------
\* login (ensure_login catches what it raises) or fetch_devices is called.
Begin(c, op) ==
    LET fresh == [NoCall EXCEPT !.op = op] IN
    /\ pc[c] = "idle" /\ left[c] > 0
    /\ left' = [left EXCEPT ![c] = @ - 1]
    /\ IF op = "login" \/ token = 0
         THEN StartLogin(c, fresh)
         ELSE Goto(c, "table") /\ call' = [call EXCEPT ![c] = [fresh EXCEPT !.sent = token]]
    /\ result' = [result EXCEPT ![c] = "none"]
    /\ seen' = [seen EXCEPT
          !.refused[c] = FALSE,
          !.rejected[c] = 0,
          !.alone = [d \in Callers |->
              IF d = c THEN \A e \in Callers \ {c} : pc[e] = "idle"
              ELSE seen.alone[d] /\ pc[d] = "idle"]]
    /\ UNCHANGED <<method, token, family, issued, expired>>

\* The login is accepted: the method that worked is kept, the token is set, and
\* the family list is asked for with it.
OauthAccepted(c) ==
    /\ pc[c] = "oauth"
    /\ issued' = issued + 1
    /\ token' = issued + 1
    /\ method' = call[c].tried
    /\ call' = [call EXCEPT ![c].sent = issued + 1]
    /\ Goto(c, "family")
    /\ UNCHANGED <<family, expired, result, left, seen>>

\* _should_retry_oauth_with_get: what says that POST is not understood (HTTP 400,
\* 404, 405, 415, 422, no JSON, no token in the answer), and also a connection
\* lost in the middle of the answer, which _request_json takes for bad JSON.
FallsBack(how) == how \in {"incompatible", "cut"}

\* Slip: a login that is not understood is tried the other way, from GET as well.
FailsInTurn(c, how) ==
    /\ pc[c] = "oauth"
    /\ IF FallsBack(how)
         THEN /\ call' = [call EXCEPT ![c].tried = IF @ = "POST" THEN "GET" ELSE "POST"]
              /\ UNCHANGED <<pc, result>>
         ELSE End(c, IF how = "refused" THEN "auth" ELSE "error")
    /\ seen' = [seen EXCEPT !.refused[c] = @ \/ how = "refused"]
    /\ UNCHANGED <<method, token, family, issued, expired, left>>

\* The login is refused (CloudAuthenticationError), its answer is not understood
\* or cut off, or there is no answer (network, another HTTP status).
OauthFails(c, how) ==
    /\ pc[c] = "oauth"
    /\ IF call[c].tried = "POST" /\ FallsBack(how)
         THEN call' = [call EXCEPT ![c].tried = "GET"] /\ UNCHANGED <<pc, result>>
         ELSE End(c, IF how = "refused" THEN "auth" ELSE "error")
    /\ seen' = [seen EXCEPT !.refused[c] = @ \/ how = "refused"]
    /\ UNCHANGED <<method, token, family, issued, expired, left>>

\* The first family of the list is chosen only if there is none yet.
Choose(first) == IF family = None THEN first ELSE family

\* The family list is answered, by an empty list or one that begins with first;
\* login returns, and a fetch goes on to the table.
FamilyAnswered(c, first) ==
    /\ pc[c] = "family" /\ call[c].sent > expired
    /\ family' = IF first = None THEN family ELSE Choose(first)
    /\ IF call[c].op = "login"
         THEN End(c, "ok") /\ UNCHANGED token
         ELSE AskTable(c)
    /\ UNCHANGED <<method, issued, expired, left, seen>>

\* Any error here is raised by login, which nothing in fetch_devices catches.
FamilyFails(c) ==
    /\ pc[c] = "family"
    /\ End(c, "error")
    /\ UNCHANGED <<method, token, family, issued, expired, left, seen>>

TableAnswered(c) ==
    /\ pc[c] = "table" /\ call[c].sent > expired
    /\ End(c, "ok")
    /\ UNCHANGED <<method, token, family, issued, expired, left, seen>>

\* The cloud rejects the token it was asked with.
TableRejected(c) ==
    /\ pc[c] = "table" /\ call[c].sent <= expired
    /\ Rejected(c, "error")
    /\ seen' = [seen EXCEPT !.rejected[c] = call[c].sent]
    /\ UNCHANGED <<method, family, issued, expired, left>>

\* The network, the HTTP status, JSON or schema: raised as it is, the token stays.
TableFails(c) ==
    /\ pc[c] = "table"
    /\ End(c, "error")
    /\ UNCHANGED <<method, token, family, issued, expired, left, seen>>

\* The cloud forgets the tokens it has issued.
Expire ==
    /\ expired < issued
    /\ expired' = issued
    /\ UNCHANGED <<method, token, family, issued, pc, call, result, left, seen>>
-----------------------------------------------------------------------------
Answer(c) ==
    \/ OauthAccepted(c)
    \/ \E how \in {"refused", "incompatible", "cut", "unanswered"} : OauthFails(c, how)
    \/ \E first \in Families \union {None} : FamilyAnswered(c, first)
    \/ FamilyFails(c)
    \/ TableAnswered(c) \/ TableRejected(c) \/ TableFails(c)

Next ==
    \/ \E c \in Callers : Answer(c) \/ \E op \in {"login", "fetch"} : Begin(c, op)
    \/ Expire

Spec == Init /\ [][Next]_vars

\* Every request is answered or times out (ClientTimeout, 20 s in total).
FairSpec == Spec /\ \A c \in Callers : WF_vars(Answer(c))
-----------------------------------------------------------------------------
\* What a call remembers, when n tokens have been issued.
Locals(n) == [op : {"none", "login", "fetch"}, tried : Methods \union {"none"},
              sent : 0..n, retried : BOOLEAN]

\* A login under way has a method, and no request that needs a token goes without.
CallsOK ==
    /\ pc \in [Callers -> {"idle", "oauth", "family", "table"}]
    /\ call \in [Callers -> Locals(issued)]
    /\ \A c \in Callers : /\ pc[c] = "oauth" => call[c].tried \in Methods
                          /\ pc[c] \in {"family", "table"} => call[c].sent > 0

\* Every variable has its type.
TypeOK ==
    /\ method \in Methods
    /\ token \in 0..issued
    /\ family \in Families \union {None}
    /\ issued \in Nat /\ expired \in 0..issued
    /\ CallsOK
    /\ result \in [Callers -> {"none", "ok"} \union Errors]
    /\ left \in [Callers -> 0..Calls]
    /\ seen \in [refused : [Callers -> BOOLEAN], rejected : [Callers -> 0..issued],
                 alone : [Callers -> BOOLEAN]]

\* A call fails with an authentication error only if the cloud refused its
\* login: it makes the coordinator ask the user for the password
\* (coordinator.py:150).  "Authentication failed or returned incomplete
\* credentials." (lib/cloud_client.py:67).
AuthErrorMeansRefused == \A c \in Callers : result[c] = "auth" => seen.refused[c]

\* The same for a call during which no other one was under way: on its own the
\* client never takes an expired token for a wrong password.
LoneAuthErrorMeansRefused ==
    \A c \in Callers : result[c] = "auth" /\ seen.alone[c] => seen.refused[c]

\* A token the cloud has rejected to a call is not sent again by that call: its
\* retry has another one, from its own login or from one that finished since.
RetryHasNewToken ==
    \A c \in Callers : pc[c] = "table" => call[c].sent > seen.rejected[c]

\* Every call ends: at most one retry, at most one fallback per login.
CallsEnd == []<>(\A c \in Callers : pc[c] = "idle")
=============================================================================
