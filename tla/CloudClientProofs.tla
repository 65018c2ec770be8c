-------------------------- MODULE CloudClientProofs --------------------------
(***************************************************************************)
(* What holds of CloudClient for any number of callers, calls and families. *)
(***************************************************************************)
EXTENDS CloudClient, TLAPS

Seen == [refused : [Callers -> BOOLEAN], rejected : [Callers -> 0..issued],
         alone : [Callers -> BOOLEAN]]

\* A call that changes one of its locals still has locals of a call.
LEMMA LocalChanges ==
    ASSUME NEW n \in Nat, NEW l \in Locals(n)
    PROVE  /\ \A m \in Methods \union {"none"} : [l EXCEPT !.tried = m] \in Locals(n)
           /\ \A s \in 0..n : [l EXCEPT !.sent = s] \in Locals(n)
           /\ [l EXCEPT !.retried = TRUE] \in Locals(n)
           /\ \A o \in {"none", "login", "fetch"} : [l EXCEPT !.op = o] \in Locals(n)
           /\ NoCall \in Locals(n)
<1>1. \A m \in Methods \union {"none"} : [l EXCEPT !.tried = m] \in Locals(n)
  BY DEF Locals
<1>2. \A s \in 0..n : [l EXCEPT !.sent = s] \in Locals(n)
  BY DEF Locals
<1>3. [l EXCEPT !.retried = TRUE] \in Locals(n)
  BY DEF Locals
<1>4. \A o \in {"none", "login", "fetch"} : [l EXCEPT !.op = o] \in Locals(n)
  BY DEF Locals
<1>5. NoCall \in Locals(n)
  BY DEF Locals, NoCall
<1>6. QED
  BY <1>1, <1>2, <1>3, <1>4, <1>5

\* Where one caller goes, with locals that fit the place, the others do not matter.
CallFits(c) ==
    /\ issued' \in Nat /\ issued <= issued'
    /\ pc' = [pc EXCEPT ![c] = pc'[c]] /\ call' = [call EXCEPT ![c] = call'[c]]
    /\ pc'[c] \in {"idle", "oauth", "family", "table"} /\ call'[c] \in Locals(issued')
    /\ pc'[c] = "oauth" => call'[c].tried \in Methods
    /\ pc'[c] \in {"family", "table"} => call'[c].sent > 0

LEMMA CallMoves ==
    ASSUME TypeOK, NEW c \in Callers, CallFits(c)
    PROVE  CallsOK'
<1>1. \A d \in Callers : call[d] \in Locals(issued')
  BY DEF TypeOK, CallsOK, Locals, CallFits
<1>2. QED
  BY <1>1 DEF TypeOK, CallsOK, CallFits

\* A call ends.
LEMMA EndTypes ==
    ASSUME TypeOK, NEW c \in Callers, NEW how \in {"ok"} \union Errors, End(c, how),
           UNCHANGED issued
    PROVE  CallsOK' /\ result' \in [Callers -> {"none", "ok"} \union Errors]
<1> DEFINE new == NoCall
<1>1. issued \in Nat /\ issued' = issued /\ call[c] \in Locals(issued)
  BY DEF TypeOK, CallsOK
<1>2. CallsOK'
  <2>1. new \in Locals(issued)
    BY <1>1, LocalChanges
  <2>2. pc' = [pc EXCEPT ![c] = "idle"] /\ call' = [call EXCEPT ![c] = new]
    BY DEF End, Goto
  <2> HIDE DEF new
  <2>3. QED
    <3>1. CallFits(c)
      BY <1>1, <2>1, <2>2 DEF TypeOK, CallsOK, CallFits
    <3>2. QED
      BY <3>1, CallMoves
<1>3. QED
  BY <1>2 DEF TypeOK, End, Errors

\* A login starts.
LEMMA StartTypes ==
    ASSUME TypeOK, NEW c \in Callers, NEW l \in Locals(issued), StartLogin(c, l), UNCHANGED issued
    PROVE  CallsOK'
<1> DEFINE new == [l EXCEPT !.tried = method]
<1>1. new \in Locals(issued) /\ new.tried \in Methods
  <2>1. method \in Methods /\ issued \in Nat
    BY DEF TypeOK
  <2>2. new \in Locals(issued)
    BY <2>1, LocalChanges
  <2>3. QED
    BY <2>1, <2>2 DEF Locals
<1>2. pc' = [pc EXCEPT ![c] = "oauth"] /\ call' = [call EXCEPT ![c] = new]
  BY DEF StartLogin, Goto
<1>3. issued \in Nat /\ issued' = issued
  BY DEF TypeOK
<1> HIDE DEF new
<1>4. CallFits(c)
  BY <1>1, <1>2, <1>3 DEF TypeOK, CallsOK, CallFits
<1>5. QED
  BY <1>4, CallMoves

\* A request for the table goes out with the token there is.
LEMMA SendTypes ==
    ASSUME TypeOK, NEW c \in Callers, NEW l \in Locals(issued), token # 0,
           pc' = [pc EXCEPT ![c] = "table"], call' = [call EXCEPT ![c] = [l EXCEPT !.sent = token]],
           UNCHANGED issued
    PROVE  CallsOK'
<1> DEFINE new == [l EXCEPT !.sent = token]
<1>1. new \in Locals(issued) /\ new.sent > 0
  <2>1. token \in 0..issued /\ token > 0 /\ issued \in Nat
    BY DEF TypeOK
  <2>2. new \in Locals(issued)
    BY <2>1, LocalChanges
  <2>3. QED
    BY <2>1, <2>2 DEF Locals
<1>2. issued \in Nat /\ issued' = issued /\ call' = [call EXCEPT ![c] = new]
  BY DEF TypeOK
<1> HIDE DEF new
<1>3. CallFits(c)
  BY <1>1, <1>2 DEF TypeOK, CallsOK, CallFits
<1>4. QED
  BY <1>3, CallMoves

\* An error of the API either ends the call or leads to another login.
LEMMA RejectedTypes ==
    ASSUME TypeOK, NEW c \in Callers, NEW how \in Errors, Rejected(c, how), UNCHANGED issued
    PROVE  /\ CallsOK' /\ token' \in 0..issued
           /\ result' \in [Callers -> {"none", "ok"} \union Errors]
<1>1. call[c] \in Locals(issued) /\ token \in 0..issued /\ issued \in Nat
  BY DEF TypeOK, CallsOK
<1>2. CASE call[c].retried
  BY <1>1, <1>2, EndTypes DEF Rejected
<1>3. CASE ~call[c].retried
  <2>1. [call[c] EXCEPT !.retried = TRUE] \in Locals(issued)
    BY <1>1, LocalChanges
  <2>2. StartLogin(c, [call[c] EXCEPT !.retried = TRUE]) /\ token' = 0 /\ result' = result
    BY <1>3 DEF Rejected, LoginAgain
  <2>3. QED
    BY <1>1, <2>1, <2>2, StartTypes DEF TypeOK
<1>4. QED
  BY <1>2, <1>3

LEMMA AskTypes ==
    ASSUME TypeOK, NEW c \in Callers, AskTable(c), UNCHANGED issued
    PROVE  /\ CallsOK' /\ token' \in 0..issued
           /\ result' \in [Callers -> {"none", "ok"} \union Errors]
<1>1. call[c] \in Locals(issued)
  BY DEF TypeOK, CallsOK
<1>2. CASE token = 0
  BY <1>2, RejectedTypes DEF AskTable, Errors
<1>3. CASE token # 0
  <2>1. call' = [call EXCEPT ![c] = [call[c] EXCEPT !.sent = token]]
    BY <1>1, <1>3 DEF AskTable, TypeOK, CallsOK
  <2>2. CallsOK'
    BY <1>1, <1>3, <2>1, SendTypes DEF AskTable, Goto
  <2>3. QED
    BY <1>3, <2>2 DEF AskTable, TypeOK
<1>4. QED
  BY <1>2, <1>3

\* Each step keeps the types.
LEMMA TypeStep == TypeOK /\ [Next]_vars => TypeOK'
<1> SUFFICES ASSUME TypeOK, [Next]_vars PROVE TypeOK'
  OBVIOUS
<1>1. ASSUME NEW c \in Callers, OauthAccepted(c) PROVE TypeOK'
  <2> DEFINE new == [call[c] EXCEPT !.sent = issued + 1]
  <2>1. /\ call[c] \in Locals(issued + 1) /\ call[c].tried \in Methods
        /\ issued \in Nat /\ issued + 1 \in Nat /\ issued + 1 \in 0..(issued + 1)
    BY <1>1 DEF OauthAccepted, TypeOK, CallsOK, Locals
  <2>2. new \in Locals(issued + 1) /\ new.sent > 0
    <3>1. new \in Locals(issued + 1)
      BY <2>1, LocalChanges
    <3>2. QED
      BY <2>1, <3>1 DEF TypeOK, Locals
  <2>3. pc' = [pc EXCEPT ![c] = "family"] /\ call' = [call EXCEPT ![c] = new] /\ issued' = issued + 1
    BY <1>1, <2>1 DEF OauthAccepted, Goto
  <2> HIDE DEF new
  <2>4. CallsOK'
    <3>1. CallFits(c)
      BY <2>1, <2>2, <2>3 DEF TypeOK, CallsOK, CallFits
    <3>2. QED
      BY <3>1, CallMoves
  <2>5. QED
    BY <1>1, <2>1, <2>4 DEF OauthAccepted, TypeOK
<1>2. ASSUME NEW c \in Callers, NEW how \in {"refused", "incompatible", "cut", "unanswered"},
             OauthFails(c, how)
      PROVE  TypeOK'
  <2>1. call[c] \in Locals(issued) /\ issued \in Nat /\ UNCHANGED issued
    BY <1>2 DEF TypeOK, CallsOK, OauthFails
  <2>2. CallsOK' /\ result' \in [Callers -> {"none", "ok"} \union Errors]
    <3>1. CASE call[c].tried = "POST" /\ FallsBack(how)
      <4> DEFINE new == [call[c] EXCEPT !.tried = "GET"]
      <4>1. new \in Locals(issued) /\ new.tried \in Methods
        <5>1. new \in Locals(issued)
          BY <2>1, LocalChanges DEF Methods
        <5>2. QED
          BY <2>1, <5>1 DEF Locals, Methods
      <4>2. pc' = [pc EXCEPT ![c] = "oauth"] /\ call' = [call EXCEPT ![c] = new] /\ result' = result
        BY <1>2, <2>1, <3>1 DEF OauthFails, TypeOK, CallsOK
      <4> HIDE DEF new
      <4>3. QED
        <5>1. CallFits(c)
          BY <2>1, <4>1, <4>2 DEF TypeOK, CallsOK, CallFits
        <5>2. CallsOK'
          BY <5>1, CallMoves
        <5>3. QED
          BY <4>2, <5>2 DEF TypeOK
    <3>2. CASE ~(call[c].tried = "POST" /\ FallsBack(how))
      BY <1>2, <2>1, <3>2, EndTypes DEF OauthFails, Errors
    <3>3. QED
      BY <3>1, <3>2
  <2>3. seen' \in Seen
    BY <1>2 DEF OauthFails, TypeOK, Seen
  <2>4. QED
    BY <1>2, <2>2, <2>3 DEF OauthFails, TypeOK, Seen
<1>3. ASSUME NEW c \in Callers, NEW first \in Families \union {None}, FamilyAnswered(c, first)
      PROVE  TypeOK'
  <2>1. UNCHANGED issued /\ token \in 0..issued
    BY <1>3 DEF FamilyAnswered, TypeOK
  <2>2. /\ CallsOK' /\ token' \in 0..issued
        /\ result' \in [Callers -> {"none", "ok"} \union Errors]
    <3>1. CASE call[c].op = "login"
      BY <1>3, <2>1, <3>1, EndTypes DEF FamilyAnswered
    <3>2. CASE call[c].op # "login"
      BY <1>3, <2>1, <3>2, AskTypes DEF FamilyAnswered
    <3>3. QED
      BY <3>1, <3>2
  <2>3. family' \in Families \union {None}
    BY <1>3 DEF FamilyAnswered, Choose, TypeOK
  <2>4. QED
    BY <1>3, <2>2, <2>3 DEF FamilyAnswered, TypeOK
<1>4. ASSUME NEW c \in Callers, FamilyFails(c) \/ TableAnswered(c) \/ TableFails(c) PROVE TypeOK'
  <2>1. CallsOK' /\ result' \in [Callers -> {"none", "ok"} \union Errors]
    BY <1>4, EndTypes DEF FamilyFails, TableAnswered, TableFails, Errors
  <2>2. QED
    BY <1>4, <2>1 DEF FamilyFails, TableAnswered, TableFails, TypeOK
<1>5. ASSUME NEW c \in Callers, TableRejected(c) PROVE TypeOK'
  <2>1. /\ CallsOK' /\ token' \in 0..issued
        /\ result' \in [Callers -> {"none", "ok"} \union Errors]
    BY <1>5, RejectedTypes DEF TableRejected, Errors
  <2>2. call[c].sent \in 0..issued
    BY DEF TypeOK, CallsOK, Locals
  <2>3. QED
    BY <1>5, <2>1, <2>2 DEF TableRejected, TypeOK
<1>6. ASSUME NEW c \in Callers, NEW op \in {"login", "fetch"}, Begin(c, op) PROVE TypeOK'
  <2> DEFINE fresh == [NoCall EXCEPT !.op = op]
  <2>1. fresh \in Locals(issued) /\ UNCHANGED issued
    <3>1. issued \in Nat /\ call[c] \in Locals(issued)
      BY DEF TypeOK, CallsOK
    <3>2. NoCall \in Locals(issued)
      BY <3>1, LocalChanges
    <3>3. QED
      BY <1>6, <3>1, <3>2, LocalChanges DEF Begin
  <2>2. CallsOK'
    <3>1. CASE op = "login" \/ token = 0
      BY <1>6, <2>1, <3>1, StartTypes DEF Begin
    <3>2. CASE ~(op = "login" \/ token = 0)
      BY <1>6, <2>1, <3>2, SendTypes DEF Begin, Goto
    <3>3. QED
      BY <3>1, <3>2
  <2>3. seen' \in Seen
    <3> DEFINE still(d) == IF d = c THEN \A e \in Callers \ {c} : pc[e] = "idle"
                           ELSE seen.alone[d] /\ pc[d] = "idle"
    <3>1. \A d \in Callers : still(d) \in BOOLEAN
      BY DEF TypeOK
    <3>2. seen' = [seen EXCEPT !.refused = [@ EXCEPT ![c] = FALSE],
                               !.rejected = [@ EXCEPT ![c] = 0],
                               !.alone = [d \in Callers |-> still(d)]]
      BY <1>6 DEF Begin, TypeOK
    <3>3. seen \in Seen /\ issued' = issued /\ issued \in Nat
      BY <1>6 DEF Begin, TypeOK, Seen
    <3> HIDE DEF still
    <3>4. [d \in Callers |-> still(d)] \in [Callers -> BOOLEAN]
      BY <3>1
    <3> DEFINE al == [d \in Callers |-> still(d)]
    <3>5. al \in [Callers -> BOOLEAN]
      BY <3>4
    <3>6. seen' = [seen EXCEPT !.refused = [@ EXCEPT ![c] = FALSE],
                               !.rejected = [@ EXCEPT ![c] = 0], !.alone = al]
      BY <3>2
    <3> HIDE DEF al
    <3> DEFINE re == [seen.refused EXCEPT ![c] = FALSE]
               rj == [seen.rejected EXCEPT ![c] = 0]
    <3>7. re \in [Callers -> BOOLEAN] /\ rj \in [Callers -> 0..issued]
      BY <3>3 DEF Seen
    <3>8. seen' = [refused |-> re, rejected |-> rj, alone |-> al]
      BY <3>3, <3>6 DEF Seen
    <3> HIDE DEF re, rj
    <3>9. QED
      BY <3>3, <3>5, <3>7, <3>8 DEF Seen
  <2>4. left' \in [Callers -> 0..Calls]
    BY <1>6, CloudAssumption DEF Begin, TypeOK
  <2>5. QED
    BY <1>6, <2>2, <2>3, <2>4 DEF Begin, TypeOK, Seen
<1>7. CASE Expire
  BY <1>7 DEF Expire, TypeOK, CallsOK
<1>8. CASE UNCHANGED vars
  BY <1>8 DEF vars, TypeOK, CallsOK
<1>9. QED
  BY <1>1, <1>2, <1>3, <1>4, <1>5, <1>6, <1>7, <1>8 DEF Next, Answer

LEMMA TypeInit == Init => TypeOK
BY CloudAssumption DEF Init, TypeOK, CallsOK, Locals, NoCall, NothingSeen, Methods, Errors

\* Every variable keeps its type, and no request that needs a token is sent
\* without one, whatever the other callers do.
THEOREM TypeCorrect == Spec => []TypeOK
BY TypeInit, TypeStep, PTL DEF Spec
-----------------------------------------------------------------------------
\* A caller that has moved on has the token of the client, if there is one, left
\* to try: it was issued after the one that was rejected to it.
NewerIsLeft == \A c \in Callers : pc[c] # "idle" => token = 0 \/ token > seen.rejected[c]

RetryInv == TypeOK /\ NewerIsLeft /\ RetryHasNewToken

\* Where another caller, or the cloud, moves and the token only grows or goes.
LEMMA OthersKeepRetry ==
    ASSUME RetryInv, TypeOK', token' = token \/ token' = 0 \/ token' = issued + 1,
           NEW d \in Callers, UNCHANGED <<pc[d], call[d], seen.rejected[d]>>
    PROVE  /\ pc'[d] # "idle" => token' = 0 \/ token' > seen'.rejected[d]
           /\ pc'[d] = "table" => call'[d].sent > seen'.rejected[d]
<1>1. seen.rejected[d] \in 0..issued /\ issued \in Nat
  BY DEF RetryInv, TypeOK
<1>2. QED
  BY <1>1 DEF RetryInv, NewerIsLeft, RetryHasNewToken

\* An error of the API to c, which is in a call.
LEMMA RejectedKeepsRetry ==
    ASSUME RetryInv, NEW c \in Callers, NEW how \in Errors, Rejected(c, how)
    PROVE  /\ (pc'[c] = "idle" /\ UNCHANGED token) \/ (pc'[c] = "oauth" /\ token' = 0)
           /\ \A d \in Callers \ {c} : UNCHANGED <<pc[d], call[d]>>
<1>1. pc \in [Callers -> {"idle", "oauth", "family", "table"}] /\ call \in [Callers -> Locals(issued)]
  BY DEF RetryInv, TypeOK, CallsOK
<1>2. CASE call[c].retried
  <2>1. pc' = [pc EXCEPT ![c] = "idle"] /\ call' = [call EXCEPT ![c] = NoCall] /\ UNCHANGED token
    BY <1>2 DEF Rejected, End, Goto
  <2>2. \A d \in Callers \ {c} : call'[d] = call[d]
    BY <1>1, <2>1
  <2>3. \A d \in Callers \ {c} : pc'[d] = pc[d]
    BY <1>1, <2>1
  <2>4. pc'[c] = "idle"
    BY <1>1, <2>1
  <2>5. QED
    BY <2>1, <2>2, <2>3, <2>4
<1>3. CASE ~call[c].retried
  <2>1. pc' = [pc EXCEPT ![c] = "oauth"] /\ token' = 0
    BY <1>3 DEF Rejected, LoginAgain, StartLogin, Goto
  <2>2. \A d \in Callers \ {c} : call'[d] = call[d]
    BY <1>1, <1>3 DEF Rejected, LoginAgain, StartLogin
  <2>3. QED
    BY <1>1, <2>1, <2>2
<1>4. QED
  BY <1>2, <1>3

LEMMA RetryStep == RetryInv /\ TypeOK' /\ [Next]_vars => RetryInv'
<1> SUFFICES ASSUME RetryInv, TypeOK', [Next]_vars PROVE NewerIsLeft' /\ RetryHasNewToken'
  BY DEF RetryInv
<1> DEFINE Kept(d) == /\ pc'[d] # "idle" => token' = 0 \/ token' > seen'.rejected[d]
                      /\ pc'[d] = "table" => call'[d].sent > seen'.rejected[d]
<1>0. SUFFICES ASSUME NEW d \in Callers PROVE Kept(d)
  BY DEF NewerIsLeft, RetryHasNewToken
<1> DEFINE Same(e) == UNCHANGED <<pc[e], call[e], seen.rejected[e]>>
<1>1. /\ token \in 0..issued /\ issued \in Nat /\ seen.rejected[d] \in 0..issued
      /\ \A c \in Callers : pc[c] \in {"family", "table"} => call[c].sent > 0
  BY DEF RetryInv, TypeOK, CallsOK
<1>2. ASSUME NEW c \in Callers, OauthAccepted(c) PROVE Kept(d)
  <2>1. CASE c = d
    BY <1>1, <1>2, <2>1 DEF OauthAccepted, Goto, RetryInv, TypeOK, CallsOK
  <2>2. CASE c # d
    <3>1. Same(d) /\ token' = issued + 1
      BY <1>2, <2>2 DEF OauthAccepted, Goto, RetryInv, TypeOK, CallsOK
    <3>2. QED
      BY <3>1, OthersKeepRetry
  <2>3. QED
    BY <2>1, <2>2
<1>3. ASSUME NEW c \in Callers, NEW how \in {"refused", "incompatible", "cut", "unanswered"},
             OauthFails(c, how)
      PROVE  Kept(d)
  <2>1. UNCHANGED token /\ seen'.rejected[d] = seen.rejected[d]
    BY <1>3 DEF OauthFails, RetryInv, TypeOK
  <2>2. CASE c = d
    <3>1. pc'[d] # "table" /\ pc[d] # "idle"
      BY <1>3, <2>2 DEF OauthFails, End, Goto, RetryInv, TypeOK, CallsOK
    <3>2. QED
      BY <2>1, <3>1 DEF RetryInv, NewerIsLeft
  <2>3. CASE c # d
    <3>1. Same(d)
      BY <1>3, <2>1, <2>3 DEF OauthFails, End, Goto, RetryInv, TypeOK, CallsOK
    <3>2. QED
      BY <2>1, <3>1, OthersKeepRetry
  <2>4. QED
    BY <2>2, <2>3
<1>4. ASSUME NEW c \in Callers, NEW first \in Families \union {None}, FamilyAnswered(c, first)
      PROVE  Kept(d)
  <2>1. UNCHANGED seen /\ pc[c] = "family"
    BY <1>4 DEF FamilyAnswered
  <2>2. CASE call[c].op = "login" \/ (call[c].op # "login" /\ token = 0)
    <3>1. /\ (pc'[c] = "idle" /\ UNCHANGED token) \/ (pc'[c] = "oauth" /\ token' = 0)
          /\ \A e \in Callers \ {c} : UNCHANGED <<pc[e], call[e]>>
      <4>1. CASE call[c].op = "login"
        <5>1. /\ pc' = [pc EXCEPT ![c] = "idle"] /\ call' = [call EXCEPT ![c] = NoCall]
              /\ UNCHANGED token
          BY <1>4, <4>1 DEF FamilyAnswered, End, Goto
        <5>2. \A e \in Callers \ {c} : call'[e] = call[e]
          BY <5>1 DEF RetryInv, TypeOK, CallsOK
        <5>3. pc'[c] = "idle" /\ \A e \in Callers \ {c} : pc'[e] = pc[e]
          BY <5>1 DEF RetryInv, TypeOK, CallsOK
        <5>4. QED
          BY <5>1, <5>2, <5>3
      <4>2. CASE call[c].op # "login" /\ token = 0
        BY <1>4, <4>2, RejectedKeepsRetry DEF FamilyAnswered, AskTable, Errors
      <4>3. QED
        BY <2>2, <4>1, <4>2
    <3>2. CASE c = d
      BY <3>1, <3>2
    <3>3. CASE c # d
      BY <2>1, <3>1, <3>3, OthersKeepRetry
    <3>4. QED
      BY <3>2, <3>3
  <2>3. CASE call[c].op # "login" /\ token # 0
    <3>1. /\ pc' = [pc EXCEPT ![c] = "table"] /\ call' = [call EXCEPT ![c].sent = token]
          /\ UNCHANGED token
      BY <1>4, <2>3 DEF FamilyAnswered, AskTable, Goto
    <3>2. CASE c = d
      <4>1. token > seen.rejected[d]
        BY <1>1, <2>1, <2>3, <3>2 DEF RetryInv, NewerIsLeft
      <4>2. call'[d].sent = token /\ seen'.rejected[d] = seen.rejected[d]
        BY <2>1, <3>1, <3>2 DEF RetryInv, TypeOK, CallsOK, Locals
      <4>3. QED
        BY <3>1, <4>1, <4>2
    <3>3. CASE c # d
      <4>1. Same(d)
        BY <2>1, <3>1, <3>3 DEF RetryInv, TypeOK, CallsOK
      <4>2. QED
        BY <3>1, <4>1, OthersKeepRetry
    <3>4. QED
      BY <3>2, <3>3
  <2>4. QED
    BY <2>2, <2>3
<1>5. ASSUME NEW c \in Callers, FamilyFails(c) \/ TableAnswered(c) \/ TableFails(c) PROVE Kept(d)
  <2>1. UNCHANGED <<token, seen>> /\ \E how \in {"ok"} \union Errors : End(c, how)
    BY <1>5 DEF FamilyFails, TableAnswered, TableFails, Errors
  <2>2. CASE c = d
    BY <2>1, <2>2 DEF End, Goto, RetryInv, TypeOK, CallsOK
  <2>3. CASE c # d
    <3>1. Same(d)
      BY <2>1, <2>3 DEF End, Goto, RetryInv, TypeOK, CallsOK
    <3>2. QED
      BY <2>1, <3>1, OthersKeepRetry
  <2>4. QED
    BY <2>2, <2>3
<1>6. ASSUME NEW c \in Callers, TableRejected(c) PROVE Kept(d)
  <2>1. /\ (pc'[c] = "idle" /\ UNCHANGED token) \/ (pc'[c] = "oauth" /\ token' = 0)
        /\ \A e \in Callers \ {c} : UNCHANGED <<pc[e], call[e]>>
    BY <1>6, RejectedKeepsRetry DEF TableRejected, Errors
  <2>2. CASE c = d
    BY <2>1, <2>2
  <2>3. CASE c # d
    <3>1. seen'.rejected[d] = seen.rejected[d]
      BY <1>6, <2>3 DEF TableRejected, RetryInv, TypeOK
    <3>2. Same(d)
      BY <2>1, <2>3, <3>1
    <3>3. QED
      BY <2>1, <3>2, OthersKeepRetry
  <2>4. QED
    BY <2>2, <2>3
<1>7. ASSUME NEW c \in Callers, NEW op \in {"login", "fetch"}, Begin(c, op) PROVE Kept(d)
  <2>1. UNCHANGED token
    BY <1>7 DEF Begin
  <2>2. CASE c = d
    <3>1. seen'.rejected[d] = 0
      BY <1>7, <2>2 DEF Begin, RetryInv, TypeOK
    <3>2. pc'[d] = "table" => call'[d].sent > 0
      BY DEF TypeOK, CallsOK
    <3>3. QED
      BY <1>1, <2>1, <3>1, <3>2
  <2>3. CASE c # d
    <3>1. seen'.rejected[d] = seen.rejected[d]
      BY <1>7, <2>3 DEF Begin, RetryInv, TypeOK
    <3>2. pc'[d] = pc[d] /\ call'[d] = call[d]
      <4>1. \E w \in {"oauth", "table"} : pc' = [pc EXCEPT ![c] = w]
        BY <1>7 DEF Begin, StartLogin, Goto
      <4>2. pc'[d] = pc[d]
        BY <2>3, <4>1 DEF RetryInv, TypeOK, CallsOK
      <4>3. call'[d] = call[d]
        <5>1. PICK l : call' = [call EXCEPT ![c] = l]
          BY <1>7 DEF Begin, StartLogin
        <5>2. QED
          BY <2>3, <5>1 DEF RetryInv, TypeOK, CallsOK
      <4>4. QED
        BY <4>2, <4>3
    <3>3. QED
      BY <2>1, <3>1, <3>2, OthersKeepRetry
  <2>4. QED
    BY <2>2, <2>3
<1>8. CASE Expire \/ UNCHANGED vars
  BY <1>8, OthersKeepRetry DEF Expire, vars
<1>9. QED
  BY <1>2, <1>3, <1>4, <1>5, <1>6, <1>7, <1>8 DEF Next, Answer

\* The retry of a call never sends the token that was rejected to it, however
\* many callers log in, expire and clear the one token they share.
THEOREM RetryTakesNewToken == Spec => []RetryHasNewToken
<1>1. Init => RetryInv
  BY TypeInit DEF Init, RetryInv, NewerIsLeft, RetryHasNewToken
<1>2. RetryInv => RetryHasNewToken
  BY DEF RetryInv
<1>3. QED
  BY <1>1, <1>2, RetryStep, TypeCorrect, PTL DEF Spec
-----------------------------------------------------------------------------
\* During a call that is alone all others rest, so the token its login has set is
\* still there when the family list is answered.
AloneOf(c) ==
    /\ seen.alone[c] /\ pc[c] # "idle" => \A d \in Callers \ {c} : pc[d] = "idle"
    /\ seen.alone[c] /\ pc[c] = "family" => token # 0
    /\ result[c] = "auth" /\ seen.alone[c] => seen.refused[c]

AloneInv == TypeOK /\ \A c \in Callers : AloneOf(c)

\* Another caller's step does not matter to d: if d is alone and in a call there is
\* no such step.
LEMMA OthersKeepAlone ==
    ASSUME AloneInv, NEW c \in Callers, NEW d \in Callers \ {c}, pc[c] # "idle",
           UNCHANGED <<pc[d], result[d], seen.alone[d], seen.refused[d]>>
    PROVE  AloneOf(d)'
<1>1. ~(seen.alone[d] /\ pc[d] # "idle")
  BY DEF AloneInv, AloneOf
<1>2. QED
  BY <1>1 DEF AloneInv, AloneOf

\* What a step of c has to establish for c itself.
LEMMA OwnKeepsAlone ==
    ASSUME AloneInv, NEW c \in Callers, pc[c] # "idle", UNCHANGED seen.alone[c],
           \A d \in Callers \ {c} : UNCHANGED pc[d],
           seen.alone[c] /\ pc'[c] = "family" => token' # 0,
           result'[c] = "auth" /\ seen.alone[c] => seen'.refused[c]
    PROVE  AloneOf(c)'
BY DEF AloneInv, AloneOf

LEMMA AloneStep == AloneInv /\ TypeOK' /\ [Next]_vars => AloneInv'
<1> SUFFICES ASSUME AloneInv, TypeOK', [Next]_vars, NEW d \in Callers PROVE AloneOf(d)'
  BY DEF AloneInv
<1>1. /\ pc \in [Callers -> {"idle", "oauth", "family", "table"}] /\ call \in [Callers -> Locals(issued)]
      /\ result \in [Callers -> {"none", "ok"} \union Errors] /\ issued \in Nat
      /\ seen \in Seen
  BY DEF AloneInv, TypeOK, CallsOK, Seen
<1>2. ASSUME NEW c \in Callers, OauthAccepted(c) PROVE AloneOf(d)'
  <2>1. /\ pc[c] # "idle" /\ \A e \in Callers \ {c} : UNCHANGED pc[e]
        /\ UNCHANGED <<result, seen>> /\ token' # 0
    BY <1>1, <1>2 DEF OauthAccepted, Goto
  <2>2. CASE c = d
    BY <2>1, <2>2, OwnKeepsAlone DEF AloneInv, AloneOf
  <2>3. CASE c # d
    BY <2>1, <2>3, OthersKeepAlone
  <2>4. QED
    BY <2>2, <2>3
<1>3. ASSUME NEW c \in Callers, NEW how \in {"refused", "incompatible", "cut", "unanswered"},
             OauthFails(c, how)
      PROVE  AloneOf(d)'
  <2>1. /\ pc[c] # "idle" /\ pc'[c] # "family"
        /\ \A e \in Callers \ {c} : UNCHANGED <<pc[e], result[e]>>
    BY <1>1, <1>3 DEF OauthFails, End, Goto
  <2>2. UNCHANGED seen.alone /\ \A e \in Callers \ {c} : UNCHANGED seen.refused[e]
    BY <1>1, <1>3 DEF OauthFails, Seen
  <2>3. CASE c = d
    <3>1. result'[c] = "auth" => how = "refused" \/ result[c] = "auth"
      BY <1>1, <1>3 DEF OauthFails, End
    <3>2. (how = "refused" => seen'.refused[c]) /\ (seen.refused[c] => seen'.refused[c])
      BY <1>1, <1>3 DEF OauthFails, Seen
    <3>3. result'[c] = "auth" /\ seen.alone[c] => seen'.refused[c]
      BY <3>1, <3>2 DEF AloneInv, AloneOf
    <3>4. QED
      BY <2>1, <2>2, <2>3, <3>3, OwnKeepsAlone
  <2>4. CASE c # d
    BY <2>1, <2>2, <2>4, OthersKeepAlone
  <2>5. QED
    BY <2>3, <2>4
<1>4. ASSUME NEW c \in Callers, NEW first \in Families \union {None}, FamilyAnswered(c, first)
      PROVE  AloneOf(d)'
  <2>1. pc[c] = "family" /\ UNCHANGED seen
    BY <1>4 DEF FamilyAnswered
  <2>2. /\ \A e \in Callers \ {c} : UNCHANGED <<pc[e], result[e]>>
        /\ pc'[c] # "family"
        /\ token # 0 /\ result'[c] = "auth" => result[c] = "auth"
    <3>1. CASE call[c].op = "login"
      BY <1>1, <1>4, <3>1 DEF FamilyAnswered, End, Goto
    <3>2. CASE call[c].op # "login" /\ token # 0
      BY <1>1, <1>4, <3>2 DEF FamilyAnswered, AskTable, Goto
    <3>3. CASE call[c].op # "login" /\ token = 0
      BY <1>1, <1>4, <3>3 DEF FamilyAnswered, AskTable, Rejected, LoginAgain, StartLogin, End, Goto
    <3>4. QED
      BY <3>1, <3>2, <3>3
  <2>3. CASE c = d
    <3>1. result'[c] = "auth" /\ seen.alone[c] => seen'.refused[c]
      BY <2>1, <2>2 DEF AloneInv, AloneOf
    <3>2. QED
      BY <2>1, <2>2, <2>3, <3>1, OwnKeepsAlone
  <2>4. CASE c # d
    BY <2>1, <2>2, <2>4, OthersKeepAlone
  <2>5. QED
    BY <2>3, <2>4
<1>5. ASSUME NEW c \in Callers, FamilyFails(c) \/ TableAnswered(c) \/ TableFails(c) PROVE AloneOf(d)'
  <2>1. /\ pc[c] # "idle" /\ UNCHANGED seen
        /\ pc' = [pc EXCEPT ![c] = "idle"]
        /\ \E how \in {"ok", "error"} : result' = [result EXCEPT ![c] = how]
    BY <1>5 DEF FamilyFails, TableAnswered, TableFails, End, Goto
  <2>2. /\ \A e \in Callers \ {c} : UNCHANGED <<pc[e], result[e]>>
        /\ pc'[c] # "family" /\ result'[c] # "auth"
    BY <1>1, <2>1
  <2>3. CASE c = d
    BY <2>1, <2>2, <2>3, OwnKeepsAlone
  <2>4. CASE c # d
    BY <2>1, <2>2, <2>4, OthersKeepAlone
  <2>5. QED
    BY <2>3, <2>4
<1>6. ASSUME NEW c \in Callers, TableRejected(c) PROVE AloneOf(d)'
  <2>1. pc[c] # "idle" /\ UNCHANGED <<seen.alone, seen.refused>>
    BY <1>1, <1>6 DEF TableRejected, Seen
  <2>2. /\ \A e \in Callers \ {c} : UNCHANGED <<pc[e], result[e]>>
        /\ pc'[c] # "family"
        /\ result'[c] = "auth" => result[c] = "auth"
    <3>1. CASE call[c].retried
      BY <1>1, <1>6, <3>1 DEF TableRejected, Rejected, End, Goto
    <3>2. CASE ~call[c].retried
      BY <1>1, <1>6, <3>2 DEF TableRejected, Rejected, LoginAgain, StartLogin, Goto
    <3>3. QED
      BY <3>1, <3>2
  <2>3. CASE c = d
    <3>1. result'[c] = "auth" /\ seen.alone[c] => seen'.refused[c]
      BY <2>1, <2>2 DEF AloneInv, AloneOf
    <3>2. QED
      BY <2>1, <2>2, <2>3, <3>1, OwnKeepsAlone
  <2>4. CASE c # d
    BY <2>1, <2>2, <2>4, OthersKeepAlone
  <2>5. QED
    BY <2>3, <2>4
<1>7. ASSUME NEW c \in Callers, NEW op \in {"login", "fetch"}, Begin(c, op) PROVE AloneOf(d)'
  <2>1. /\ \A e \in Callers \ {c} : UNCHANGED pc[e]
        /\ pc'[c] # "family" /\ result' = [result EXCEPT ![c] = "none"]
    BY <1>1, <1>7 DEF Begin, StartLogin, Goto
  <2>2. seen'.alone[d] = (IF d = c THEN \A e \in Callers \ {c} : pc[e] = "idle"
                          ELSE seen.alone[d] /\ pc[d] = "idle")
    BY <1>1, <1>7 DEF Begin, Seen
  <2>3. d # c => seen'.refused[d] = seen.refused[d]
    BY <1>1, <1>7 DEF Begin, Seen
  <2>4. CASE c = d
    <3>1. seen'.alone[c] => \A e \in Callers \ {c} : pc'[e] = "idle"
      BY <2>1, <2>2, <2>4
    <3>2. QED
      BY <1>1, <2>1, <2>4, <3>1 DEF AloneOf
  <2>5. CASE c # d
    <3>1. pc'[d] = pc[d] /\ result'[d] = result[d] /\ (seen'.alone[d] => seen.alone[d] /\ pc[d] = "idle")
      BY <1>1, <2>1, <2>2, <2>5
    <3>2. QED
      BY <2>3, <2>5, <3>1 DEF AloneInv, AloneOf
  <2>6. QED
    BY <2>4, <2>5
<1>8. CASE Expire \/ UNCHANGED vars
  BY <1>8 DEF Expire, vars, AloneInv, AloneOf
<1>9. QED
  BY <1>2, <1>3, <1>4, <1>5, <1>6, <1>7, <1>8 DEF Next, Answer

\* A call that is alone fails with an authentication error only if the cloud has
\* refused its login, whatever its tokens went through before: the client takes
\* an expired token for a wrong password only when calls overlap.
THEOREM AloneOnlyRefusalIsAuthError == Spec => []LoneAuthErrorMeansRefused
<1>1. Init => AloneInv
  BY TypeInit DEF Init, NothingSeen, AloneInv, AloneOf
<1>2. AloneInv => LoneAuthErrorMeansRefused
  BY DEF AloneInv, AloneOf, LoneAuthErrorMeansRefused
<1>3. QED
  BY <1>1, <1>2, AloneStep, TypeCorrect, PTL DEF Spec
=============================================================================
