-------------------------- MODULE OAuthClientProofs --------------------------
(***************************************************************************)
(* Theorems about the OAuth client, for any number of flows, tokens,       *)
(* lifetimes and ticks, and however callbacks, dropped calls, crashes and  *)
(* lost or rotated tokens interleave.                                      *)
(***************************************************************************)
EXTENDS OAuthClient, TLAPS

\* A token that Reddit answers with is a token.
Issued == op.reply = "token" => op.token.id # None

\* What is exchanged is the code of a flow.
Exchanges == op.at = "exchanging" => op.code \in Flows

\* The flow that can be exchanged is the last one, and its verifier is unused
\* until it is; flows to come have sent nothing.
FlowInv ==
  /\ VerifierSentOnce
  /\ \A f \in Flows : f > latest => sent[f] = 0
  /\ auth.state = "pending" => auth.flow = latest /\ sent[latest] = 0
  /\ LatestFlowLogsIn

\* What is about to be stored is a refresh token that Reddit takes.
AnswerValid ==
  ~lost /\ op.reply = "token" =>
    /\ op.at \in {"exchanging", "refreshing"}
    /\ op.at = "exchanging" => op.token.refresh \in reddit.valid \cup {None}
    /\ op.at = "refreshing" => KeptRefreshToken(op.token.refresh, op.refresh) \in reddit.valid

IInv == TypeOK /\ Issued /\ Exchanges /\ FlowInv /\ SendsUsableToken /\ RefreshTokenValid /\ AnswerValid

-----------------------------------------------------------------------------
(* Types *)

LEMMA NoTokenFacts == NoToken \in Token /\ NoToken.id = None
BY DEF NoToken, Token, None

LEMMA NoOpFacts == NoOp \in Operation /\ NoOp.at = "none" /\ NoOp.reply = "none"
BY NoTokenFacts DEF NoOp, Operation, None, Unchecked

\* The three shapes of the state.
LEMMA AuthShapes ==
  /\ NotAuthenticated \in AuthState
  /\ \A f \in Flows : PendingState(f) \in AuthState
  /\ \A t \in Token, s \in {"authenticated", "expired"} :
       t # NoToken => [state |-> s, flow |-> None, token |-> t] \in AuthState
<1>1. NotAuthenticated \in AuthState
  BY NoTokenFacts DEF NotAuthenticated, AuthState
<1>2. \A f \in Flows : PendingState(f) \in AuthState
  BY NoTokenFacts, ConfigAssumption DEF PendingState, AuthState, None
<1>3. ASSUME NEW t \in Token, NEW s \in {"authenticated", "expired"}, t # NoToken
      PROVE  [state |-> s, flow |-> None, token |-> t] \in AuthState
  BY <1>3 DEF AuthState
<1> QED
  BY <1>1, <1>2, <1>3

LEMMA AuthFields ==
  ASSUME auth \in AuthState
  PROVE  /\ auth.token \in Token
         /\ auth.state \in {"none", "pending", "authenticated", "expired"}
         /\ auth.state = "pending" => auth.flow \in Flows
         /\ auth.state \in {"authenticated", "expired"} => auth.token # NoToken
BY DEF AuthState

LEMMA InitTypeOK == Init => TypeOK
<1> SUFFICES ASSUME Init PROVE TypeOK
  OBVIOUS
<1>1. reddit \in [approved : SUBSET Flows, spent : SUBSET Flows, valid : SUBSET (Nat \ {0}),
                  issued : 0..MaxTokens]
  BY ConfigAssumption DEF Init
<1>2. auth \in AuthState /\ op \in Operation /\ saved \in Token
  BY AuthShapes, NoOpFacts, NoTokenFacts DEF Init
<1>3. now = 0 /\ latest = None /\ sent = [f \in Flows |-> 0] /\ lost = FALSE
  BY DEF Init
<1>4. now \in 0..MaxTime /\ latest \in Flows \cup {None} /\ sent \in [Flows -> Nat]
  BY <1>3, ConfigAssumption
<1>5. lost \in BOOLEAN
  BY <1>3
<1> QED
  BY <1>1, <1>2, <1>4, <1>5 DEF TypeOK

\* The answer to a request that Reddit takes.
LEMMA AnswerFacts ==
  ASSUME TypeOK, NEW given \in BOOLEAN, NEW arrives \in BOOLEAN, Answer(Issue(given), arrives)
  PROVE  /\ op' \in Operation
         /\ Issue(given).refresh = (IF given THEN reddit.issued + 1 ELSE None)
         /\ op'.at = op.at /\ op'.code = op.code /\ op'.verifier = op.verifier
         /\ op'.refresh = op.refresh
         /\ op'.reply = IF arrives THEN "token" ELSE "error"
         /\ arrives => op'.token = Issue(given) /\ Issue(given).id # None
         /\ lost' = (lost \/ ~arrives)
<1> DEFINE t == Issue(given)
<1>1. reddit.issued \in Nat
  BY ConfigAssumption DEF TypeOK
<1>2. t \in Token /\ t.id = reddit.issued + 1 /\ t.refresh = (IF given THEN reddit.issued + 1 ELSE None)
  <2> DEFINE n == reddit.issued + 1
             k == IF given THEN n ELSE None
  <2>1. n \in Nat /\ k \in Nat
    BY <1>1 DEF None
  <2>2. t = [id |-> n, refresh |-> k, expires |-> 0]
    BY DEF Issue
  <2> HIDE DEF n, k, t
  <2>3. t \in Token /\ t.id = n /\ t.refresh = k
    BY <2>1, <2>2 DEF Token
  <2> QED
    BY <2>3 DEF n, k, t
<1>3. t.id # None
  BY <1>1, <1>2 DEF None
<1>4. op' = [op EXCEPT !.reply = IF arrives THEN "token" ELSE "error",
                       !.token = IF arrives THEN t ELSE NoToken]
  BY DEF Answer
<1> HIDE DEF t
<1>5. op' \in Operation
  BY <1>2, <1>4, NoTokenFacts DEF TypeOK, Operation
<1>6. /\ op'.at = op.at /\ op'.code = op.code /\ op'.verifier = op.verifier
      /\ op'.refresh = op.refresh
      /\ op'.reply = IF arrives THEN "token" ELSE "error"
      /\ arrives => op'.token = t
  BY <1>4 DEF TypeOK, Operation
<1>7. lost' = (lost \/ ~arrives)
  BY DEF Answer
<1> QED
  BY <1>2, <1>3, <1>5, <1>6, <1>7 DEF t

LEMMA NextExchanges == TypeOK /\ Exchanges /\ [Next]_vars => Exchanges'
<1> SUFFICES ASSUME TypeOK, Exchanges, [Next]_vars PROVE Exchanges'
  OBVIOUS
<1>0. ASSUME op'.at # "exchanging" \/ (op'.at = op.at /\ op'.code = op.code)
      PROVE  Exchanges'
  BY <1>0 DEF Exchanges
<1>1. ASSUME NEW f \in Flows, HandleCallback(f) PROVE Exchanges'
  <2>1. op' = op \/ op' = [NoOp EXCEPT !.at = "exchanging", !.code = f, !.verifier = auth.flow]
    BY <1>1 DEF HandleCallback
  <2>2. op' = op \/ op'.code = f
    BY <2>1, NoOpFacts DEF Operation
  <2> QED
    BY <1>0, <2>2 DEF Exchanges
<1>2. ASSUME NEW arrives \in BOOLEAN, NEW given \in BOOLEAN,
             AcceptCode(arrives, given) \/ AcceptRefresh(arrives, given)
      PROVE  Exchanges'
  <2>1. Answer(Issue(given), arrives)
    BY <1>2 DEF AcceptCode, AcceptRefresh
  <2> QED
    BY <1>0, <2>1, AnswerFacts
<1>3. CASE RefreshToken \/ Fetch
  <2>1. op'.at \in {"refreshing", "sending"}
    BY <1>3, NoOpFacts DEF RefreshToken, Fetch, AskRefresh, Operation
  <2> QED
    BY <1>0, <2>1
<1>4. ASSUME NEW life \in Lifetimes, StoreExchanged(life) \/ StoreRefreshed(life) PROVE Exchanges'
  <2> DEFINE t == auth'.token
  <2>1. op' = NoOp \/ op' = [NoOp EXCEPT !.at = "sending", !.token = t]
    BY <1>4 DEF StoreExchanged, StoreRefreshed
  <2> HIDE DEF t
  <2> QED
    BY <1>0, <2>1, NoOpFacts DEF Operation
<1>5. CASE ReturnError \/ FinishFetch \/ DropCall \/ Crash \/ Start
  <2>1. op'.at \in {"none", "stopped"}
    BY <1>5, NoOpFacts DEF ReturnError, FinishFetch, DropCall, Crash, Start, AfterError, Operation
  <2> QED
    BY <1>0, <2>1
<1>6. CASE Refuse
  BY <1>0, <1>6 DEF Refuse, TypeOK, Operation
<1>7. CASE SetToken \/ Save \/ Tick \/ (\E f \in Flows : GenerateAuthUrl(f) \/ Approve(f)) \/ UNCHANGED vars
  BY <1>0, <1>7 DEF SetToken, Save, Tick, GenerateAuthUrl, Approve, vars
<1> QED
  BY <1>1, <1>2, <1>3, <1>4, <1>5, <1>6, <1>7 DEF Next, CallStep, Reply

LEMMA NextTypeOK == TypeOK /\ Issued /\ Exchanges /\ [Next]_vars => TypeOK' /\ Issued'
<1> SUFFICES ASSUME TypeOK, Issued, Exchanges, [Next]_vars PROVE TypeOK' /\ Issued'
  OBVIOUS
<1> USE ConfigAssumption
<1>0. ASSUME op' = op \/ op'.reply # "token"
      PROVE  Issued'
  BY <1>0 DEF Issued
<1>1. ASSUME NEW f \in Flows, GenerateAuthUrl(f) PROVE TypeOK' /\ Issued'
  BY <1>0, <1>1, AuthShapes DEF GenerateAuthUrl, TypeOK
<1>2. ASSUME NEW f \in Flows, HandleCallback(f) PROVE TypeOK' /\ Issued'
  <2>1. auth' \in AuthState
    BY <1>2, AuthShapes DEF HandleCallback, Replaced
  <2>2. CASE auth.state = "pending"
    <3>1. auth.flow \in Flows
      BY <2>2, AuthFields DEF TypeOK
    <3>2. op' = [NoOp EXCEPT !.at = "exchanging", !.code = f, !.verifier = auth.flow]
      BY <1>2, <2>2 DEF HandleCallback
    <3>3. op' \in Operation /\ op'.reply = "none"
      BY <3>1, <3>2, NoOpFacts DEF Operation
    <3>4. sent' \in [Flows -> Nat]
      BY <1>2, <2>2, <3>1 DEF HandleCallback, TypeOK
    <3> QED
      BY <1>0, <1>2, <2>1, <3>3, <3>4 DEF HandleCallback, TypeOK
  <2>3. CASE auth.state # "pending"
    BY <1>0, <1>2, <2>1, <2>3 DEF HandleCallback, TypeOK
  <2> QED
    BY <2>2, <2>3
<1>3. ASSUME NEW f \in Flows, Approve(f) PROVE TypeOK' /\ Issued'
  BY <1>0, <1>3 DEF Approve, TypeOK
<1>4. ASSUME NEW refresh \in Nat, NEW then \in {"return", "send"}, AskRefresh(refresh, then)
      PROVE  op' \in Operation /\ op'.reply = "none"
  BY <1>4, NoOpFacts DEF AskRefresh, Operation
<1>5. CASE RefreshToken
  <2>1. saved.refresh \in Nat
    BY DEF TypeOK, Token
  <2> QED
    BY <1>0, <1>4, <1>5, <2>1 DEF RefreshToken, TypeOK
<1>6. CASE Fetch
  <2>1. auth.token.refresh \in Nat /\ auth.token \in Token
    BY AuthFields DEF TypeOK, Token
  <2>2. op' \in Operation /\ op'.reply = "none"
    <3>1. CASE NeedsRefresh
      BY <1>4, <1>6, <2>1, <3>1 DEF Fetch
    <3>2. CASE ~NeedsRefresh
      <4>1. op' = [NoOp EXCEPT !.at = "sending", !.token = auth.token, !.checked = now]
        BY <1>6, <3>2 DEF Fetch
      <4>2. now \in 0..MaxTime
        BY DEF TypeOK
      <4> QED
        BY <2>1, <4>1, <4>2, NoOpFacts DEF Operation
    <3> QED
      BY <3>1, <3>2
  <2> QED
    BY <1>0, <1>6, <2>2 DEF Fetch, TypeOK
<1>7. ASSUME NEW life \in Lifetimes, StoreExchanged(life) PROVE TypeOK' /\ Issued'
  <2> DEFINE t == [op.token EXCEPT !.expires = ExpiresAt(life)]
  <2>1. ExpiresAt(life) \in Nat
    BY DEF ExpiresAt, TypeOK
  <2>2. t \in Token /\ t.id = op.token.id
    BY <2>1 DEF TypeOK, Operation, Token
  <2>3. t # NoToken
    BY <1>7, <2>2, NoTokenFacts DEF StoreExchanged, Issued
  <2>4. auth' = [state |-> "authenticated", flow |-> None, token |-> t]
    BY <1>7 DEF StoreExchanged
  <2> HIDE DEF t
  <2>5. auth' \in AuthState
    BY <2>2, <2>3, <2>4, AuthShapes
  <2> QED
    BY <1>0, <1>7, <2>5, NoOpFacts DEF StoreExchanged, TypeOK
<1>8. ASSUME NEW life \in Lifetimes, StoreRefreshed(life) PROVE TypeOK' /\ Issued'
  <2> DEFINE t == [id |-> op.token.id, expires |-> ExpiresAt(life),
                   refresh |-> KeptRefreshToken(op.token.refresh, op.refresh)]
  <2>1. ExpiresAt(life) \in Nat
    BY DEF ExpiresAt, TypeOK
  <2>2. op.token.id \in Nat /\ KeptRefreshToken(op.token.refresh, op.refresh) \in Nat
    BY DEF TypeOK, Operation, Token, KeptRefreshToken
  <2>3. t \in Token /\ t.id = op.token.id
    BY <2>1, <2>2 DEF Token
  <2>4. t # NoToken
    BY <1>8, <2>3, NoTokenFacts DEF StoreRefreshed, Issued
  <2>5. auth' = [state |-> "authenticated", flow |-> None, token |-> t]
    BY <1>8 DEF StoreRefreshed
  <2> HIDE DEF t
  <2>6. auth' \in AuthState /\ auth'.token = t
    BY <2>3, <2>4, <2>5, AuthShapes
  <2>7. op' = [NoOp EXCEPT !.at = "sending", !.token = t] \/ op' = NoOp
    BY <1>8, <2>6 DEF StoreRefreshed
  <2>8. op' \in Operation /\ op'.reply = "none"
    BY <2>3, <2>7, NoOpFacts DEF Operation
  <2> QED
    BY <1>0, <1>8, <2>6, <2>8 DEF StoreRefreshed, TypeOK
<1>9. CASE ReturnError \/ FinishFetch \/ DropCall
  <2>1. op' = NoOp /\ auth' = auth
    BY <1>9 DEF ReturnError, FinishFetch, DropCall, AfterError, AfterRefreshError
  <2> QED
    BY <1>0, <1>9, <2>1, NoOpFacts DEF ReturnError, FinishFetch, DropCall, TypeOK
<1>10. CASE SetToken
  <2>1. saved \in Token /\ saved # NoToken
    BY <1>10 DEF SetToken, TypeOK
  <2>2. auth' \in AuthState
    BY <1>10, <2>1, AuthShapes DEF SetToken
  <2> QED
    BY <1>0, <1>10, <2>2 DEF SetToken, TypeOK
<1>11. CASE Save
  BY <1>0, <1>11, AuthFields DEF Save, TypeOK
<1>12. CASE Crash
  <2>1. op' \in Operation /\ op'.reply = "none"
    BY <1>12, NoOpFacts DEF Crash, Operation
  <2> QED
    BY <1>0, <1>12, <2>1, AuthShapes DEF Crash, TypeOK
<1>13. CASE Start
  BY <1>0, <1>13, NoOpFacts DEF Start, TypeOK
<1>14. CASE Refuse
  <2>1. op' \in Operation /\ op'.reply = "error"
    BY <1>14 DEF Refuse, TypeOK, Operation
  <2> QED
    BY <1>0, <1>14, <2>1 DEF Refuse, TypeOK
<1>15. ASSUME NEW arrives \in BOOLEAN, NEW given \in BOOLEAN,
              AcceptCode(arrives, given) \/ AcceptRefresh(arrives, given)
       PROVE  TypeOK' /\ Issued'
  <2>1. Answer(Issue(given), arrives)
    BY <1>15 DEF AcceptCode, AcceptRefresh
  <2>2. op' \in Operation /\ Issued'
    BY <2>1, AnswerFacts DEF Issued
  <2>3. /\ reddit.issued \in Nat /\ reddit.issued + 1 \in 0..MaxTokens
        /\ Issue(given).refresh \in Nat
    BY <1>15, <2>1, AnswerFacts DEF AcceptCode, AcceptRefresh, TypeOK, None
  <2>5. reddit' \in [approved : SUBSET Flows, spent : SUBSET Flows, valid : SUBSET (Nat \ {0}),
                     issued : 0..MaxTokens]
    <3> DEFINE t == Issue(given)
               n == reddit.issued + 1
    <3>1. CASE AcceptCode(arrives, given)
      <4>1. op.code \in Flows
        BY <3>1 DEF AcceptCode, Exchanges
      <4>2. reddit' = [reddit EXCEPT !.spent = @ \cup {op.code}, !.issued = n,
                                     !.valid = (@ \cup {t.refresh}) \ {None}]
        BY <3>1 DEF AcceptCode
      <4>3. n \in 0..MaxTokens /\ t.refresh \in Nat
        BY <2>3
      <4> HIDE DEF n, t
      <4> QED
        BY <4>1, <4>2, <4>3 DEF TypeOK, None
    <3>2. CASE AcceptRefresh(arrives, given)
      <4> DEFINE kept == IF given THEN (reddit.valid \ {op.refresh}) \cup {t.refresh} ELSE reddit.valid
      <4>1. reddit' = [reddit EXCEPT !.issued = n, !.valid = kept]
        BY <3>2 DEF AcceptRefresh
      <4>2. kept \in SUBSET (Nat \ {0})
        <5>1. ASSUME given PROVE t.refresh \in Nat \ {0}
          <6>1. t.refresh = n
            BY <2>1, <5>1, AnswerFacts
          <6>2. n \in Nat \ {0}
            BY <2>3
          <6> QED
            BY <6>1, <6>2
        <5>3. reddit.valid \in SUBSET (Nat \ {0})
          BY DEF TypeOK
        <5> HIDE DEF t
        <5> QED
          BY <5>1, <5>3
      <4>3. n \in 0..MaxTokens
        BY <2>3
      <4> HIDE DEF n, t, kept
      <4> QED
        BY <4>1, <4>2, <4>3 DEF TypeOK
    <3> QED
      BY <1>15, <3>1, <3>2
  <2>6. UNCHANGED <<auth, saved, now, latest, sent>> /\ lost' \in BOOLEAN
    BY <2>1 DEF Answer, TypeOK
  <2> QED
    BY <2>2, <2>5, <2>6 DEF TypeOK
<1>16. CASE Tick
  BY <1>0, <1>16 DEF Tick, TypeOK
<1>17. CASE UNCHANGED vars
  BY <1>0, <1>17 DEF vars, TypeOK
<1> QED
  BY <1>1, <1>2, <1>3, <1>5, <1>6, <1>7, <1>8, <1>9, <1>10, <1>11, <1>12, <1>13, <1>14, <1>15,
     <1>16, <1>17 DEF Next, CallStep, Reply

-----------------------------------------------------------------------------
(* Flows *)

LEMMA InitFlow == Init => FlowInv
BY DEF Init, FlowInv, VerifierSentOnce, LatestFlowLogsIn, NotAuthenticated, NoOp

\* A step that starts no flow, sends no verifier and begins no exchange.
LEMMA QuietFlow ==
  ASSUME FlowInv, UNCHANGED <<latest, sent>>,
         auth'.state = "pending" => auth' = auth,
         op'.at = "exchanging" =>
           /\ op.at = "exchanging" /\ op'.verifier = op.verifier /\ op'.code = op.code
           /\ op'.reply = "token" => op.reply = "token" \/ op.code = op.verifier
  PROVE  FlowInv'
BY DEF FlowInv, VerifierSentOnce, LatestFlowLogsIn

LEMMA NextFlow == TypeOK /\ FlowInv /\ [Next]_vars => FlowInv'
<1> SUFFICES ASSUME TypeOK, FlowInv, [Next]_vars PROVE FlowInv'
  OBVIOUS
<1>0. NotAuthenticated.state = "none" /\ NoOp.at = "none"
  BY DEF NotAuthenticated, NoOp
<1>1. ASSUME NEW f \in Flows, GenerateAuthUrl(f) PROVE FlowInv'
  <2>1. /\ op.at = "none" /\ UNCHANGED <<op, sent>> /\ latest' = f /\ f = latest + 1
        /\ auth'.state = "pending" /\ auth'.flow = f
    BY <1>1 DEF GenerateAuthUrl, Idle, PendingState
  <2>2. latest \in Nat /\ Flows \subseteq Nat
    BY ConfigAssumption DEF TypeOK, None
  <2>3. sent[f] = 0 /\ \A g \in Flows : g > f => sent[g] = 0
    BY <2>1, <2>2 DEF FlowInv
  <2> QED
    BY <2>1, <2>3 DEF FlowInv, VerifierSentOnce, LatestFlowLogsIn
<1>2. ASSUME NEW f \in Flows, HandleCallback(f) PROVE FlowInv'
  <2>1. auth'.state = "none" /\ UNCHANGED latest /\ op.at = "none"
    BY <1>0, <1>2 DEF HandleCallback, Replaced, Idle
  <2>2. CASE auth.state = "pending"
    <3>1. /\ auth.flow \in Flows /\ auth.flow = latest /\ sent[latest] = 0
          /\ op' = [NoOp EXCEPT !.at = "exchanging", !.code = f, !.verifier = auth.flow]
          /\ sent' = [sent EXCEPT ![auth.flow] = @ + 1]
      BY <1>2, <2>2, AuthFields DEF HandleCallback, FlowInv, TypeOK
    <3>2. op'.verifier = latest /\ op'.reply = "none"
      BY <3>1, NoOpFacts DEF Operation
    <3>3. /\ sent'[latest] = 1
          /\ \A g \in Flows \ {latest} : sent'[g] = sent[g]
      BY <3>1 DEF TypeOK
    <3>4. latest \in Nat /\ ~(latest > latest)
      BY <3>1, ConfigAssumption
    <3> QED
      BY <2>1, <3>2, <3>3, <3>4 DEF FlowInv, VerifierSentOnce, LatestFlowLogsIn
  <2>3. CASE auth.state # "pending"
    BY <1>2, <2>1, <2>3, QuietFlow DEF HandleCallback
  <2> QED
    BY <2>2, <2>3
<1>3. ASSUME NEW arrives \in BOOLEAN, NEW given \in BOOLEAN,
             AcceptCode(arrives, given) \/ AcceptRefresh(arrives, given)
      PROVE  FlowInv'
  <2>1. Answer(Issue(given), arrives)
    BY <1>3 DEF AcceptCode, AcceptRefresh
  <2>2. op'.at = op.at /\ op'.code = op.code /\ op'.verifier = op.verifier /\ UNCHANGED <<auth, latest, sent>>
    BY <2>1, AnswerFacts DEF Answer
  <2>3. op.at = "exchanging" => op.code = op.verifier
    BY <1>3 DEF AcceptCode, AcceptRefresh
  <2> QED
    BY <2>2, <2>3, QuietFlow
<1>4. CASE RefreshToken \/ Fetch
  <2>1. op'.at \in {"refreshing", "sending"} /\ UNCHANGED <<auth, latest, sent>>
    BY <1>4, NoOpFacts DEF RefreshToken, Fetch, AskRefresh, Operation
  <2> QED
    BY <2>1, QuietFlow
<1>5. ASSUME NEW life \in Lifetimes, StoreExchanged(life) \/ StoreRefreshed(life) PROVE FlowInv'
  <2>1. auth'.state = "authenticated" /\ UNCHANGED <<latest, sent>>
    BY <1>5 DEF StoreExchanged, StoreRefreshed
  <2> DEFINE t == auth'.token
  <2>2. op' = NoOp \/ op' = [NoOp EXCEPT !.at = "sending", !.token = t]
    BY <1>5 DEF StoreExchanged, StoreRefreshed
  <2> HIDE DEF t
  <2>3. op'.at \in {"none", "sending"}
    BY <2>2, NoOpFacts DEF Operation
  <2> QED
    BY <2>1, <2>3, QuietFlow
<1>6. CASE ReturnError \/ FinishFetch \/ DropCall \/ SetToken \/ Crash \/ Start
  <2>1. /\ op'.at \in {"none", "stopped"} \/ op' = op
        /\ auth' = auth \/ auth'.state # "pending"
        /\ UNCHANGED <<latest, sent>>
    BY <1>0, <1>6, NoOpFacts DEF ReturnError, FinishFetch, DropCall, SetToken, Crash, Start, AfterError,
       AfterRefreshError, Operation
  <2> QED
    BY <2>1, QuietFlow
<1>7. CASE Refuse
  <2>1. /\ op'.at = op.at /\ op'.code = op.code /\ op'.verifier = op.verifier /\ op'.reply = "error"
        /\ UNCHANGED <<auth, latest, sent>>
    BY <1>7 DEF Refuse, TypeOK, Operation
  <2> QED
    BY <2>1, QuietFlow
<1>8. CASE Save \/ Tick \/ (\E f \in Flows : Approve(f)) \/ UNCHANGED vars
  <2>1. UNCHANGED <<auth, op, latest, sent>>
    BY <1>8 DEF Save, Tick, Approve, vars
  <2> QED
    BY <2>1, QuietFlow
<1> QED
  BY <1>1, <1>2, <1>3, <1>4, <1>5, <1>6, <1>7, <1>8 DEF Next, CallStep, Reply

-----------------------------------------------------------------------------
(* Requests *)

LEMMA NextSends == TypeOK /\ SendsUsableToken /\ [Next]_vars => SendsUsableToken'
<1> SUFFICES ASSUME TypeOK, SendsUsableToken, [Next]_vars, op'.at = "sending"
             PROVE  /\ auth'.state = "authenticated" /\ op'.token = auth'.token
                    /\ op'.checked # Unchecked => op'.token.expires > op'.checked + Buffer
  BY DEF SendsUsableToken
<1>0. NoOp.at = "none" /\ NoOp.checked = Unchecked
  BY DEF NoOp
<1>1. CASE UNCHANGED <<op, auth>>
  BY <1>1 DEF SendsUsableToken
<1>2. CASE Fetch
  <2>1. ~NeedsRefresh
    BY <1>2, NoOpFacts DEF Fetch, AskRefresh, Operation
  <2>2. auth.state = "authenticated" /\ ~(auth.token.expires <= now + Buffer) /\ UNCHANGED auth
    BY <1>2, <2>1 DEF Fetch, LoggedIn, NeedsRefresh
  <2>3. op' = [NoOp EXCEPT !.at = "sending", !.token = auth.token, !.checked = now]
    BY <1>2, <2>1 DEF Fetch
  <2>4. op'.token = auth.token /\ op'.checked = now
    BY <2>3, NoOpFacts DEF Operation
  <2>5. auth.token.expires \in Nat /\ now \in Nat /\ Buffer \in Nat
    BY AuthFields, ConfigAssumption DEF TypeOK, Token
  <2> QED
    BY <2>2, <2>4, <2>5
<1>3. ASSUME NEW life \in Lifetimes, StoreRefreshed(life)
      PROVE  /\ auth'.state = "authenticated" /\ op'.token = auth'.token
             /\ op'.checked # Unchecked => op'.token.expires > op'.checked + Buffer
  <2>1. auth'.state = "authenticated"
    BY <1>3 DEF StoreRefreshed
  <2>2. op' = [NoOp EXCEPT !.at = "sending", !.token = auth'.token]
    BY <1>0, <1>3 DEF StoreRefreshed
  <2>3. op'.token = auth'.token /\ op'.checked = Unchecked
    BY <1>0, <2>2, NoOpFacts DEF Operation
  <2> QED
    BY <2>1, <2>3
<1>4. CASE ~Fetch /\ ~(\E life \in Lifetimes : StoreRefreshed(life))
  <2>1. CASE \E arrives, given \in BOOLEAN : AcceptCode(arrives, given) \/ AcceptRefresh(arrives, given)
    <3>1. PICK arrives \in BOOLEAN, given \in BOOLEAN : AcceptCode(arrives, given) \/ AcceptRefresh(arrives, given)
      BY <2>1
    <3>2. Answer(Issue(given), arrives) /\ op.at \in {"exchanging", "refreshing"}
      BY <3>1 DEF AcceptCode, AcceptRefresh
    <3>3. op'.at = op.at
      BY <3>2, AnswerFacts
    <3> QED
      BY <3>2, <3>3
  <2>2. CASE Refuse
    BY <2>2 DEF Refuse, TypeOK, Operation
  <2>3. CASE \E f \in Flows : HandleCallback(f)
    <3>1. PICK f \in Flows : HandleCallback(f)
      BY <2>3
    <3>2. op.at = "none" /\ (op' = op \/ op'.at = "exchanging")
      BY <3>1, NoOpFacts DEF HandleCallback, Idle, Operation
    <3> QED
      BY <3>2
  <2>4. CASE RefreshToken
    BY <2>4, NoOpFacts DEF RefreshToken, AskRefresh, Operation
  <2>5. CASE ReturnError \/ FinishFetch \/ DropCall \/ Crash \/ Start \/ \E life \in Lifetimes : StoreExchanged(life)
    BY <1>0, <2>5, NoOpFacts DEF ReturnError, FinishFetch, DropCall, Crash, Start, AfterError, StoreExchanged, Operation
  <2>6. CASE SetToken \/ \E f \in Flows : GenerateAuthUrl(f)
    <3>1. op.at = "none" /\ UNCHANGED op
      BY <2>6 DEF SetToken, GenerateAuthUrl, Idle
    <3> QED
      BY <3>1
  <2>7. CASE Save \/ Tick \/ (\E f \in Flows : Approve(f)) \/ UNCHANGED vars
    BY <1>1, <2>7 DEF Save, Tick, Approve, vars
  <2> QED
    BY <1>4, <2>1, <2>2, <2>3, <2>4, <2>5, <2>6, <2>7 DEF Next, CallStep, Reply
<1> QED
  BY <1>2, <1>3, <1>4

-----------------------------------------------------------------------------
(* Refresh tokens *)

\* A step that takes no refresh token out of use, and stores none.
LEMMA QuietTokens ==
  ASSUME RefreshTokenValid, AnswerValid,
         lost \in BOOLEAN, lost' \in BOOLEAN, lost => lost',
         reddit.valid \subseteq reddit'.valid,
         lost' \/ op'.reply # "token" \/ op' = op,
         lost' \/ auth' = auth \/ auth'.state \in {"none", "pending"},
         lost' \/ op.reply # "token" \/ op' = op \/ auth'.state \in {"none", "pending"}
  PROVE  RefreshTokenValid' /\ AnswerValid'
BY DEF RefreshTokenValid, AnswerValid, LoggedIn

LEMMA NextTokens ==
  TypeOK /\ Issued /\ Exchanges /\ RefreshTokenValid /\ AnswerValid /\ [Next]_vars
    => RefreshTokenValid' /\ AnswerValid'
<1> SUFFICES ASSUME TypeOK, Issued, Exchanges, RefreshTokenValid, AnswerValid, [Next]_vars
             PROVE  RefreshTokenValid' /\ AnswerValid'
  OBVIOUS
<1>0. /\ lost \in BOOLEAN /\ lost' \in BOOLEAN
      /\ NoOp.at = "none" /\ NoOp.reply = "none" /\ NotAuthenticated.state = "none"
  BY NextTypeOK DEF TypeOK, NoOp, NotAuthenticated
<1>1. ASSUME NEW f \in Flows, GenerateAuthUrl(f) \/ HandleCallback(f)
      PROVE  RefreshTokenValid' /\ AnswerValid'
  <2>1. UNCHANGED <<reddit, lost>> /\ auth'.state \in {"none", "pending"}
    BY <1>0, <1>1 DEF GenerateAuthUrl, HandleCallback, Replaced, PendingState
  <2>2. op' = op \/ op' = [NoOp EXCEPT !.at = "exchanging", !.code = f, !.verifier = auth.flow]
    BY <1>1 DEF GenerateAuthUrl, HandleCallback
  <2>3. op' = op \/ op'.reply = "none"
    BY <2>2, NoOpFacts DEF Operation
  <2> QED
    BY <1>0, <2>1, <2>3, QuietTokens
<1>2. ASSUME NEW life \in Lifetimes, StoreExchanged(life)
      PROVE  RefreshTokenValid' /\ AnswerValid'
  <2> DEFINE t == [op.token EXCEPT !.expires = ExpiresAt(life)]
  <2>1. /\ op.at = "exchanging" /\ op.reply = "token" /\ op' = NoOp /\ UNCHANGED <<reddit, lost>>
        /\ auth' = [state |-> "authenticated", flow |-> None, token |-> t]
    BY <1>2 DEF StoreExchanged
  <2>2. t.refresh = op.token.refresh
    BY DEF TypeOK, Operation, Token
  <2> HIDE DEF t
  <2>3. auth'.token = t
    BY <2>1
  <2> QED
    BY <1>0, <2>1, <2>2, <2>3 DEF RefreshTokenValid, AnswerValid
<1>3. ASSUME NEW life \in Lifetimes, StoreRefreshed(life)
      PROVE  RefreshTokenValid' /\ AnswerValid'
  <2>1. op.at = "refreshing" /\ op.reply = "token" /\ UNCHANGED <<reddit, lost>>
    BY <1>3 DEF StoreRefreshed
  <2>2. auth'.token.refresh = KeptRefreshToken(op.token.refresh, op.refresh)
    BY <1>3 DEF StoreRefreshed
  <2> DEFINE t == auth'.token
  <2>3. op' = NoOp \/ op' = [NoOp EXCEPT !.at = "sending", !.token = t]
    BY <1>3 DEF StoreRefreshed
  <2>4. op'.reply = "none"
    <3> HIDE DEF t
    <3> QED
      BY <2>3, NoOpFacts DEF Operation
  <2> QED
    BY <1>0, <2>1, <2>2, <2>4 DEF RefreshTokenValid, AnswerValid
<1>4. CASE RefreshToken \/ Fetch
  <2>1. /\ UNCHANGED <<auth, reddit, lost>> /\ op.at = "none" /\ op'.reply = "none"
    BY <1>4, NoOpFacts DEF RefreshToken, Fetch, AskRefresh, Idle, Operation
  <2>2. lost \/ op.reply # "token"
    BY <2>1 DEF AnswerValid
  <2> QED
    BY <1>0, <2>1, <2>2, QuietTokens
<1>5. CASE ReturnError \/ FinishFetch \/ Start
  <2>1. UNCHANGED <<auth, reddit, lost>> /\ op' = NoOp /\ op.at # "none"
    BY <1>5 DEF ReturnError, FinishFetch, Start, AfterError, AfterRefreshError
  <2>2. lost \/ op.reply # "token"
    BY <1>5 DEF ReturnError, FinishFetch, Start, AnswerValid
  <2> QED
    BY <1>0, <2>1, <2>2, QuietTokens
<1>6. CASE DropCall
  <2>1. UNCHANGED <<auth, reddit>> /\ op' = NoOp /\ lost' = (lost \/ op.reply = "token")
    BY <1>6 DEF DropCall
  <2> QED
    BY <1>0, <2>1, QuietTokens
<1>7. CASE Crash
  <2>1. /\ auth' = NotAuthenticated /\ UNCHANGED reddit /\ lost' = (lost \/ op.reply = "token")
        /\ op' = [NoOp EXCEPT !.at = "stopped"]
    BY <1>7 DEF Crash
  <2>2. op'.reply = "none"
    BY <2>1, NoOpFacts DEF Operation
  <2> QED
    BY <1>0, <2>1, <2>2, QuietTokens
<1>8. CASE SetToken
  <2>1. /\ auth'.token = saved /\ UNCHANGED <<op, reddit>> /\ op.at = "none"
        /\ lost' = (lost \/ saved.refresh \notin reddit.valid \cup {None})
    BY <1>8 DEF SetToken, Idle
  <2> QED
    BY <1>0, <2>1 DEF RefreshTokenValid, AnswerValid
<1>9. CASE Refuse
  <2>1. /\ UNCHANGED <<auth, reddit, lost>> /\ op.reply = "none" /\ op'.reply = "error"
    BY <1>9 DEF Refuse, TypeOK, Operation
  <2> QED
    BY <1>0, <2>1, QuietTokens
<1>10. ASSUME NEW arrives \in BOOLEAN, NEW given \in BOOLEAN, AcceptCode(arrives, given)
       PROVE  RefreshTokenValid' /\ AnswerValid'
  <2> DEFINE t == Issue(given)
  <2>1. /\ Answer(t, arrives) /\ op.at = "exchanging" /\ op.reply = "none" /\ UNCHANGED auth
        /\ reddit' = [reddit EXCEPT !.spent = @ \cup {op.code}, !.issued = @ + 1,
                                    !.valid = (@ \cup {t.refresh}) \ {None}]
    BY <1>10 DEF AcceptCode, Answer
  <2>2. /\ op'.at = op.at /\ op'.reply = IF arrives THEN "token" ELSE "error"
        /\ arrives => op'.token = t
        /\ lost' = (lost \/ ~arrives)
    BY <2>1, AnswerFacts
  <2> HIDE DEF t
  <2>3. reddit'.valid = (reddit.valid \cup {t.refresh}) \ {None}
    BY <2>1 DEF TypeOK
  <2>4. reddit.valid \subseteq reddit'.valid
    BY <2>3 DEF TypeOK, None
  <2>5. CASE arrives
    <3>1. op'.reply = "token" /\ op'.at = "exchanging" /\ op'.token = t
      BY <2>1, <2>2, <2>5
    <3>2. t.refresh \in reddit'.valid \cup {None}
      BY <2>3
    <3> QED
      BY <3>1, <3>2 DEF RefreshTokenValid, AnswerValid
  <2>6. CASE ~arrives
    BY <1>0, <2>2, <2>6 DEF RefreshTokenValid, AnswerValid
  <2> QED
    BY <2>5, <2>6
<1>11. ASSUME NEW arrives \in BOOLEAN, NEW given \in BOOLEAN, AcceptRefresh(arrives, given)
       PROVE  RefreshTokenValid' /\ AnswerValid'
  <2> DEFINE t == Issue(given)
             kept == IF given THEN (reddit.valid \ {op.refresh}) \cup {t.refresh} ELSE reddit.valid
  <2>1. /\ Answer(t, arrives) /\ op.at = "refreshing" /\ op.refresh \in reddit.valid
        /\ reddit' = [reddit EXCEPT !.issued = @ + 1, !.valid = kept]
    BY <1>11 DEF AcceptRefresh, Answer
  <2>2. /\ op'.at = op.at /\ op'.refresh = op.refresh
        /\ op'.reply = IF arrives THEN "token" ELSE "error"
        /\ arrives => op'.token = t
        /\ lost' = (lost \/ ~arrives)
        /\ t.refresh = IF given THEN reddit.issued + 1 ELSE None
    BY <2>1, AnswerFacts
  <2>3. reddit'.valid = kept
    <3> HIDE DEF kept
    <3> QED
      BY <2>1 DEF TypeOK
  <2>4. CASE arrives
    <3>1. op'.reply = "token" /\ op'.at = "refreshing" /\ op'.token = t /\ op'.refresh = op.refresh
      BY <2>1, <2>2, <2>4
    <3>2. KeptRefreshToken(t.refresh, op.refresh) \in kept
      <4>1. CASE given
        <5>1. reddit.issued \in Nat /\ reddit.issued + 1 # None
          BY DEF TypeOK, None
        <5>2. t.refresh # None /\ t.refresh \in kept
          BY <2>2, <4>1, <5>1
        <5> QED
          BY <5>2 DEF KeptRefreshToken
      <4>2. CASE ~given
        <5>1. t.refresh = None /\ op.refresh \in kept
          BY <2>1, <2>2, <4>2
        <5> QED
          BY <5>1 DEF KeptRefreshToken
      <4> QED
        BY <4>1, <4>2
    <3> QED
      BY <2>3, <3>1, <3>2 DEF RefreshTokenValid, AnswerValid
  <2>5. CASE ~arrives
    BY <1>0, <2>2, <2>5 DEF RefreshTokenValid, AnswerValid
  <2> QED
    BY <2>4, <2>5
<1>12. ASSUME NEW f \in Flows, Approve(f) PROVE RefreshTokenValid' /\ AnswerValid'
  <2>1. UNCHANGED <<auth, op, lost>> /\ reddit' = [reddit EXCEPT !.approved = @ \cup {f}]
    BY <1>12 DEF Approve
  <2>2. reddit'.valid = reddit.valid
    BY <2>1 DEF TypeOK
  <2> QED
    BY <1>0, <2>1, <2>2, QuietTokens
<1>13. CASE Save \/ Tick \/ UNCHANGED vars
  BY <1>13 DEF Save, Tick, vars, RefreshTokenValid, AnswerValid, LoggedIn
<1> QED
  BY <1>1, <1>2, <1>3, <1>4, <1>5, <1>6, <1>7, <1>8, <1>9, <1>10, <1>11, <1>12, <1>13
     DEF Next, CallStep, Reply

-----------------------------------------------------------------------------
LEMMA ClientInv == Spec => []IInv
<1>1. Init => IInv
  <2> SUFFICES ASSUME Init PROVE IInv
    OBVIOUS
  <2>1. auth.state = "none" /\ op.at = "none" /\ op.reply = "none"
    BY DEF Init, NotAuthenticated, NoOp
  <2> QED
    BY <2>1, InitTypeOK, InitFlow
       DEF IInv, Issued, Exchanges, SendsUsableToken, RefreshTokenValid, AnswerValid, LoggedIn
<1>2. IInv /\ [Next]_vars => IInv'
  BY NextTypeOK, NextExchanges, NextFlow, NextSends, NextTokens DEF IInv
<1> QED
  BY <1>1, <1>2, PTL DEF Spec

\* A verifier is sent once, however often its callback comes, whether the exchange
\* fails, is dropped, or the process dies (lib.rs 128-131, 178-187).
THEOREM VerifierOnce == Spec => []VerifierSentOnce
<1>1. IInv => VerifierSentOnce
  BY DEF IInv, FlowInv
<1> QED
  BY <1>1, ClientInv, PTL

\* Only the last of the flows started can log in, whatever callbacks of replaced
\* ones still arrive (lib.rs 128-131).
THEOREM OnlyLatestFlow == Spec => []LatestFlowLogsIn
<1>1. IInv => LatestFlowLogsIn
  BY DEF IInv, FlowInv
<1> QED
  BY <1>1, ClientInv, PTL

\* A request is never sent with a token other than the one in the state, nor with
\* one that was about to expire when it was looked at (lib.rs 351-397).
THEOREM SendsTokenInState == Spec => []SendsUsableToken
<1>1. IInv => SendsUsableToken
  BY DEF IInv
<1> QED
  BY <1>1, ClientInv, PTL

\* Unless an answer of Reddit is lost, or the application puts an old token back,
\* the client never holds a refresh token that Reddit no longer takes, whether
\* Reddit rotates them or not (lib.rs 319-322).
THEOREM RefreshTokenStaysValid == Spec => []RefreshTokenValid
<1>1. IInv => RefreshTokenValid
  BY DEF IInv
<1> QED
  BY <1>1, ClientInv, PTL

\* A login ends by a new one, by a callback, or with the process: no refresh that
\* fails, is lost or is dropped ends it (lib.rs 128, 180, 292-332).
THEOREM LoginEndsOnPurpose == Spec => LoginEndsKnowingly
<1>1. ASSUME Next, LoggedIn, ~LoggedIn'
      PROVE  Crash \/ \E f \in Flows : GenerateAuthUrl(f) \/ HandleCallback(f)
  <2>1. ASSUME UNCHANGED auth PROVE FALSE
    BY <2>1, <1>1 DEF LoggedIn
  <2>2. CASE CallStep
    BY <2>1, <2>2, <1>1 DEF CallStep, ReturnError, AfterRefreshError, FinishFetch, StoreExchanged,
                            StoreRefreshed, LoggedIn
  <2>3. CASE SetToken
    BY <2>3, <1>1 DEF SetToken, LoggedIn
  <2>4. CASE RefreshToken \/ Fetch \/ DropCall \/ Save \/ Tick
    BY <2>1, <2>4 DEF RefreshToken, Fetch, DropCall, Save, Tick
  <2>5. CASE Start \/ Reply \/ \E f \in Flows : Approve(f)
    BY <2>1, <2>5 DEF Start, Reply, Refuse, AcceptCode, AcceptRefresh, Answer, Approve
  <2> QED
    BY <1>1, <2>2, <2>3, <2>4, <2>5 DEF Next
<1>2. [Next]_vars =>
        [LoggedIn /\ ~LoggedIn' => Crash \/ \E f \in Flows : GenerateAuthUrl(f) \/ HandleCallback(f)]_vars
  BY <1>1
<1> QED
  BY <1>2, PTL DEF Spec, LoginEndsKnowingly
=============================================================================
