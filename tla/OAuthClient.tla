----------------------------- MODULE OAuthClient -----------------------------
(***************************************************************************)
(* RedditClient, the OAuth2 client (reddit-client/src/lib.rs).  Its        *)
(* methods take &mut self: one runs at a time, and at an `await` its       *)
(* future may be dropped.  Around it, modelled from how it is used: the    *)
(* browser, which delivers the callback of any approved flow any number of *)
(* times; Reddit, which checks codes against verifiers, may rotate refresh *)
(* tokens and may act on a request whose answer is lost; and the           *)
(* application, which starts several flows, keeps the csrf token of each,  *)
(* stores a token, and may restart.                                        *)
(*                                                                         *)
(* A call that is refused without changing anything is no step.            *)
(***************************************************************************)
EXTENDS Integers

CONSTANTS
  Flows,       \* login flows, in the order they are started: 1, 2, ...
  MaxTokens,   \* bound: tokens Reddit issues
  Lifetimes,   \* expires_in of a token, or the 3600 s it defaults to, in ticks
  Buffer,      \* the five minutes of needs_refresh
  MaxTime      \* bound: ticks

ASSUME ConfigAssumption ==
  /\ Flows \subseteq Nat \ {0}
  /\ MaxTokens \in Nat
  /\ Lifetimes \subseteq Nat
  /\ Buffer \in Nat
  /\ MaxTime \in Nat

VARIABLES
  auth,     \* auth_state: its variant, the flow of the verifier, the token
  op,       \* the call at an await: where, with what, and what was answered
  reddit,   \* external: approved flows, spent codes, valid refresh tokens, tokens issued
  saved,    \* external: the token the application has stored
  now,      \* the clock
  latest,   \* history: the last flow started
  sent,     \* history: how often the verifier of each flow was sent
  lost      \* history: an answer of Reddit was lost, or a token older than it restored

vars == <<auth, op, reddit, saved, now, latest, sent, lost>>

None == 0
Unchecked == -1

NoToken == [id |-> None, refresh |-> None, expires |-> 0]
NotAuthenticated == [state |-> "none", flow |-> None, token |-> NoToken]
NoOp == [at |-> "none", code |-> None, verifier |-> None, refresh |-> None,
         then |-> "return", reply |-> "none", token |-> NoToken, checked |-> Unchecked]

-----------------------------------------------------------------------------
(* Faulty variants of operators below.  Nothing uses them: each is a bug that *)
(* would be easy to write, and each makes the run report a violation.         *)

KeepsFirst(f) ==
  IF auth.state = "pending" THEN auth ELSE [state |-> "pending", flow |-> f, token |-> NoToken]

KeepsVerifier == auth

ForgetsToken == NotAuthenticated

NoBuffer == auth.state = "expired" \/ (auth.state = "authenticated" /\ auth.token.expires <= now)

OldRefreshToken(new, old) == old

-----------------------------------------------------------------------------
LoggedIn == auth.state \in {"authenticated", "expired"}

\* needs_refresh
NeedsRefresh ==
  \/ auth.state = "expired"
  \/ auth.state = "authenticated" /\ auth.token.expires <= now + Buffer

Init ==
  /\ auth = NotAuthenticated
  /\ op = NoOp
  /\ reddit = [approved |-> {}, spent |-> {}, valid |-> {}, issued |-> 0]
  /\ saved = NoToken
  /\ now = 0
  /\ latest = None
  /\ sent = [f \in Flows |-> 0]
  /\ lost = FALSE

Idle == op.at = "none"
Waiting == op.at \in {"exchanging", "refreshing", "sending"}

PendingState(f) == [state |-> "pending", flow |-> f, token |-> NoToken]

\* generate_auth_url, whatever the state was
GenerateAuthUrl(f) ==
  /\ Idle /\ f \in Flows /\ f = latest + 1
  /\ auth' = PendingState(f)
  /\ latest' = f
  /\ UNCHANGED <<op, reddit, saved, now, sent, lost>>

\* What handle_callback leaves in the state before it looks at what was there.
Replaced == NotAuthenticated

\* handle_callback with the callback of flow f, after the checks that have no
\* effect: the csrf token compared with the callback's is the caller's for f, not
\* the pending state's.
HandleCallback(f) ==
  /\ Idle /\ f \in reddit.approved
  /\ auth' = Replaced
  /\ IF auth.state = "pending"
     THEN /\ op' = [NoOp EXCEPT !.at = "exchanging", !.code = f, !.verifier = auth.flow]
          /\ sent' = [sent EXCEPT ![auth.flow] = @ + 1]
     ELSE UNCHANGED <<op, sent>>
  /\ UNCHANGED <<reddit, saved, now, latest, lost>>

ExpiresAt(life) == now + life

\* The token made of Reddit's answer is stored and returned.
StoreExchanged(life) ==
  /\ op.at = "exchanging" /\ op.reply = "token"
  /\ auth' = [state |-> "authenticated", flow |-> None,
              token |-> [op.token EXCEPT !.expires = ExpiresAt(life)]]
  /\ op' = NoOp
  /\ UNCHANGED <<reddit, saved, now, latest, sent, lost>>

\* refresh_token up to its request; `then` is what its caller does after it.
AskRefresh(refresh, then) ==
  op' = [NoOp EXCEPT !.at = "refreshing", !.refresh = refresh, !.then = then]

\* refresh_token called by the application with the token it has stored
RefreshToken ==
  /\ Idle /\ saved.refresh # None
  /\ AskRefresh(saved.refresh, "return")
  /\ UNCHANGED <<auth, reddit, saved, now, latest, sent, lost>>

\* The answer need not name a refresh token: then the old one stays in use.
KeptRefreshToken(new, old) == IF new # None THEN new ELSE old

StoreRefreshed(life) ==
  /\ op.at = "refreshing" /\ op.reply = "token"
  /\ auth' = [state |-> "authenticated", flow |-> None,
              token |-> [id |-> op.token.id, expires |-> ExpiresAt(life),
                         refresh |-> KeptRefreshToken(op.token.refresh, op.refresh)]]
  /\ op' = IF op.then = "send" THEN [NoOp EXCEPT !.at = "sending", !.token = auth'.token]
           ELSE NoOp
  /\ UNCHANGED <<reddit, saved, now, latest, sent, lost>>

AfterError == NoOp

AfterRefreshError == auth

\* Reddit refused or could not be reached: the call returns the error.
ReturnError ==
  /\ op.at \in {"exchanging", "refreshing"} /\ op.reply = "error"
  /\ op' = AfterError
  /\ auth' = IF op.at = "refreshing" THEN AfterRefreshError ELSE auth
  /\ UNCHANGED <<reddit, saved, now, latest, sent, lost>>

\* The caller drops the future.
DropCall ==
  /\ Waiting
  /\ op' = NoOp
  /\ lost' = (lost \/ op.reply = "token")
  /\ UNCHANGED <<auth, reddit, saved, now, latest, sent>>

\* The methods that fetch: ensure_authenticated, and then requests with the
\* token in the state.
Fetch ==
  /\ Idle /\ LoggedIn
  /\ IF NeedsRefresh
     THEN auth.token.refresh # None /\ AskRefresh(auth.token.refresh, "send")
     ELSE op' = [NoOp EXCEPT !.at = "sending", !.token = auth.token, !.checked = now]
  /\ UNCHANGED <<auth, reddit, saved, now, latest, sent, lost>>

FinishFetch ==
  /\ op.at = "sending"
  /\ op' = NoOp
  /\ UNCHANGED <<auth, reddit, saved, now, latest, sent, lost>>

\* set_token with what the application has stored
SetToken ==
  /\ Idle /\ saved # NoToken
  /\ auth' = [state |-> IF saved.expires <= now THEN "expired" ELSE "authenticated",
              flow |-> None, token |-> saved]
  /\ lost' = (lost \/ saved.refresh \notin reddit.valid \cup {None})
  /\ UNCHANGED <<op, reddit, saved, now, latest, sent>>

-----------------------------------------------------------------------------
(* External: the application, the browser, Reddit, time *)

\* The application keeps what get_auth_state shows.
Save ==
  /\ LoggedIn /\ Idle
  /\ saved' = auth.token
  /\ UNCHANGED <<auth, op, reddit, now, latest, sent, lost>>

Crash ==
  /\ op.at # "stopped"
  /\ op' = [NoOp EXCEPT !.at = "stopped"]
  /\ auth' = NotAuthenticated
  /\ lost' = (lost \/ op.reply = "token")
  /\ UNCHANGED <<reddit, saved, now, latest, sent>>

Start ==
  /\ op.at = "stopped"
  /\ op' = NoOp
  /\ UNCHANGED <<auth, reddit, saved, now, latest, sent, lost>>

Approve(f) ==
  /\ f \in 1..latest
  /\ reddit' = [reddit EXCEPT !.approved = @ \cup {f}]
  /\ UNCHANGED <<auth, op, saved, now, latest, sent, lost>>

Issue(refresh) ==
  [id |-> reddit.issued + 1, refresh |-> IF refresh THEN reddit.issued + 1 ELSE None, expires |-> 0]

Answer(token, arrives) ==
  /\ op' = [op EXCEPT !.reply = IF arrives THEN "token" ELSE "error",
                      !.token = IF arrives THEN token ELSE NoToken]
  /\ lost' = (lost \/ ~arrives)
  /\ UNCHANGED <<auth, saved, now, latest, sent>>

\* A code is good once, with the verifier of its own flow.
AcceptCode(arrives, refresh) ==
  /\ op.at = "exchanging" /\ op.reply = "none"
  /\ op.code = op.verifier /\ op.code \notin reddit.spent
  /\ reddit.issued < MaxTokens
  /\ LET token == Issue(refresh) IN
     /\ reddit' = [reddit EXCEPT !.spent = @ \cup {op.code}, !.issued = @ + 1,
                                 !.valid = (@ \cup {token.refresh}) \ {None}]
     /\ Answer(token, arrives)

\* A refresh token stays valid, or is replaced by the one in the answer.
AcceptRefresh(arrives, rotate) ==
  /\ op.at = "refreshing" /\ op.reply = "none"
  /\ op.refresh \in reddit.valid
  /\ reddit.issued < MaxTokens
  /\ LET token == Issue(rotate) IN
     /\ reddit' = [reddit EXCEPT !.issued = @ + 1,
                     !.valid = IF rotate THEN (@ \ {op.refresh}) \cup {token.refresh} ELSE @]
     /\ Answer(token, arrives)

Refuse ==
  /\ op.at \in {"exchanging", "refreshing"} /\ op.reply = "none"
  /\ op' = [op EXCEPT !.reply = "error"]
  /\ UNCHANGED <<auth, reddit, saved, now, latest, sent, lost>>

Reply ==
  \/ Refuse
  \/ \E arrives, given \in BOOLEAN : AcceptCode(arrives, given) \/ AcceptRefresh(arrives, given)

Tick ==
  /\ now < MaxTime
  /\ now' = now + 1
  /\ UNCHANGED <<auth, op, reddit, saved, latest, sent, lost>>

-----------------------------------------------------------------------------
CallStep ==
  \/ ReturnError \/ FinishFetch
  \/ \E life \in Lifetimes : StoreExchanged(life) \/ StoreRefreshed(life)

Next ==
  \/ \E f \in Flows : GenerateAuthUrl(f) \/ HandleCallback(f) \/ Approve(f)
  \/ RefreshToken \/ Fetch \/ SetToken \/ CallStep \/ DropCall
  \/ Save \/ Crash \/ Start \/ Reply \/ Tick

Spec == Init /\ [][Next]_vars
-----------------------------------------------------------------------------
(* Properties *)

Token == [id : Nat, refresh : Nat, expires : Nat]

AuthState ==
  {a \in [state : {"none", "pending", "authenticated", "expired"}, flow : Flows \cup {None},
          token : Token] :
     /\ a.state = "pending" <=> a.flow # None
     /\ a.state \in {"authenticated", "expired"} <=> a.token # NoToken}

Operation ==
  [at : {"none", "stopped", "exchanging", "refreshing", "sending"}, code : Flows \cup {None},
   verifier : Flows \cup {None}, refresh : Nat, then : {"return", "send"},
   reply : {"none", "error", "token"}, token : Token,
   checked : {Unchecked} \cup 0..MaxTime]

TypeOK ==
  /\ auth \in AuthState
  /\ op \in Operation
  /\ reddit \in [approved : SUBSET Flows, spent : SUBSET Flows, valid : SUBSET (Nat \ {0}),
                 issued : 0..MaxTokens]
  /\ saved \in Token
  /\ now \in 0..MaxTime
  /\ latest \in Flows \cup {None}
  /\ sent \in [Flows -> Nat]
  /\ lost \in BOOLEAN

\* A PKCE verifier proves one login: it is never sent twice, whether the exchange
\* fails, is abandoned, or its callback is delivered again (178-187).
VerifierSentOnce == \A f \in Flows : sent[f] <= 1

\* Only the flow started last can log in (128-131): a callback of a replaced flow
\* that still arrives is exchanged with the newer flow's verifier, which Reddit
\* refuses.
LatestFlowLogsIn ==
  op.at = "exchanging" =>
    /\ op.verifier = latest
    /\ op.reply = "token" => op.code = latest

\* A login ends by a new one, by a callback, or with the process (128, 180): a
\* refresh that fails or is dropped leaves the token and its refresh token for
\* the next try.
LoginEndsKnowingly ==
  [][LoggedIn /\ ~LoggedIn' => Crash \/ \E f \in Flows : GenerateAuthUrl(f) \/ HandleCallback(f)]_vars

\* Requests are sent with the token in the state, and that token had the buffer
\* left when it was looked at, or was issued within this call (351-397): the
\* "Not authenticated" arms after ensure_authenticated are never taken.
SendsUsableToken ==
  op.at = "sending" =>
    /\ auth.state = "authenticated" /\ op.token = auth.token
    /\ op.checked # Unchecked => op.token.expires > op.checked + Buffer

\* Unless an answer was lost, or an old token restored, the refresh token in the
\* state is one that Reddit still takes, whether Reddit rotates them or not
\* (319-322).
RefreshTokenValid ==
  LoggedIn /\ ~lost /\ auth.token.refresh # None /\ op.reply # "token" =>
    auth.token.refresh \in reddit.valid

=============================================================================
