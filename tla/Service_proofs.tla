--------------------------- MODULE Service_proofs ---------------------------
(* Theorems about the smaller parts of the service, for every value of the constants. *)
EXTENDS CodexClient, OAuth, FileWorkers, ToolOutputRestart, FiniteSetTheorems, TLAPS

-----------------------------------------------------------------------------
(***************************************************************************)
(* The restart after a changed output mode.                                *)
(***************************************************************************)

\* A reservation stands for the mode of now: nobody changes it meanwhile.
Reserved == pending # NoMode => pending = mode

RestartInv == Reserved /\ RestartHonoured

\* However requests to systemd end and whenever the process stops, a reservation is only
\* taken off by a process in the mode it was made for (api_restart_service).
THEOREM ReservationsHonoured == RestartSpec => []RestartHonoured
<1>1. RestartInit => RestartInv
  BY DEF RestartInit, RestartInv, Reserved, RestartHonoured
<1>2. RestartInv /\ [RestartNext]_restartVars => RestartInv'
  BY DEF RestartInv, Reserved, RestartHonoured, RestartNext, restartVars, SetMode, Reserve,
         Requested, RequestFails, RequestCut, Stop, Import, Serve
<1>3. RestartInv => RestartHonoured
  BY DEF RestartInv
<1> QED BY <1>1, <1>2, <1>3, PTL DEF RestartSpec

-----------------------------------------------------------------------------
(***************************************************************************)
(* Upload workers.                                                         *)
(***************************************************************************)

Tasks == {u \in Uploads : task[u] # "none"}
Running0 == {u \in Uploads : task[u] = "running"}

WorkersTyped ==
  /\ admitted \in Nat
  /\ task \in [Uploads -> {"none", "queued", "running", "done"}]

\* The counter is the number of tasks, and the threads are those of running tasks.
Counted ==
  /\ IsFiniteSet(Tasks)
  /\ admitted = Cardinality(Tasks) /\ admitted <= MaxAdmitted
  /\ inThread = Running0 /\ Cardinality(Running0) <= WorkerLimit

WorkersInv == WorkersTyped /\ Counted

\* One task more, one task less: what the counter follows.
LEMMA OneMore ==
  ASSUME NEW S, IsFiniteSet(S), NEW u, u \notin S
  PROVE  IsFiniteSet(S \cup {u}) /\ Cardinality(S \cup {u}) = Cardinality(S) + 1
BY FS_AddElement

LEMMA OneLess ==
  ASSUME NEW S, IsFiniteSet(S), NEW u \in S
  PROVE  IsFiniteSet(S \ {u}) /\ Cardinality(S \ {u}) = Cardinality(S) - 1
BY FS_RemoveElement

\* A running task is a task.
LEMMA RunningAreTasks ==
  ASSUME IsFiniteSet(Tasks)
  PROVE  IsFiniteSet(Running0) /\ Cardinality(Running0) \in Nat
<1>1. Running0 \subseteq Tasks
  BY DEF Running0, Tasks
<1> QED BY <1>1, FS_Subset, FS_CardinalityType

LEMMA AdmitCounts ==
  ASSUME WorkersInv, NEW u \in Uploads, Admit(u)
  PROVE  WorkersInv'
<1> USE DEF WorkersInv, WorkersTyped, Counted, Admit
<1>1. Tasks' = Tasks \cup {u} /\ u \notin Tasks /\ Running0' = Running0
  BY DEF Tasks, Running0
<1>2. admitted' \in Nat /\ admitted' <= MaxAdmitted
  BY WorkersAssumption
<1> QED BY <1>1, <1>2, OneMore

LEMMA StartCounts ==
  ASSUME WorkersInv, NEW u \in Uploads, Start(u)
  PROVE  WorkersInv'
<1> USE DEF WorkersInv, WorkersTyped, Counted, Start
<1>1. Tasks' = Tasks /\ Running0' = Running0 \cup {u} /\ u \notin Running0
  BY DEF Tasks, Running0
<1>2. Cardinality(Running0) < WorkerLimit
  BY DEF Running0
<1>3. IsFiniteSet(Running0) /\ Cardinality(Running0) \in Nat
  BY RunningAreTasks
<1>4. Cardinality(Running0') = Cardinality(Running0) + 1
  BY <1>1, <1>3, OneMore
<1> QED BY <1>1, <1>2, <1>3, <1>4, WorkersAssumption

LEMMA ThreadEndsCounts ==
  ASSUME WorkersInv, NEW u \in Uploads, ThreadEnds(u)
  PROVE  WorkersInv'
<1> USE DEF WorkersInv, WorkersTyped, Counted, ThreadEnds
<1>1. u \in Running0
  OBVIOUS
<1>2. Tasks' = Tasks /\ Running0' = Running0 \ {u}
  BY <1>1 DEF Tasks, Running0
<1>3. IsFiniteSet(Running0) /\ Cardinality(Running0) \in Nat
  BY RunningAreTasks
<1>4. Cardinality(Running0') = Cardinality(Running0) - 1
  BY <1>1, <1>2, <1>3, OneLess
<1> QED BY <1>1, <1>2, <1>3, <1>4, WorkersAssumption

LEMMA ReleaseCounts ==
  ASSUME WorkersInv, NEW u \in Uploads, ReleaseSlot(u)
  PROVE  WorkersInv'
<1> USE DEF WorkersInv, WorkersTyped, Counted, ReleaseSlot
<1>1. u \in Tasks
  BY DEF Tasks
<1>2. Tasks' = Tasks \ {u} /\ Running0' = Running0
  BY DEF Tasks, Running0
<1>3. IsFiniteSet(Tasks') /\ Cardinality(Tasks') = Cardinality(Tasks) - 1
  BY <1>1, <1>2, OneLess
<1>4. Cardinality(Tasks') \in Nat
  BY <1>3, FS_CardinalityType
<1> QED BY <1>2, <1>3, <1>4, WorkersAssumption

\* For any number of uploads and any limits, whatever requests go away: the threads and
\* the uploads that are held keep within their limits, and the counter is exact.
THEOREM WorkersStayBounded == WorkersSpec => []WorkersBounded
<1>1. WorkersInit => WorkersInv
  <2> SUFFICES ASSUME WorkersInit PROVE WorkersInv
    OBVIOUS
  <2>1. Tasks = {} /\ Running0 = {}
    BY DEF WorkersInit, Tasks, Running0
  <2> QED BY <2>1, FS_EmptySet, WorkersAssumption
          DEF WorkersInit, WorkersInv, WorkersTyped, Counted
<1>2. WorkersInv /\ [WorkersNext]_workerVars => WorkersInv'
  <2> SUFFICES ASSUME WorkersInv, [WorkersNext]_workerVars PROVE WorkersInv'
    OBVIOUS
  <2>1. CASE UNCHANGED workerVars
    BY <2>1 DEF WorkersInv, WorkersTyped, Counted, Tasks, Running0, workerVars
  <2>2. ASSUME NEW u \in Uploads, Leave(u) PROVE WorkersInv'
    BY <2>2 DEF WorkersInv, WorkersTyped, Counted, Tasks, Running0, Leave
  <2> QED BY <2>1, <2>2, AdmitCounts, StartCounts, ThreadEndsCounts, ReleaseCounts
          DEF WorkersNext
<1>3. WorkersInv => WorkersBounded
  <2> SUFFICES ASSUME WorkersInv PROVE WorkersBounded
    OBVIOUS
  <2>1. Tasks \cup inThread = Tasks
    BY DEF WorkersInv, Counted, Tasks, Running0
  <2> QED BY <2>1 DEF WorkersInv, Counted, WorkersBounded, Tasks
<1> QED BY <1>1, <1>2, <1>3, PTL DEF WorkersSpec

-----------------------------------------------------------------------------
(***************************************************************************)
(* Grants.                                                                 *)
(***************************************************************************)

Scopes == SUBSET UNION Asked

Challenge == [state : {"none", "open", "gone"}, client : Clients \cup {Nobody}, scopes : Scopes]
Code == [state : {"none", "live", "lost", "used", "expired"},
         client : Clients \cup {Nobody}, scopes : Scopes]
Pair == [access : {"none", "live", "expired"}, refresh : {"none", "live", "expired", "revoked"},
         code : Codes \cup {Nobody}, scopes : Scopes]

GrantTypes ==
  /\ client \in [Clients -> Scopes]
  /\ challenge \in [Challenges -> Challenge]
  /\ code \in [Codes -> Code]
  /\ pair \in [Pairs -> Pair]

\* Tokens come from a code that is used up, with no scope that it had not; tokens not
\* issued yet come from nothing.
FromUsedCodes ==
  \A p \in Pairs :
    \/ pair[p].access = "none" /\ pair[p].refresh = "none" /\ pair[p].code = Nobody
    \/ /\ pair[p].access # "none"
       /\ pair[p].code \in Codes
       /\ code[pair[p].code].state = "used"
       /\ pair[p].scopes \subseteq code[pair[p].code].scopes

\* Two good refresh tokens never descend from one code.
OneGood ==
  \A p, q \in Pairs :
    pair[p].refresh = "live" /\ pair[q].refresh = "live" /\ pair[p].code = pair[q].code => p = q

GrantInv == GrantTypes /\ FromUsedCodes /\ OneGood

\* What is asked for, and what is made of it, are sets of scopes.
LEMMA ScopeTypes ==
  /\ {} \in Scopes
  /\ \A asked \in Asked : asked \in Scopes /\ NormalizeScopes(asked) \in Scopes
  /\ GrantTypes => \A p \in Pairs, asked \in Asked : Narrowed(p, asked) \in Scopes
<1>1. \A asked \in Asked : asked \in Scopes
  BY DEF Scopes
<1>2. {Base} \in Asked
  BY DEF Asked, ScopeSets
<1>3. \A asked \in Asked : NormalizeScopes(asked) \in Scopes
  BY <1>1, <1>2 DEF NormalizeScopes
<1>4. GrantTypes => \A p \in Pairs, asked \in Asked : Narrowed(p, asked) \in Scopes
  BY <1>3 DEF Narrowed, GrantTypes, Pair
<1> QED BY <1>1, <1>3, <1>4 DEF Scopes

LEMMA RegisterGrants ==
  ASSUME GrantInv, NEW c \in Clients, NEW asked \in Asked, Register(c, asked)
  PROVE  GrantInv'
BY ScopeTypes DEF GrantInv, GrantTypes, Code, Pair, Challenge, FromUsedCodes, OneGood, Register

LEMMA AuthorizeGrants ==
  ASSUME GrantInv, NEW c \in Clients, NEW asked \in Asked, NEW h \in Challenges,
         Authorize(h, c, asked)
  PROVE  GrantInv'
<1>1. (IF asked = {} THEN client[c] ELSE asked) \in Scopes
  BY ScopeTypes DEF GrantInv, GrantTypes, Code, Pair, Challenge
<1>2. GrantTypes'
  BY <1>1 DEF GrantInv, GrantTypes, Code, Pair, Challenge, Authorize
<1> QED BY <1>2 DEF GrantInv, FromUsedCodes, OneGood, Authorize

\* A new code is one that no token descends from.
LEMMA LoginGrants ==
  ASSUME GrantInv, NEW h \in Challenges, NEW k \in Codes, Login(h, k)
  PROVE  GrantInv'
<1>1. code[k].state = "none"
  BY DEF Login, NewCode, IsNew
<1>2. \E state \in {"live", "lost"} :
        code' = [code EXCEPT ![k] = [state |-> state, client |-> challenge[h].client,
                                     scopes |-> challenge[h].scopes]]
  BY DEF Login, CreateCode
<1>3. challenge' \in {challenge, [challenge EXCEPT ![h].state = "gone"]}
  BY DEF Login, ConsumeChallenge
<1>4. GrantTypes'
  BY <1>2, <1>3 DEF GrantInv, GrantTypes, Code, Pair, Challenge, Login
<1>5. FromUsedCodes'
  BY <1>1, <1>2 DEF GrantInv, GrantTypes, Code, Pair, Challenge, FromUsedCodes, Login
<1> QED BY <1>4, <1>5 DEF GrantInv, OneGood, Login

\* A live code has no tokens, and it is used up in the same step or before.
LEMMA ExchangeCodeGrants ==
  ASSUME GrantInv, NEW c \in Clients, NEW k \in Codes, NEW p \in Pairs, ExchangeCode(c, k, p)
  PROVE  GrantInv'
<1> USE DEF GrantInv
<1>1. code[k].state = "live" /\ code' = [code EXCEPT ![k].state = "used"]
      /\ UNCHANGED <<client, challenge>>
  BY DEF ExchangeCode
<1>2. \A q \in Pairs : pair[q].code # k
  BY <1>1, OAuthAssumption DEF FromUsedCodes
<1>3. CASE UNCHANGED pair
  <2>1. GrantTypes' BY <1>1, <1>3 DEF GrantTypes, Code
  <2>2. FromUsedCodes' BY <1>1, <1>3 DEF GrantTypes, Code, FromUsedCodes
  <2>3. OneGood' BY <1>3 DEF OneGood
  <2>4. QED BY <2>1, <2>2, <2>3
<1>4. ASSUME NEW both \in BOOLEAN, IssueTokens(p, k, code[k].scopes, both)
      PROVE  GrantInv'
  <2>1. pair[p].access = "none"
    BY <1>4 DEF IssueTokens, NewPair, IsNew
  <2>2. pair' = [pair EXCEPT ![p] = [access |-> "live", refresh |-> IF both THEN "live" ELSE "none",
                                     code |-> k, scopes |-> code[k].scopes]]
    BY <1>4 DEF IssueTokens
  <2>3. GrantTypes'
    BY <1>1, <2>2 DEF GrantTypes, Code, Pair, Challenge
  <2>4. FromUsedCodes'
    BY <1>1, <2>1, <2>2 DEF GrantTypes, Code, Pair, Challenge, FromUsedCodes
  <2>5. OneGood'
    BY <1>2, <2>2 DEF GrantTypes, Code, Pair, Challenge, OneGood
  <2> QED BY <2>3, <2>4, <2>5
<1> QED BY <1>3, <1>4 DEF ExchangeCode

\* The token that is refreshed is revoked in the same step or before.
LEMMA RefreshGrants ==
  ASSUME GrantInv, NEW c \in Clients, NEW asked \in Asked, NEW p \in Pairs, NEW q \in Pairs,
         ExchangeRefresh(c, p, q, asked)
  PROVE  GrantInv'
<1> USE DEF GrantInv
<1>1. pair[p].refresh = "live" /\ pair[q].access = "none" /\ p # q
  BY DEF ExchangeRefresh, NewPair, IsNew, FromUsedCodes
<1>2. Narrowed(p, asked) \subseteq pair[p].scopes /\ Narrowed(p, asked) \in Scopes
  BY ScopeTypes DEF ExchangeRefresh
<1>3. PICK next \in {[access |-> "live", refresh |-> r, code |-> pair[p].code,
                       scopes |-> Narrowed(p, asked)] : r \in {"none", "live"}} \cup {pair[q]} :
        pair' = [pair EXCEPT ![p].refresh = "revoked", ![q] = next]
  BY DEF ExchangeRefresh
<1>4. UNCHANGED <<client, challenge, code>>
  BY DEF ExchangeRefresh
<1>5. \/ next = pair[q]
      \/ /\ next.access = "live" /\ next.refresh \in {"none", "live"}
         /\ next.code = pair[p].code /\ next.scopes = Narrowed(p, asked)
  BY <1>3
<1>6. next \in Pair
  BY <1>2, <1>3 DEF GrantTypes, Code, Pair, Challenge
<1>7. GrantTypes'
  BY <1>3, <1>4, <1>6 DEF GrantTypes, Code, Pair, Challenge
<1>8. \A x \in Pairs : /\ x \notin {p, q} => pair'[x] = pair[x]
                       /\ x = p => pair'[x] = [pair[p] EXCEPT !.refresh = "revoked"]
                       /\ x = q => pair'[x] = next
  BY <1>1, <1>3 DEF GrantTypes, Code, Pair, Challenge
<1>9. FromUsedCodes'
  BY <1>1, <1>2, <1>4, <1>5, <1>8 DEF GrantTypes, Code, Pair, Challenge, FromUsedCodes
<1>10. OneGood'
  BY <1>1, <1>5, <1>8 DEF GrantTypes, Code, Pair, Challenge, FromUsedCodes, OneGood
<1> QED BY <1>7, <1>9, <1>10

LEMMA ExpireGrants ==
  ASSUME GrantInv, Expire
  PROVE  GrantInv'
<1> USE DEF GrantInv
<1>1. CASE /\ \E h \in Challenges : /\ challenge[h].state = "open"
                                    /\ challenge' = [challenge EXCEPT ![h].state = "gone"]
           /\ UNCHANGED <<client, code, pair>>
  BY <1>1 DEF GrantTypes, Code, Pair, Challenge, FromUsedCodes, OneGood
<1>2. ASSUME NEW k \in Codes, code[k].state = "live", code' = [code EXCEPT ![k].state = "expired"],
             UNCHANGED <<client, challenge, pair>>
      PROVE  GrantInv'
  <2>1. GrantTypes' BY <1>2 DEF GrantTypes, Code
  <2>2. FromUsedCodes' BY <1>2 DEF GrantTypes, Code, FromUsedCodes
  <2>3. OneGood' BY <1>2 DEF OneGood
  <2>4. QED BY <2>1, <2>2, <2>3
<1>3. ASSUME NEW p \in Pairs, pair[p].access = "live",
             pair' = [pair EXCEPT ![p].access = "expired"],
             UNCHANGED <<client, challenge, code>>
      PROVE  GrantInv'
  BY <1>3 DEF GrantTypes, Code, Pair, Challenge, FromUsedCodes, OneGood
<1>4. ASSUME NEW p \in Pairs, pair[p].refresh = "live",
             pair' = [pair EXCEPT ![p].refresh = "expired"],
             UNCHANGED <<client, challenge, code>>
      PROVE  GrantInv'
  <2>1. GrantTypes'
    BY <1>4 DEF GrantTypes, Code, Pair, Challenge
  <2>2. \A x \in Pairs : /\ pair'[x].access = pair[x].access /\ pair'[x].code = pair[x].code
                         /\ pair'[x].scopes = pair[x].scopes
                         /\ pair'[x].refresh = IF x = p THEN "expired" ELSE pair[x].refresh
    BY <1>4 DEF GrantTypes, Pair
  <2> QED BY <1>4, <2>1, <2>2 DEF FromUsedCodes, OneGood
<1> QED BY <1>1, <1>2, <1>3, <1>4 DEF Expire, Verified

\* A set of which any two members are equal has at most one.
LEMMA AtMostOne ==
  ASSUME NEW S, \A x, y \in S : x = y
  PROVE  Cardinality(S) <= 1
<1>1. CASE S = {}
  BY <1>1, FS_EmptySet
<1>2. ASSUME NEW x \in S PROVE Cardinality(S) <= 1
  <2>1. S = {x}
    OBVIOUS
  <2> QED BY <2>1, FS_Singleton
<1> QED BY <1>1, <1>2

\* For any number of clients, codes and tokens: of the tokens that descend from a code at
\* most one refresh token is good, none exceeds its scopes, and the code is used up.
THEOREM GrantsOnce == OAuthSpec => []OneLiveGrant
<1>1. OAuthInit => GrantInv
  BY ScopeTypes DEF OAuthInit, GrantInv, GrantTypes, Code, Pair, Challenge, FromUsedCodes, OneGood
<1>2. GrantInv /\ [OAuthNext]_oauthVars => GrantInv'
  <2> SUFFICES ASSUME GrantInv, [OAuthNext]_oauthVars PROVE GrantInv'
    OBVIOUS
  <2>1. CASE UNCHANGED oauthVars
    BY <2>1 DEF GrantInv, GrantTypes, Code, Pair, Challenge, FromUsedCodes, OneGood, oauthVars
  <2> QED BY <2>1, RegisterGrants, AuthorizeGrants, LoginGrants, ExchangeCodeGrants,
             RefreshGrants, ExpireGrants DEF OAuthNext
<1>3. GrantInv => OneLiveGrant
  <2> SUFFICES ASSUME GrantInv, NEW k \in Codes
               PROVE  LET descendants == {p \in Pairs : pair[p].code = k}
                      IN /\ Cardinality({p \in descendants : pair[p].refresh = "live"}) <= 1
                         /\ \A p \in descendants : pair[p].scopes \subseteq code[k].scopes
                         /\ descendants # {} => code[k].state # "live"
    BY DEF OneLiveGrant
  <2> DEFINE good == {p \in {q \in Pairs : pair[q].code = k} : pair[p].refresh = "live"}
  <2>1. \A p, q \in good : p = q
    BY DEF GrantInv, OneGood
  <2>2. Cardinality(good) <= 1
    <3> HIDE DEF good
    <3> QED BY <2>1, AtMostOne
  <2>3. \A p \in Pairs : pair[p].code = k =>
          code[k].state = "used" /\ pair[p].scopes \subseteq code[k].scopes
    BY OAuthAssumption DEF GrantInv, FromUsedCodes
  <2> QED BY <2>2, <2>3
<1> QED BY <1>1, <1>2, <1>3, PTL DEF OAuthSpec

-----------------------------------------------------------------------------
(***************************************************************************)
(* Answers of the Codex App Server.                                        *)
(***************************************************************************)

TurnRecord == {NoTurn} \cup [future : {"open", "completed", "failed"}, text : BOOLEAN]

ServedRecord ==
  [call : Calls \cup {NoCall}, conn : Nat, state : {"none", "running", "completed", "failed"},
   tool : BOOLEAN, unnamed : BOOLEAN]

CallRecord ==
  [at : {"idle", "wait", "dial", "init", "close", "thread", "starting", "rpc", "turn", "answered"},
   kind : Kinds \cup {"none"}, conn : Nat,
   reply : {"none", "waiting", "result", "error", "empty", "completed", "failed"},
   thread : CodexThreads \cup {NoCall}, turn : CodexTurns \cup {NoCall}]

CodexTypes ==
  /\ ws \in Nat /\ dialed \in Nat /\ ws <= dialed
  /\ turns \in [CodexTurns -> TurnRecord]
  /\ served \in [CodexTurns -> ServedRecord]
  /\ call \in [Calls -> CallRecord]

Clean(t) == served[t].state = "completed" /\ ~served[t].tool

\* A turn belongs to a connection that was opened; none is known before it is started.
TurnsOfConnections ==
  \A t \in CodexTurns :
    /\ served[t].conn <= dialed
    /\ served[t].state # "none" => served[t].conn # 0
    /\ served[t].state = "none" => turns[t] = NoTurn

\* What call c may rely on while it waits for its turn t: a future that is completed is
\* that of a clean turn, and a tool was not overlooked on a connection that still lives.
Relies(c, t) ==
  /\ served[t].call = c /\ served[t].state # "none"
  /\ turns[t].future = "completed" => Clean(t)
  /\ served[t].tool /\ served[t].conn = ws => turns[t].future = "failed"

CallOK(c) ==
  /\ call[c].turn # NoCall => call[c].at \in {"starting", "turn", "answered"}
  /\ call[c].at \in {"turn", "answered"} => call[c].turn \in CodexTurns
  /\ call[c].at = "starting" /\ call[c].reply = "result" => call[c].turn \in CodexTurns
  /\ call[c].at \in {"starting", "turn"} /\ call[c].turn \in CodexTurns => Relies(c, call[c].turn)
  /\ call[c].at = "turn" /\ call[c].reply = "completed" => Clean(call[c].turn)
  /\ call[c].at = "answered" => served[call[c].turn].call = c /\ Clean(call[c].turn)

CodexInv == CodexTypes /\ TurnsOfConnections /\ \A c \in Calls : CallOK(c)

\* The socket is kept, lost, or a new one.
SocketChanges ==
  \/ ws' \in {ws, 0} /\ dialed' = dialed
  \/ dialed' = dialed + 1 /\ ws' = dialed'

\* Where a call that has no turn can be.
Onward(new) ==
  /\ new \in CallRecord /\ new.turn = NoCall /\ new.at \notin {"turn", "answered"}
  /\ ~(new.at = "starting" /\ new.reply = "result")

\* The step of a call that stays without a turn.
GoesOn(c) ==
  /\ SocketChanges /\ UNCHANGED <<turns, served>>
  /\ \E new : Onward(new) /\ call' = [call EXCEPT ![c] = new]

\* A call that has no turn goes on to another point before its turn, or ends.
LEMMA CallGoesOn ==
  ASSUME CodexInv, NEW c \in Calls, GoesOn(c)
  PROVE  CodexInv'
<1> USE DEF CodexInv, GoesOn
<1>0. PICK new : Onward(new) /\ call' = [call EXCEPT ![c] = new]
  OBVIOUS
<1> USE <1>0 DEF Onward
<1>1. CodexTypes'
  BY DEF CodexTypes, SocketChanges
<1>2. TurnsOfConnections'
  <2>1. \A t \in CodexTurns : served[t].conn \in Nat
    BY DEF CodexTypes, ServedRecord
  <2> QED BY <2>1 DEF CodexTypes, TurnsOfConnections, SocketChanges
<1>3. ASSUME NEW d \in Calls PROVE CallOK(d)'
  <2>1. CASE d = c
    BY <2>1, CodexAssumption DEF CodexTypes, CallOK
  <2>2. CASE d # c
    <3>1. call'[d] = call[d]
      BY <2>2 DEF CodexTypes
    <3>2. \A t \in CodexTurns : Relies(d, t) => Relies(d, t)'
      BY DEF Relies, Clean, CodexTypes, TurnsOfConnections, SocketChanges
    <3> QED BY <3>1, <3>2 DEF CallOK, Clean
  <2> QED BY <2>1, <2>2
<1> QED BY <1>1, <1>2, <1>3

LEMMA RestingGoesOn == Onward(Resting)
BY DEF Onward, Resting, CallRecord

\* What Proceed leaves of a call that had no turn.
LEMMA ProceedGoesOn ==
  ASSUME CodexInv, NEW c \in Calls, NEW kind \in Kinds \cup {"none"}, Proceed(c, kind),
         call[c].at \in {"idle", "wait", "init"}
  PROVE  \E new : Onward(new) /\ call' = [call EXCEPT ![c] = new]
<1>1. call[c] \in CallRecord /\ call[c].turn = NoCall /\ ws \in Nat
  BY DEF CodexInv, CodexTypes, CallOK
<1>2. CASE call' = [call EXCEPT ![c] = [Resting EXCEPT !.at = "thread", !.kind = kind,
                                          !.conn = ws, !.reply = "waiting"]]
  BY <1>1, <1>2 DEF Onward, Resting, CallRecord
<1>3. CASE Ends(c)
  BY <1>3, RestingGoesOn DEF Ends
<1>4. CASE Send(c, "starting")
  <2> DEFINE new == [call[c] EXCEPT !.at = "starting", !.conn = ws, !.reply = "waiting"]
  <2>1. call' = [call EXCEPT ![c] = new]
    BY <1>4 DEF Send, CodexInv, CodexTypes
  <2>2. Onward(new)
    BY <1>1 DEF Onward, CallRecord
  <2> QED BY <2>1, <2>2
<1>5. CASE call' = [call EXCEPT ![c] = [Resting EXCEPT !.at = "rpc", !.kind = kind,
                                          !.conn = ws, !.reply = "waiting"]]
  BY <1>1, <1>5 DEF Onward, Resting, CallRecord
<1> QED BY <1>2, <1>3, <1>4, <1>5 DEF Proceed

LEMMA KindsOfCalls == \A c \in Calls : Does[c] \subseteq Kinds
BY DoesAssumption

LEMMA BeginGoesOn ==
  ASSUME CodexInv, NEW c \in Calls, NEW kind \in Kinds, Begin(c, kind)
  PROVE  GoesOn(c)
<1>1. CASE Connected
  BY <1>1, ProceedGoesOn DEF Begin, GoesOn, SocketChanges
<1>2. CASE ~Connected
  BY <1>2 DEF Begin, GoesOn, SocketChanges, Onward, Resting, CallRecord
<1> QED BY <1>1, <1>2

LEMMA BeginTurnGoesOn ==
  ASSUME CodexInv, NEW c \in Calls, NEW h \in CodexThreads, BeginTurn(c, h)
  PROVE  GoesOn(c)
<1>1. ws \in Nat
  BY DEF CodexInv, CodexTypes
<1> DEFINE new == [Resting EXCEPT !.kind = "old", !.thread = h, !.conn = ws,
                     !.at = IF Connected THEN "starting" ELSE "wait",
                     !.reply = IF Connected THEN "waiting" ELSE "none"]
<1>2. call' = [call EXCEPT ![c] = new] /\ UNCHANGED <<ws, dialed, turns, served>>
  BY DEF BeginTurn
<1>3. ASSUME NEW at \in {"starting", "wait"}, NEW reply \in {"waiting", "none"}
      PROVE  Onward([Resting EXCEPT !.kind = "old", !.thread = h, !.conn = ws,
                                    !.at = at, !.reply = reply])
  BY <1>1 DEF Onward, Resting, CallRecord, Kinds
<1>4. Onward(new)
  BY <1>3
<1> QED BY <1>2, <1>4 DEF GoesOn, SocketChanges

LEMMA ConnectingGoesOn ==
  ASSUME CodexInv, NEW c \in Calls,
         TakeLock(c) \/ DialFails(c) \/ Initialized(c) \/ InitializeFails(c)
           \/ \E match \in BOOLEAN : Dial(c, match)
  PROVE  GoesOn(c)
<1>1. call[c] \in CallRecord /\ call[c].at \in {"wait", "dial", "init"}
      /\ call[c].turn = NoCall /\ ws \in Nat /\ dialed \in Nat
  BY DEF CodexInv, CodexTypes, CallOK, TakeLock, DialFails, Initialized, InitializeFails, Dial
<1>2. call[c].kind \in Kinds \cup {"none"}
  BY <1>1 DEF CallRecord
<1>3. /\ Onward([call[c] EXCEPT !.at = "dial"])
      /\ Onward([call[c] EXCEPT !.at = "close", !.reply = "none"])
      /\ \A conn \in Nat : Onward([call[c] EXCEPT !.at = "init", !.conn = conn,
                                                  !.reply = "waiting"])
  <2>1. Onward([call[c] EXCEPT !.at = "dial"])
    BY <1>1 DEF Onward, CallRecord
  <2>2. Onward([call[c] EXCEPT !.at = "close", !.reply = "none"])
    BY <1>1 DEF Onward, CallRecord
  <2>3. ASSUME NEW conn \in Nat
        PROVE  Onward([call[c] EXCEPT !.at = "init", !.conn = conn, !.reply = "waiting"])
    BY <1>1 DEF Onward, CallRecord
  <2> QED BY <2>1, <2>2, <2>3
<1>4. CASE TakeLock(c)
  <2>1. CASE Connected
    BY <1>1, <1>2, <1>4, <2>1, ProceedGoesOn DEF TakeLock, GoesOn, SocketChanges
  <2>2. CASE ~Connected
    <3>1. call' = [call EXCEPT ![c] = [call[c] EXCEPT !.at = "dial"]]
      BY <1>4, <2>2 DEF TakeLock, CodexInv, CodexTypes
    <3> QED BY <1>3, <1>4, <3>1 DEF TakeLock, GoesOn, SocketChanges
  <2> QED BY <2>1, <2>2
<1>5. CASE DialFails(c)
  BY <1>5, RestingGoesOn DEF DialFails, Ends, GoesOn, SocketChanges
<1>6. CASE Initialized(c)
  BY <1>1, <1>2, <1>6, ProceedGoesOn DEF Initialized, GoesOn, SocketChanges
<1>7. CASE InitializeFails(c)
  <2>1. call' = [call EXCEPT ![c] = [call[c] EXCEPT !.at = "close", !.reply = "none"]]
    BY <1>7 DEF InitializeFails, CodexInv, CodexTypes
  <2> QED BY <1>3, <1>7, <2>1 DEF InitializeFails, GoesOn, SocketChanges
<1>8. ASSUME NEW match \in BOOLEAN, Dial(c, match) PROVE GoesOn(c)
  <2>1. dialed' \in Nat
    BY <1>1, <1>8 DEF Dial
  <2>2. call' = [call EXCEPT ![c] = [call[c] EXCEPT !.at = "init", !.conn = dialed',
                                                    !.reply = "waiting"]]
    BY <1>8 DEF Dial, CodexInv, CodexTypes
  <2>3. Onward([call[c] EXCEPT !.at = "init", !.conn = dialed', !.reply = "waiting"])
    BY <1>3, <2>1
  <2> QED BY <1>8, <2>2, <2>3 DEF Dial, GoesOn, SocketChanges
<1> QED BY <1>4, <1>5, <1>6, <1>7, <1>8

\* Calls that are resumed and have no turn, or have its answer.
LEMMA ThreadStartedGoesOn ==
  ASSUME CodexInv, NEW c \in Calls, NEW h \in CodexThreads, ThreadStarted(c, h)
  PROVE  GoesOn(c)
<1>1. call[c] \in CallRecord /\ call[c].turn = NoCall /\ ws \in Nat
  BY DEF ThreadStarted, CodexInv, CodexTypes, CallOK
<1> DEFINE new == [call[c] EXCEPT !.thread = h, !.conn = ws,
                     !.at = IF Connected THEN "starting" ELSE "wait",
                     !.reply = IF Connected THEN "waiting" ELSE "none"]
<1>2. call' = [call EXCEPT ![c] = new]
  BY DEF ThreadStarted, CodexInv, CodexTypes
<1>3. Onward(new)
  BY <1>1 DEF Onward, CallRecord
<1> QED BY <1>2, <1>3 DEF ThreadStarted, GoesOn, SocketChanges

LEMMA ResumedGoesOn ==
  ASSUME CodexInv, NEW c \in Calls,
         \/ Answered(c) \/ RpcReturns(c)
         \/ call[c].at # "turn" /\ (Raises(c) \/ Cancelled(c))
  PROVE  GoesOn(c)
BY RestingGoesOn DEF Answered, RpcReturns, Raises, Cancelled, Ends, GoesOn, SocketChanges

\* The server's answer: a turn, if it started one.
LEMMA RespondKeeps ==
  ASSUME CodexInv, NEW c \in Calls, NEW reply \in {"result", "error"}, Respond(c, reply)
  PROVE  CodexInv'
<1> USE DEF CodexInv, Respond
<1>1. call[c] \in CallRecord /\ call[c].at \in Sent
  BY DEF CodexTypes
<1>2. call' = [call EXCEPT ![c] = [call[c] EXCEPT !.reply = reply]]
  BY DEF CodexTypes
<1>3. CodexTypes'
  BY <1>1, <1>2 DEF CodexTypes, CallRecord
<1>4. TurnsOfConnections'
  BY DEF TurnsOfConnections
<1>5. ASSUME NEW d \in Calls PROVE CallOK(d)'
  <2>1. \A t \in CodexTurns : Relies(d, t) => Relies(d, t)'
    BY DEF Relies, Clean
  <2>2. CASE d = c
    BY <1>1, <1>2, <2>1, <2>2 DEF CallOK, CallRecord, Sent, CodexTypes
  <2>3. CASE d # c
    BY <1>2, <2>1, <2>3 DEF CallOK, Clean, CodexTypes
  <2> QED BY <2>2, <2>3
<1> QED BY <1>3, <1>4, <1>5

\* A turn nothing is known of becomes the call's own.
LEMMA ServerStartsKeeps ==
  ASSUME CodexInv, NEW c \in Calls, NEW t \in CodexTurns, ServerStarts(c, t)
  PROVE  CodexInv'
<1> USE DEF CodexInv
<1>1. served[t].state = "none" /\ turns[t] = NoTurn /\ ws # 0 /\ ws <= dialed
  BY DEF ServerStarts, CodexTypes, TurnsOfConnections, Connected
<1>2. call[c].at = "starting" /\ call[c].reply = "waiting" /\ call[c] \in CallRecord
  BY DEF ServerStarts, CodexTypes
<1>3. call' = [call EXCEPT ![c] = [call[c] EXCEPT !.turn = t]]
  BY DEF ServerStarts, CodexTypes
<1> DEFINE new == [Unserved EXCEPT !.call = c, !.conn = ws, !.state = "running"]
<1>0. /\ new \in ServedRecord /\ new.call = c /\ new.conn = ws /\ new.state = "running"
      /\ ~new.tool
  BY DEF Unserved, ServedRecord, CodexTypes
<1>4. served' = [served EXCEPT ![t] = new] /\ UNCHANGED <<ws, dialed, turns>>
  BY DEF ServerStarts
<1> HIDE DEF new
<1>5. CodexTypes'
  BY <1>0, <1>2, <1>3, <1>4 DEF CodexTypes, CallRecord
<1>6. TurnsOfConnections'
  BY <1>0, <1>1, <1>4 DEF CodexTypes, TurnsOfConnections
<1>7. ASSUME NEW d \in Calls PROVE CallOK(d)'
  <2>1. \A u \in CodexTurns \ {t} : Relies(d, u) => Relies(d, u)'
    BY <1>4 DEF Relies, Clean, CodexTypes
  <2>2. CASE d = c
    <3>1. Relies(c, t)'
      BY <1>0, <1>1, <1>4 DEF Relies, CodexTypes, NoTurn
    <3> QED BY <1>2, <1>3, <2>2, <3>1, CodexAssumption DEF CallOK, CodexTypes
  <2>3. CASE d # c
    <3>1. call'[d] = call[d]
      BY <1>3, <2>3 DEF CodexTypes
    <3>2. call[d].at \in {"turn", "starting"} => call[d].turn # t
      BY <1>1 DEF CallOK, Relies
    <3>3. call[d].at = "answered" => call[d].turn # t
      BY <1>1 DEF CallOK, Clean
    <3> QED BY <1>4, <2>1, <3>1, <3>2, <3>3 DEF CallOK, Clean, CodexTypes
  <2> QED BY <2>2, <2>3
<1> QED BY <1>5, <1>6, <1>7

\* A turn's state, once it is made.
LEMMA StateOfTurn ==
  ASSUME CodexInv, NEW t \in CodexTurns
  PROVE  /\ TurnState(t) \in TurnRecord /\ TurnState(t) # NoTurn
         /\ TurnState(t).future \in {"open", "completed", "failed"}
         /\ turns[t].future \in {"completed", "failed"} => TurnState(t) = turns[t]
         /\ TurnState(t).future # "open" => TurnState(t) = turns[t]
         /\ \A text \in BOOLEAN, future \in {"open", "completed", "failed"} :
              /\ [TurnState(t) EXCEPT !.text = text] \in TurnRecord
              /\ [TurnState(t) EXCEPT !.future = future] \in TurnRecord
<1>1. turns[t] \in TurnRecord
  BY DEF CodexInv, CodexTypes
<1>2. TurnState(t) \in [future : {"open", "completed", "failed"}, text : BOOLEAN]
  BY <1>1 DEF TurnState, TurnRecord
<1>3. TurnState(t) \in TurnRecord /\ TurnState(t) # NoTurn
  BY <1>2 DEF TurnRecord, NoTurn
<1>4. turns[t] # NoTurn => TurnState(t) = turns[t]
  BY DEF TurnState
<1>5. turns[t] = NoTurn => turns[t].future = "none" /\ TurnState(t).future = "open"
  BY DEF TurnState, NoTurn
<1>6. ASSUME NEW text \in BOOLEAN PROVE [TurnState(t) EXCEPT !.text = text] \in TurnRecord
  BY <1>2 DEF TurnRecord
<1>7. ASSUME NEW future \in {"open", "completed", "failed"}
      PROVE  [TurnState(t) EXCEPT !.future = future] \in TurnRecord
  BY <1>2 DEF TurnRecord
<1>8. TurnState(t).future \in {"open", "completed", "failed"}
  BY <1>2
<1> QED BY <1>3, <1>4, <1>5, <1>6, <1>7, <1>8

\* A message of a running turn changes that turn alone, and leaves what a call relies on.
LEMMA MessageKeeps ==
  ASSUME CodexInv, NEW t \in CodexTurns, Running(t),
         NEW state \in TurnRecord, turns' = [turns EXCEPT ![t] = state],
         NEW row \in ServedRecord, served' = [served EXCEPT ![t] = row],
         UNCHANGED <<ws, dialed, call>>,
         row.call = served[t].call, row.conn = served[t].conn, row.state # "none",
         served[t].tool /\ turns[t].future = "failed" => row.tool /\ state.future = "failed",
         turns[t].future # "completed"
           => (state.future = "completed" =>
                 row.state = "completed" /\ row.tool = served[t].tool
                   /\ turns[t].future # "failed"),
         row.tool => served[t].tool \/ state.future = "failed" \/ turns[t].future = "completed"
  PROVE  CodexInv'
<1> USE DEF CodexInv
<1>1. CodexTypes'
  BY DEF CodexTypes
<1>2. TurnsOfConnections'
  BY DEF TurnsOfConnections, CodexTypes, Running
<1>3. served[t].state = "running" /\ served[t].conn = ws
  BY DEF Running
<1>4. ASSUME NEW d \in Calls PROVE CallOK(d)'
  <2>1. ASSUME NEW u \in CodexTurns, Relies(d, u) PROVE Relies(d, u)'
    <3>1. CASE u # t
      BY <2>1, <3>1 DEF Relies, Clean, CodexTypes
    <3>2. CASE u = t
      BY <1>3, <2>1, <3>2 DEF Relies, Clean, CodexTypes
    <3> QED BY <3>1, <3>2
  <2>2. ASSUME NEW u \in CodexTurns, Clean(u) PROVE u # t /\ Clean(u)' /\ served'[u] = served[u]
    BY <1>3, <2>2 DEF Clean, CodexTypes
  <2> QED BY <2>1, <2>2 DEF CallOK
<1> QED BY <1>1, <1>2, <1>4

LEMMA DeltaKeeps ==
  ASSUME CodexInv, NEW t \in CodexTurns, Delta(t)
  PROVE  CodexInv'
<1> DEFINE state == [TurnState(t) EXCEPT !.text = TRUE]
<1>1. /\ state \in TurnRecord /\ state.future = TurnState(t).future
      /\ turns' = [turns EXCEPT ![t] = state] /\ Running(t) /\ UNCHANGED <<ws, dialed, call, served>>
  <2>1. state \in TurnRecord /\ state.future = TurnState(t).future
    BY StateOfTurn DEF TurnRecord, NoTurn
  <2> QED BY <2>1 DEF Delta
<1>2. served[t] \in ServedRecord /\ served' = [served EXCEPT ![t] = served[t]]
      /\ served[t].state # "none"
  BY <1>1 DEF CodexInv, CodexTypes, Running
<1>3. state.future \in {"completed", "failed"} => state.future = turns[t].future
  BY <1>1, StateOfTurn
<1>4. turns[t].future = "failed" => state.future = "failed"
  BY <1>1, StateOfTurn
<1>5. served[t].tool \in BOOLEAN
  BY <1>2 DEF ServedRecord
<1> HIDE DEF state
<1> QED BY <1>1, <1>2, <1>3, <1>4, <1>5, MessageKeeps

LEMMA ToolEventUnnamedKeeps ==
  ASSUME CodexInv, NEW t \in CodexTurns, ToolEventUnnamed(t)
  PROVE  CodexInv'
<1> DEFINE row == [served[t] EXCEPT !.unnamed = TRUE]
<1>1. turns[t] \in TurnRecord /\ served[t] \in ServedRecord /\ Running(t)
      /\ turns' = [turns EXCEPT ![t] = turns[t]] /\ UNCHANGED <<ws, dialed, call>>
  BY DEF CodexInv, CodexTypes, ToolEventUnnamed
<1>2. /\ row \in ServedRecord /\ row.call = served[t].call /\ row.conn = served[t].conn
      /\ row.state = served[t].state /\ row.tool = served[t].tool /\ row.tool \in BOOLEAN
  BY <1>1 DEF ServedRecord
<1>3. served' = [served EXCEPT ![t] = row]
  BY DEF ToolEventUnnamed
<1>4. row.state = "running" /\ (turns[t].future = "completed" \/ turns[t].future # "completed")
  BY <1>1, <1>2 DEF Running
<1> HIDE DEF row
<1> QED BY <1>1, <1>2, <1>3, <1>4, MessageKeeps

LEMMA ToolEventKeeps ==
  ASSUME CodexInv, NEW t \in CodexTurns, ToolEvent(t)
  PROVE  CodexInv'
<1> DEFINE state == IF TurnState(t).future # "open" THEN turns[t]
                    ELSE [TurnState(t) EXCEPT !.future = "failed"]
           row == [served[t] EXCEPT !.tool = TRUE]
<1>1. turns[t] \in TurnRecord /\ served[t] \in ServedRecord
  BY DEF CodexInv, CodexTypes
<1>2. state \in TurnRecord /\ row \in ServedRecord
  BY <1>1, StateOfTurn DEF ServedRecord
<1>3. /\ turns' = [turns EXCEPT ![t] = state] /\ Running(t) /\ UNCHANGED <<ws, dialed, call>>
      /\ served' = [served EXCEPT ![t] = row]
  BY DEF ToolEvent, CodexInv, CodexTypes
<1>4. row.call = served[t].call /\ row.conn = served[t].conn /\ row.state = "running" /\ row.tool
  BY <1>1, <1>3 DEF ServedRecord, Running
<1>5. state.future = "failed" \/ (state = turns[t] /\ turns[t].future = "completed")
  BY <1>1, StateOfTurn DEF TurnState, TurnRecord
<1> HIDE DEF state, row
<1> QED BY <1>2, <1>3, <1>4, <1>5, MessageKeeps

LEMMA TurnCompletedKeeps ==
  ASSUME CodexInv, NEW t \in CodexTurns, NEW status \in {"completed", "failed"},
         TurnCompleted(t, status)
  PROVE  CodexInv'
<1> DEFINE state == IF TurnState(t).future # "open" THEN turns[t]
                    ELSE [TurnState(t) EXCEPT !.future = status]
           row == [served[t] EXCEPT !.state = status]
<1>1. turns[t] \in TurnRecord /\ served[t] \in ServedRecord
  BY DEF CodexInv, CodexTypes
<1>2. state \in TurnRecord /\ row \in ServedRecord
  BY <1>1, StateOfTurn DEF ServedRecord
<1>3. /\ turns' = [turns EXCEPT ![t] = state] /\ Running(t) /\ UNCHANGED <<ws, dialed, call>>
      /\ served' = [served EXCEPT ![t] = row]
  BY DEF TurnCompleted, CodexInv, CodexTypes
<1>4. /\ row.call = served[t].call /\ row.conn = served[t].conn /\ row.state = status
      /\ row.tool = served[t].tool
  BY <1>1 DEF ServedRecord
<1>5. \/ state = turns[t] /\ turns[t].future \in {"completed", "failed"}
      \/ state.future = status /\ turns[t].future \notin {"completed", "failed"}
  BY <1>1, StateOfTurn DEF TurnState, TurnRecord
<1> HIDE DEF state, row
<1> QED BY <1>2, <1>3, <1>4, <1>5, MessageKeeps

\* The call waits for the turn from now on.
LEMMA TurnStartedKeeps ==
  ASSUME CodexInv, NEW c \in Calls, TurnStarted(c)
  PROVE  CodexInv'
<1> USE DEF CodexInv
<1> DEFINE t == call[c].turn
<1>1. call[c].at = "starting" /\ call[c] \in CallRecord /\ t \in CodexTurns /\ Relies(c, t)
  BY DEF TurnStarted, CallOK, CodexTypes
<1>2. call' = [call EXCEPT ![c] = [call[c] EXCEPT !.at = "turn", !.reply = "none"]]
  BY DEF TurnStarted, CodexTypes
<1>3. turns' = [turns EXCEPT ![t] = TurnState(t)] /\ UNCHANGED <<ws, dialed, served>>
  BY DEF TurnStarted
<1> HIDE DEF t
<1>4. CodexTypes'
  BY <1>1, <1>2, <1>3, StateOfTurn DEF CodexTypes, CallRecord
<1>5. TurnsOfConnections'
  BY <1>1, <1>3 DEF TurnsOfConnections, Relies, CodexTypes
<1>6. ASSUME NEW d \in Calls PROVE CallOK(d)'
  <2>1. ASSUME NEW u \in CodexTurns, Relies(d, u) PROVE Relies(d, u)'
    <3>1. CASE u # t
      BY <1>3, <2>1, <3>1 DEF Relies, Clean, CodexTypes
    <3>2. CASE u = t
      BY <1>1, <1>3, <2>1, <3>2, StateOfTurn DEF Relies, Clean, CodexTypes
    <3> QED BY <3>1, <3>2
  <2>2. CASE d = c
    BY <1>1, <1>2, <1>3, <2>1, <2>2 DEF CallOK, CodexTypes, t, CallRecord
  <2>3. CASE d # c
    BY <1>2, <1>3, <2>1, <2>3 DEF CallOK, Clean, CodexTypes
  <2> QED BY <2>2, <2>3
<1> QED BY <1>4, <1>5, <1>6

\* A turn whose call no longer waits for it, or ends in this step, is forgotten.
LEMMA CallLeavesTurn ==
  ASSUME CodexInv, NEW c \in Calls, call[c].at = "turn",
         turns' = [turns EXCEPT ![call[c].turn] = NoTurn],
         UNCHANGED <<ws, dialed, served>>,
         \/ call' = [call EXCEPT ![c] = Resting]
         \/ call' = [call EXCEPT ![c].at = "answered"] /\ Clean(call[c].turn)
  PROVE  CodexInv'
<1> USE DEF CodexInv
<1> DEFINE t == call[c].turn
<1>1. call[c] \in CallRecord /\ t \in CodexTurns /\ Relies(c, t)
  BY DEF CallOK, CodexTypes
<1>2. turns' = [turns EXCEPT ![t] = NoTurn]
  OBVIOUS
<1>3. \/ call' = [call EXCEPT ![c] = Resting]
      \/ call' = [call EXCEPT ![c] = [call[c] EXCEPT !.at = "answered"]] /\ Clean(t)
  BY DEF CodexTypes
<1> HIDE DEF t
<1>4. CodexTypes'
  <2>1. Resting \in CallRecord /\ [call[c] EXCEPT !.at = "answered"] \in CallRecord
    BY <1>1 DEF Resting, CallRecord
  <2>2. call' \in [Calls -> CallRecord]
    BY <1>3, <2>1 DEF CodexTypes
  <2>3. turns' \in [CodexTurns -> TurnRecord]
    BY <1>2 DEF CodexTypes, TurnRecord
  <2> QED BY <2>2, <2>3 DEF CodexTypes
<1>5. TurnsOfConnections'
  BY <1>1, <1>2 DEF TurnsOfConnections, CodexTypes
<1>6. ASSUME NEW d \in Calls PROVE CallOK(d)'
  <2>1. CASE d = c
    BY <1>1, <1>3, <2>1, CodexAssumption DEF CallOK, CodexTypes, Resting, Clean, Relies, t, CallRecord
  <2>2. CASE d # c
    <3>1. call'[d] = call[d]
      BY <1>3, <2>2 DEF CodexTypes
    <3>2. ASSUME NEW u \in CodexTurns, Relies(d, u) PROVE Relies(d, u)'
      BY <1>1, <1>2, <2>2, <3>2 DEF Relies, Clean, CodexTypes
    <3> QED BY <3>1, <3>2 DEF CallOK, Clean
  <2> QED BY <2>1, <2>2
<1> QED BY <1>4, <1>5, <1>6

\* An outcome that is returned is the future of the turn, or what the lost connection
\* made of it.
LEMMA TurnEndsKeeps ==
  ASSUME CodexInv, NEW c \in Calls,
         TurnEnds(c) \/ (call[c].at = "turn" /\ (Raises(c) \/ Cancelled(c)))
  PROVE  CodexInv'
<1>1. CASE TurnEnds(c)
  <2>1. call[c].turn \in CodexTurns /\ Relies(c, call[c].turn)
    BY <1>1 DEF TurnEnds, CodexInv, CallOK
  <2>2. Outcome(c) = "completed" => Clean(call[c].turn)
    BY <1>1, <2>1 DEF TurnEnds, CodexInv, CallOK, Outcome, Relies
  <2> QED BY <1>1, <2>2, CallLeavesTurn DEF TurnEnds, Ends
<1>2. CASE call[c].at = "turn" /\ (Raises(c) \/ Cancelled(c))
  BY <1>2, CallLeavesTurn DEF Raises, Cancelled, Ends
<1> QED BY <1>1, <1>2

\* The connection is lost: what was waited for fails, and what was completed stays so.
LEMMA InvalidateKeeps ==
  ASSUME CodexInv, NEW others \in SUBSET Calls, Invalidate(others), UNCHANGED <<dialed, served>>
  PROVE  CodexInv'
<1> USE DEF CodexInv
<1>1. ws' = 0 /\ turns' = [t \in CodexTurns |-> NoTurn]
  BY DEF Invalidate
<1>2. ASSUME NEW c \in Calls
      PROVE  \/ call'[c] = Resting
             \/ call'[c] = call[c] /\ c \in others
             \/ call[c].at \in Sent /\ call'[c] = [call[c] EXCEPT !.reply = "error"]
             \/ /\ call[c].at = "turn"
                /\ \E reply \in {"error", "empty", "none", "completed", "failed"} :
                     /\ call'[c] = [call[c] EXCEPT !.reply = reply]
                     /\ reply = "completed" => turns[call[c].turn].future = "completed"
  <2>1. call[c].at = "turn" => turns[call[c].turn] \in TurnRecord
    BY DEF CodexTypes, CallOK
  <2>2. call[c].at = "turn" => turns[call[c].turn].future \in {"open", "none", "completed", "failed"}
    BY <2>1 DEF TurnRecord, NoTurn
  <2> QED BY <2>2 DEF Invalidate
<1>3. CodexTypes'
  <2>1. ASSUME NEW c \in Calls PROVE call'[c] \in CallRecord
    <3>1. call[c] \in CallRecord /\ Resting \in CallRecord
      BY DEF CodexTypes, Resting, CallRecord
    <3> QED BY <1>2, <3>1 DEF CallRecord
  <2>2. call' \in [Calls -> CallRecord]
    BY <2>1 DEF Invalidate
  <2> QED BY <1>1, <2>2 DEF CodexTypes, TurnRecord
<1>4. TurnsOfConnections'
  BY <1>1 DEF TurnsOfConnections
<1>5. ASSUME NEW c \in Calls PROVE CallOK(c)'
  <2>1. \A t \in CodexTurns : Relies(c, t) => Relies(c, t)'
    BY <1>1 DEF Relies, Clean, TurnsOfConnections, NoTurn
  <2>2. call[c] \in CallRecord
    BY DEF CodexTypes
  <2>3. CASE call'[c] = Resting
    BY <2>3, CodexAssumption DEF CallOK, Resting
  <2>4. CASE call'[c] = call[c]
    BY <2>1, <2>4 DEF CallOK, Clean
  <2>5. CASE call[c].at \in Sent /\ call'[c] = [call[c] EXCEPT !.reply = "error"]
    BY <2>1, <2>2, <2>5 DEF CallOK, Clean, Sent, CallRecord
  <2>6. ASSUME call[c].at = "turn",
               NEW reply \in {"error", "empty", "none", "completed", "failed"},
               call'[c] = [call[c] EXCEPT !.reply = reply],
               reply = "completed" => turns[call[c].turn].future = "completed"
        PROVE  CallOK(c)'
    <3>1. call[c].turn \in CodexTurns /\ Relies(c, call[c].turn)
      BY <2>6 DEF CallOK
    <3>2. reply = "completed" => Clean(call[c].turn)
      BY <2>6, <3>1 DEF Relies
    <3>3. call'[c].at = "turn" /\ call'[c].turn = call[c].turn /\ call'[c].reply = reply
      BY <2>2, <2>6 DEF CallRecord
    <3> QED BY <2>1, <3>1, <3>2, <3>3 DEF CallOK, Clean
  <2> QED BY <1>2, <2>3, <2>4, <2>5, <2>6
<1> QED BY <1>3, <1>4, <1>5

\* For any number of calls, conversations, turns and connections: an answer that is
\* returned is of the call's own turn, completed, and without an event of a tool that names
\* it (_run_text_turn, _fail_tool_event).
THEOREM AnswersStayClean == CodexSpec => []AnswersAreClean
<1>1. CodexInit => CodexInv
  BY CodexAssumption
     DEF CodexInit, CodexInv, CodexTypes, TurnsOfConnections, CallOK, TurnRecord, ServedRecord,
         CallRecord, Resting, Unserved
<1>2. CodexInv /\ [CodexNext]_codexVars => CodexInv'
  <2> SUFFICES ASSUME CodexInv, [CodexNext]_codexVars PROVE CodexInv'
    OBVIOUS
  <2>1. ASSUME NEW c \in Calls, NEW kind \in Does[c] \ {"old"}, Begin(c, kind) PROVE CodexInv'
    BY <2>1, BeginGoesOn, KindsOfCalls, CallGoesOn
  <2>2. ASSUME NEW c \in Calls, NEW h \in CodexThreads, BeginTurn(c, h) PROVE CodexInv'
    BY <2>2, BeginTurnGoesOn, CallGoesOn
  <2>3. ASSUME NEW c \in Calls,
               \/ TakeLock(c) \/ DialFails(c) \/ Initialized(c) \/ InitializeFails(c)
               \/ \E match \in BOOLEAN : Dial(c, match)
        PROVE  CodexInv'
    BY <2>3, ConnectingGoesOn, CallGoesOn
  <2>4. ASSUME NEW c \in Calls, NEW h \in CodexThreads, ThreadStarted(c, h) PROVE CodexInv'
    BY <2>4, ThreadStartedGoesOn, CallGoesOn
  <2>5. ASSUME NEW c \in Calls,
               Answered(c) \/ RpcReturns(c) \/ Raises(c) \/ Cancelled(c) \/ TurnEnds(c)
        PROVE  CodexInv'
    BY <2>5, ResumedGoesOn, CallGoesOn, TurnEndsKeeps
  <2>6. ASSUME NEW c \in Calls, Close(c) PROVE CodexInv'
    BY <2>6, InvalidateKeeps DEF Close
  <2>7. CASE ReaderEnds
    BY <2>7, InvalidateKeeps DEF ReaderEnds
  <2>8. CASE LoginCompleted \/ UNCHANGED codexVars
    BY <2>8 DEF LoginCompleted, codexVars, CodexInv, CodexTypes, TurnsOfConnections, CallOK,
                Relies, Clean
  <2> QED BY <2>1, <2>2, <2>3, <2>4, <2>5, <2>6, <2>7, <2>8, RespondKeeps, ServerStartsKeeps,
             TurnStartedKeeps, DeltaKeeps, ToolEventKeeps, ToolEventUnnamedKeeps, TurnCompletedKeeps
          DEF CodexNext
<1>3. CodexInv => AnswersAreClean
  BY DEF CodexInv, CallOK, AnswersAreClean, Clean
<1> QED BY <1>1, <1>2, <1>3, PTL DEF CodexSpec
=============================================================================
