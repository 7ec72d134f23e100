-------------------------- MODULE Exchanges_proofs --------------------------
(***************************************************************************)
(* The theorems of the exchanges of a session.  The log of the changes     *)
(* that the administrator makes is the history of every row; a model that  *)
(* fetches chunk after chunk has the whole transcript.                     *)
(*                                                                         *)
(* For the second one the functions of Transcript are reasoned about as    *)
(* they are, folds over sequences: induction is over a set of numbers      *)
(* (SetInduction), and the function that a fold chooses is shown to exist  *)
(* before anything is said of it (FoldExists).                             *)
(***************************************************************************)
EXTENDS Exchanges, FiniteSetTheorems, TLAPS

(***************************************************************************)
(* The types of the rows and of the log.                                   *)
(***************************************************************************)

Actions == {"edit", "delete", "restore", "mask", "unmask"}

Events == [exchange : Exchanges, action : Actions, before : Rows, after : Rows]

RowsOK == exchange \in [Exchanges -> Rows \cup {Unsaved}] /\ log \in Seq(Events)

\* Nothing is recorded of an exchange before it is saved.
Recorded == \A i \in DOMAIN log : IsSaved(log[i].exchange)

\* The inductive invariant of the log.
LogInv == RowsOK /\ Recorded /\ AuditTrail

\* Nothing is saved and nothing recorded.
LEMMA InitLogInv == ExchangesInit => LogInv
<1> SUFFICES ASSUME ExchangesInit PROVE LogInv OBVIOUS
<1>1. exchange = [e \in Exchanges |-> Unsaved] /\ log = << >> BY DEF ExchangesInit
<1>2. log \in Seq(Events) BY <1>1
<1>3. Len(log) = 0 BY <1>1
<1>4. DOMAIN log = {} BY <1>2, <1>3
<1>5. RowsOK /\ Recorded BY <1>1, <1>2, <1>4 DEF RowsOK, Recorded
<1>6. AuditTrail BY <1>4 DEF AuditTrail, Changes
<1>7. QED BY <1>5, <1>6 DEF LogInv

\* An exchange that is saved has no history.
LEMMA SaveLogInv ==
  ASSUME LogInv, NEW e \in Exchanges, NEW text \in ExchangeTexts, SaveExchange(e, text)
  PROVE  LogInv'
<1> DEFINE row == [text |-> text, masked |-> FALSE, deleted |-> FALSE]
<1>1. /\ exchange' = [exchange EXCEPT ![e] = row] /\ row \in Rows /\ log' = log
      /\ exchange[e] = Unsaved /\ row # Unsaved
  <2>1. row \in Rows BY DEF Rows
  <2>2. row # Unsaved BY <2>1, ExchangesAssumption
  <2>3. QED BY <2>1, <2>2 DEF SaveExchange
<1>2. RowsOK' BY <1>1 DEF LogInv, RowsOK
<1>3. Recorded' BY <1>1 DEF LogInv, RowsOK, Recorded, IsSaved
<1>4. \A i \in DOMAIN log : log[i].exchange # e BY <1>1 DEF LogInv, Recorded, IsSaved
<1>5. \A f \in Exchanges \ {e} : exchange'[f] = exchange[f] BY <1>1 DEF LogInv, RowsOK
<1>6. AuditTrail' BY <1>1, <1>4, <1>5 DEF LogInv, AuditTrail, Changes
<1>7. QED BY <1>2, <1>3, <1>6 DEF LogInv

\* A change adds its event after all the others, and is what the row is then.
LEMMA ChangeLogInv ==
  ASSUME LogInv, NEW e \in Exchanges, NEW action \in Actions, NEW row \in Rows,
         Change(e, action, row)
  PROVE  LogInv'
<1> DEFINE n == Len(log)
           event == [exchange |-> e, action |-> action, before |-> exchange[e], after |-> row]
<1>1. /\ RowsOK /\ Recorded /\ AuditTrail /\ exchange[e] \in Rows
      /\ exchange' = [exchange EXCEPT ![e] = row] /\ log' = Append(log, event)
      /\ event \in Events
  BY DEF LogInv, RowsOK, Change, Record, IsSaved, Events
<1>2. /\ n \in Nat /\ DOMAIN log = 1..n /\ DOMAIN log' = 1..(n + 1)
      /\ log'[n + 1] = event /\ \A i \in 1..n : log'[i] = log[i]
  BY <1>1 DEF RowsOK
<1>3. RowsOK' BY <1>1 DEF RowsOK
<1>4. exchange'[e] = row /\ \A f \in Exchanges \ {e} : exchange'[f] = exchange[f]
  BY <1>1 DEF RowsOK
<1>5. Recorded'
  <2>1. row # Unsaved BY ExchangesAssumption
  <2>2. QED BY <1>1, <1>2, <1>4, <2>1 DEF RowsOK, Recorded, IsSaved, Events
<1>6. AuditTrail'
  <2>1. Changes(e)' = Changes(e) \cup {n + 1} BY <1>1, <1>2 DEF Changes
  <2>2. \A f \in Exchanges \ {e} : Changes(f)' = Changes(f) BY <1>1, <1>2 DEF Changes
  <2> SUFFICES ASSUME NEW f \in Exchanges, NEW i \in Changes(f)'
               PROVE  LET later == {k \in Changes(f)' : k > i}
                      IN /\ later = {} => log'[i].after = exchange'[f]
                         /\ \A j \in later : (\A k \in later : j <= k)
                              => log'[j].before = log'[i].after
    BY DEF AuditTrail
  <2>3. CASE f # e
    BY <1>1, <1>2, <1>4, <2>2, <2>3 DEF AuditTrail, Changes
  <2>4. CASE f = e /\ i = n + 1
    BY <1>2, <1>4, <2>1, <2>4 DEF Changes
  <2>5. CASE f = e /\ i \in Changes(e)
    <3> DEFINE earlier == {k \in Changes(e) : k > i}
    <3>1. {k \in Changes(e)' : k > i} = earlier \cup {n + 1} /\ i \in 1..n
      BY <1>2, <2>1, <2>5 DEF Changes
    <3>2. CASE earlier = {}
      <4>1. log[i].after = exchange[e] BY <1>1, <2>5, <3>2 DEF AuditTrail
      <4>2. QED BY <1>2, <2>5, <3>1, <3>2, <4>1
    <3>3. CASE earlier # {}
      <4>1. \A j \in earlier : (\A k \in earlier : j <= k) => log[j].before = log[i].after
        BY <1>1, <2>5 DEF AuditTrail
      <4>2. \A j \in earlier : j \in 1..n BY <1>2 DEF Changes
      <4>3. ASSUME NEW j \in earlier \cup {n + 1}, \A k \in earlier \cup {n + 1} : j <= k
            PROVE  log'[j].before = log'[i].after
        <5>1. j \in earlier BY <1>2, <3>3, <4>2, <4>3
        <5>2. QED BY <1>2, <3>1, <4>1, <4>2, <4>3, <5>1
      <4>4. QED BY <2>5, <3>1, <4>3
    <3>4. QED BY <3>2, <3>3
  <2>6. QED BY <2>1, <2>3, <2>4, <2>5
<1>7. QED BY <1>3, <1>5, <1>6 DEF LogInv

\* LogInv is inductive: every change of a row goes through Change.
LEMMA NextLogInv == LogInv /\ [ExchangesNext]_exchangeVars => LogInv'
<1> SUFFICES ASSUME LogInv, [ExchangesNext]_exchangeVars PROVE LogInv' OBVIOUS
<1>1. ASSUME UNCHANGED <<exchange, log>> PROVE LogInv'
  BY <1>1 DEF LogInv, RowsOK, Recorded, IsSaved, AuditTrail, Changes
<1>2. ASSUME NEW e \in Exchanges, NEW text \in ExchangeTexts, UpdateExchange(e, text)
      PROVE  LogInv'
  <2>1. [exchange[e] EXCEPT !.text = text] \in Rows
    BY <1>2 DEF UpdateExchange, Change, IsSaved, LogInv, RowsOK, Rows
  <2>2. QED BY <1>2, <2>1, ChangeLogInv DEF UpdateExchange, Actions
<1>3. ASSUME NEW e \in Exchanges, DeleteExchange(e) \/ RestoreExchange(e)
      PROVE  LogInv'
  <2>1. /\ [exchange[e] EXCEPT !.deleted = TRUE] \in Rows
        /\ [exchange[e] EXCEPT !.deleted = FALSE] \in Rows
    BY <1>3 DEF DeleteExchange, RestoreExchange, Change, IsSaved, LogInv, RowsOK, Rows
  <2>2. QED BY <1>3, <2>1, ChangeLogInv DEF DeleteExchange, RestoreExchange, Actions
<1>4. ASSUME NEW e \in Exchanges, NEW masked \in BOOLEAN, MaskResponse(e, masked)
      PROVE  LogInv'
  <2>1. [exchange[e] EXCEPT !.masked = masked] \in Rows
    BY <1>4 DEF MaskResponse, Change, IsSaved, LogInv, RowsOK, Rows
  <2>2. (IF masked THEN "mask" ELSE "unmask") \in Actions BY DEF Actions
  <2>3. QED BY <1>4, <2>1, <2>2, ChangeLogInv DEF MaskResponse
<1>5. CASE SetTitle \/ SuggestTitle \/ FetchChunk \/ ReadAgain
  BY <1>1, <1>5 DEF SetTitle, SuggestTitle, FetchChunk, ReadAgain
<1>6. CASE \E l \in ChunkLimits : SetChunkLimits(l) BY <1>1, <1>6 DEF SetChunkLimits
<1>7. CASE UNCHANGED exchangeVars BY <1>1, <1>7 DEF exchangeVars
<1>8. QED BY <1>2, <1>3, <1>4, <1>5, <1>6, <1>7, SaveLogInv DEF ExchangesNext

\* Whatever the administrator edits, deletes, restores and masks, and in whatever order the
\* models save, the events of an exchange (exchange_admin_events of app/storage.py) lead
\* from the first without a gap to the row as it is now.
THEOREM LogIsHistory == ExchangesSpec => []AuditTrail
<1>1. LogInv => AuditTrail BY DEF LogInv
<1>2. QED BY <1>1, InitLogInv, NextLogInv, PTL DEF ExchangesSpec

(***************************************************************************)
(* Folds over sequences.                                                   *)
(***************************************************************************)

\* Induction, over a set of numbers.
LEMMA SetInduction ==
  ASSUME NEW T, 0 \in T, \A k \in Nat : k \in T => k + 1 \in T
  PROVE  \A k \in Nat : k \in T
<1> DEFINE Bad == Nat \ T
<1> SUFFICES ASSUME Bad # {} PROVE FALSE
  OBVIOUS
<1>1. Bad \subseteq Nat
  OBVIOUS
<1> HIDE DEF Bad
<1>2. PICK n \in Bad : \A m \in Bad : <<m, n>> \notin OpToRel(<, Nat)
  BY <1>1, NatLessThanWellFounded, WFMin
<1>3. n \in Nat /\ n \notin T
  BY DEF Bad
<1>4. n # 0 /\ n - 1 \in Nat /\ n - 1 < n /\ (n - 1) + 1 = n
  BY <1>3
<1>5. n - 1 \in Bad
  BY <1>3, <1>4 DEF Bad
<1>6. <<n - 1, n>> \in OpToRel(<, Nat)
  BY <1>3, <1>4 DEF OpToRel
<1>7. QED
  BY <1>2, <1>5, <1>6

\* The greatest number of a set of 1..n that n is in.
LEMMA MaxUpTo ==
  ASSUME NEW n \in Nat \ {0}, NEW s \in SUBSET (1..n), n \in s
  PROVE  Max(s) = n
<1>1. \A y \in s : n >= y
  OBVIOUS
<1>2. \A x \in s : (\A y \in s : x >= y) => x = n
  BY <1>1
<1>3. QED
  BY <1>1, <1>2 DEF Max

\* A fold over a sequence: the function that FoldLeft chooses exists.
FoldEquation(g, next, base, seq) ==
  g = [s \in SUBSET DOMAIN seq |->
         IF s = {} THEN base ELSE next[<<g[s \ {Max(s)}], seq[Max(s)]>>]]

\* Built number by number: the values on the subsets of 1..n + 1 from those on the
\* subsets of 1..n.
LEMMA FoldExists ==
  ASSUME NEW Acc, NEW Elem, NEW next \in [Acc \X Elem -> Acc], NEW base \in Acc,
         NEW seq \in Seq(Elem)
  PROVE  \E g \in [SUBSET DOMAIN seq -> Acc] : FoldEquation(g, next, base, seq)
<1> DEFINE E(g, n) == \A s \in SUBSET (1..n) :
                        g[s] = IF s = {} THEN base ELSE next[<<g[s \ {Max(s)}], seq[Max(s)]>>]
           T == {n \in Nat : n <= Len(seq) => \E g \in [SUBSET (1..n) -> Acc] : E(g, n)}
<1>1. 0 \in T
  <2> DEFINE g == [s \in SUBSET (1..0) |-> base]
  <2>1. SUBSET (1..0) = {{}}
    OBVIOUS
  <2>2. g \in [SUBSET (1..0) -> Acc] /\ E(g, 0)
    BY <2>1
  <2>3. QED
    BY <2>2
<1>2. ASSUME NEW k \in Nat, k \in T PROVE k + 1 \in T
  <2> DEFINE n == k + 1
  <2>a. n \in Nat
    OBVIOUS
  <2>b. SUFFICES ASSUME n <= Len(seq) PROVE \E g \in [SUBSET (1..n) -> Acc] : E(g, n)
    <3> HIDE DEF E, n
    <3>1. QED
      BY <2>a DEF n
  <2>0. k <= Len(seq) /\ Len(seq) \in Nat
    BY <2>b
  <2>1. PICK g \in [SUBSET (1..k) -> Acc] : E(g, k)
    BY <1>2, <2>0
  <2> DEFINE h == [s \in SUBSET (1..n) |->
                     IF n \in s THEN next[<<g[s \ {n}], seq[n]>>] ELSE g[s]]
  <2>2. seq[n] \in Elem
    BY <2>a, <2>b
  <2>3. ASSUME NEW s \in SUBSET (1..n), n \in s
        PROVE  s \ {n} \in SUBSET (1..k) /\ Max(s) = n
    <3>1. s \ {n} \in SUBSET (1..k)
      OBVIOUS
    <3>2. QED
      BY <2>3, <3>1, MaxUpTo
  <2>4. ASSUME NEW s \in SUBSET (1..n), n \notin s
        PROVE  s \in SUBSET (1..k)
    BY <2>4
  <2>5. h \in [SUBSET (1..n) -> Acc]
    <3> SUFFICES ASSUME NEW s \in SUBSET (1..n) PROVE h[s] \in Acc
      OBVIOUS
    <3>1. CASE n \in s
      <4>1. g[s \ {n}] \in Acc
        BY <2>3, <3>1
      <4>2. QED
        BY <2>2, <3>1, <4>1
    <3>2. CASE n \notin s
      BY <2>4, <3>2
    <3>3. QED
      BY <3>1, <3>2
  <2>6. \A s \in SUBSET (1..k) : s \in SUBSET (1..n) /\ n \notin s /\ h[s] = g[s]
    OBVIOUS
  <2> HIDE DEF h
  <2>7. ASSUME NEW s \in SUBSET (1..n)
        PROVE  h[s] = IF s = {} THEN base ELSE next[<<h[s \ {Max(s)}], seq[Max(s)]>>]
    <3>1. CASE n \in s
      <4>1. h[s \ {n}] = g[s \ {n}] /\ Max(s) = n
        BY <2>3, <2>6, <3>1
      <4>2. h[s] = next[<<g[s \ {n}], seq[n]>>]
        BY <3>1 DEF h
      <4>3. QED
        BY <3>1, <4>1, <4>2
    <3>2. CASE n \notin s
      <4>1. s \in SUBSET (1..k) /\ s \ {Max(s)} \in SUBSET (1..k)
        BY <2>4, <3>2
      <4>2. h[s] = g[s] /\ h[s \ {Max(s)}] = g[s \ {Max(s)}]
        BY <2>6, <4>1
      <4>3. g[s] = IF s = {} THEN base ELSE next[<<g[s \ {Max(s)}], seq[Max(s)]>>]
        BY <2>1, <4>1
      <4>4. QED
        BY <4>2, <4>3
    <3>3. QED
      BY <3>1, <3>2
  <2>8. QED
    BY <2>5, <2>7
<1>3. \A n \in Nat : n \in T
  <2> HIDE DEF T
  <2>1. QED
    BY <1>1, <1>2, SetInduction
<1>4. Len(seq) \in Nat /\ DOMAIN seq = 1..Len(seq) /\ Len(seq) <= Len(seq)
  OBVIOUS
<1>5. PICK g \in [SUBSET (1..Len(seq)) -> Acc] : E(g, Len(seq))
  <2> HIDE DEF E
  <2>1. Len(seq) \in T
    BY <1>3, <1>4
  <2>2. QED
    BY <1>4, <2>1
<1>6. FoldEquation(g, next, base, seq)
  BY <1>4, <1>5 DEF FoldEquation
<1>7. QED
  BY <1>4, <1>5, <1>6

\* A set of numbers up to n that is not empty has a greatest one.
LEMMA MaxIn ==
  ASSUME NEW n \in Nat, NEW s \in SUBSET (1..n), s # {}
  PROVE  Max(s) \in s
<1> DEFINE T == {k \in Nat : \A t \in SUBSET (1..k) : t # {} => Max(t) \in t}
<1>1. 0 \in T
  <2>1. SUBSET (1..0) = {{}}
    OBVIOUS
  <2>2. QED
    BY <2>1
<1>2. ASSUME NEW k \in Nat, k \in T PROVE k + 1 \in T
  <2> SUFFICES ASSUME NEW t \in SUBSET (1..(k + 1)), t # {} PROVE Max(t) \in t
    OBVIOUS
  <2>1. CASE k + 1 \in t
    BY <2>1, MaxUpTo
  <2>2. CASE k + 1 \notin t
    <3>1. t \in SUBSET (1..k)
      BY <2>2
    <3>2. QED
      BY <1>2, <3>1
  <2>3. QED
    BY <2>1, <2>2
<1>3. n \in T
  <2> HIDE DEF T
  <2>1. QED
    BY <1>1, <1>2, SetInduction
<1>4. QED
  BY <1>3

\* The first k numbers: k is the greatest, and without it the first k - 1 are left.
LEMMA FirstNumbers ==
  ASSUME NEW k \in Nat \ {0}
  PROVE  1..k # {} /\ Max(1..k) = k /\ (1..k) \ {k} = 1..(k - 1)
<1>1. k \in 1..k /\ 1..k \in SUBSET (1..k)
  OBVIOUS
<1>2. Max(1..k) = k
  BY <1>1, MaxUpTo
<1>3. (1..k) \ {k} = 1..(k - 1)
  OBVIOUS
<1>4. QED
  BY <1>1, <1>2, <1>3

\* How long the lines are together, line by line.
LEMMA CountPrefixes ==
  ASSUME NEW L \in Seq(Nat)
  PROVE  \E p \in [0..Len(L) -> Nat] :
           /\ p[0] = 0
           /\ \A k \in 1..Len(L) : p[k] = p[k - 1] + L[k]
           /\ FoldLeft(LAMBDA n, length : n + length, 0, L) = p[Len(L)]
<1> DEFINE N == Len(L)
           next == [x \in Nat \X Nat |-> x[1] + x[2]]
           Eq(g) == g = [s \in SUBSET DOMAIN L |->
                           IF s = {} THEN 0 ELSE g[s \ {Max(s)}] + L[Max(s)]]
           G == CHOOSE g : Eq(g)
           p == [k \in 0..N |-> G[1..k]]
<1>1. N \in Nat /\ DOMAIN L = 1..N
  OBVIOUS
<1>2. FoldLeft(LAMBDA n, length : n + length, 0, L) = G[1..N]
  BY <1>1 DEF FoldLeft, MapThenFoldSet
<1>3. PICK g \in [SUBSET DOMAIN L -> Nat] : FoldEquation(g, next, 0, L)
  <2>1. next \in [Nat \X Nat -> Nat]
    OBVIOUS
  <2> HIDE DEF next
  <2>2. QED
    BY <2>1, FoldExists
<1>4. Eq(g)
  <2> SUFFICES ASSUME NEW s \in SUBSET DOMAIN L, s # {}
               PROVE  next[<<g[s \ {Max(s)}], L[Max(s)]>>] = g[s \ {Max(s)}] + L[Max(s)]
    BY <1>3 DEF FoldEquation
  <2>1. Max(s) \in 1..N
    BY <1>1, MaxIn
  <2>2. L[Max(s)] \in Nat /\ g[s \ {Max(s)}] \in Nat
    BY <1>1, <2>1
  <2>3. QED
    BY <2>2
<1>5. Eq(G)
  BY <1>4
<1>6. G[{}] = 0 /\ \A s \in SUBSET (1..N) : s # {} => G[s] = G[s \ {Max(s)}] + L[Max(s)]
  BY <1>1, <1>5
<1> HIDE DEF G
<1>7. G[1..0] = 0
  BY <1>6
<1>8. ASSUME NEW k \in 1..N PROVE G[1..k] = G[1..(k - 1)] + L[k]
  <2>1. 1..k \in SUBSET (1..N) /\ k \in Nat \ {0}
    BY <1>1
  <2>2. 1..k # {} /\ Max(1..k) = k /\ (1..k) \ {k} = 1..(k - 1)
    BY <2>1, FirstNumbers
  <2>3. QED
    BY <1>6, <2>1, <2>2
<1>9. \A k \in Nat : k \in {n \in Nat : n <= N => G[1..n] \in Nat}
  <2> DEFINE T == {n \in Nat : n <= N => G[1..n] \in Nat}
  <2>1. 0 \in T
    BY <1>7
  <2>2. ASSUME NEW k \in Nat, k \in T PROVE k + 1 \in T
    <3> SUFFICES ASSUME k + 1 <= N PROVE G[1..(k + 1)] \in Nat
      OBVIOUS
    <3>1. k <= N /\ k + 1 \in 1..N /\ (k + 1) - 1 = k
      BY <1>1
    <3>2. G[1..(k + 1)] = G[1..k] + L[k + 1]
      BY <1>8, <3>1
    <3>3. QED
      BY <2>2, <3>1, <3>2
  <2> HIDE DEF T
  <2>3. \A k \in Nat : k \in T
    BY <2>1, <2>2, SetInduction
  <2>4. QED
    BY <2>3 DEF T
<1>10. p \in [0..N -> Nat]
  BY <1>1, <1>9
<1>11. p[0] = 0 /\ p[N] = G[1..N] /\ \A k \in 1..N : p[k] = p[k - 1] + L[k]
  BY <1>1, <1>7, <1>8
<1>12. QED
  BY <1>2, <1>10, <1>11

(***************************************************************************)
(* Pieces: the lines of a transcript, cut at the limit of characters.      *)
(***************************************************************************)

Positive == Nat \ {0}
Piece == [from : Nat, to : Nat]

\* The pieces cover the positions from a to b, in order and without a gap; none is empty
\* and none is longer than m.
Tile(pieces, a, b, m) ==
  /\ \A i \in DOMAIN pieces : pieces[i].from < pieces[i].to /\ pieces[i].to <= pieces[i].from + m
  /\ \A i \in 1..(Len(pieces) - 1) : pieces[i + 1].from = pieces[i].to
  /\ Len(pieces) = 0 => a = b
  /\ Len(pieces) > 0 => pieces[1].from = a /\ pieces[Len(pieces)].to = b

\* Two covers, one after the other.
LEMMA TileConcat ==
  ASSUME NEW s \in Seq(Piece), NEW t \in Seq(Piece), NEW a \in Nat, NEW b \in Nat, NEW c \in Nat,
         NEW m \in Positive, Tile(s, a, b, m), Tile(t, b, c, m)
  PROVE  s \o t \in Seq(Piece) /\ Tile(s \o t, a, c, m)
<1> DEFINE u == s \o t
<1>1. /\ u \in Seq(Piece) /\ Len(s) \in Nat /\ Len(t) \in Nat /\ Len(u) = Len(s) + Len(t)
      /\ DOMAIN s = 1..Len(s) /\ DOMAIN t = 1..Len(t) /\ DOMAIN u = 1..(Len(s) + Len(t))
      /\ \A i \in 1..Len(s) : u[i] = s[i]
      /\ \A i \in 1..Len(t) : u[Len(s) + i] = t[i]
  OBVIOUS
<1>2. \A i \in DOMAIN u : i \in 1..Len(s) \/ (i - Len(s) \in 1..Len(t) /\ u[i] = t[i - Len(s)])
  <2> SUFFICES ASSUME NEW i \in DOMAIN u, i \notin 1..Len(s)
               PROVE  i - Len(s) \in 1..Len(t) /\ u[i] = t[i - Len(s)]
    OBVIOUS
  <2>1. i - Len(s) \in 1..Len(t) /\ Len(s) + (i - Len(s)) = i
    BY <1>1
  <2>2. QED
    BY <1>1, <2>1
<1> HIDE DEF u
<1>3. \A i \in DOMAIN u : u[i].from < u[i].to /\ u[i].to <= u[i].from + m
  BY <1>1, <1>2 DEF Tile
<1>4. ASSUME NEW i \in 1..(Len(u) - 1) PROVE u[i + 1].from = u[i].to
  <2>1. CASE i + 1 <= Len(s)
    <3>1. u[i] = s[i] /\ u[i + 1] = s[i + 1] /\ i \in 1..(Len(s) - 1)
      BY <1>1, <2>1
    <3>2. QED
      BY <3>1 DEF Tile
  <2>2. CASE i = Len(s)
    <3>1. u[i] = s[Len(s)] /\ u[i + 1] = t[1] /\ Len(s) > 0 /\ Len(t) > 0
      BY <1>1, <2>2
    <3>2. QED
      BY <3>1 DEF Tile
  <2>3. CASE i > Len(s)
    <3> DEFINE j == i - Len(s)
    <3>1. j \in 1..(Len(t) - 1) /\ Len(s) + j = i /\ Len(s) + (j + 1) = i + 1
      BY <1>1, <2>3
    <3>2. u[i] = t[j] /\ u[i + 1] = t[j + 1]
      BY <1>1, <3>1
    <3>3. t[j + 1].from = t[j].to
      BY <3>1 DEF Tile
    <3>4. QED
      BY <3>2, <3>3
  <2>4. i + 1 <= Len(s) \/ i = Len(s) \/ i > Len(s)
    <3>1. i \in Nat /\ Len(s) \in Nat
      BY <1>1
    <3>2. QED
      BY <3>1
  <2>5. QED
    BY <2>1, <2>2, <2>3, <2>4
<1>5. (Len(u) = 0 => a = c) /\ (Len(u) > 0 => u[1].from = a /\ u[Len(u)].to = c)
  <2>1. CASE Len(s) = 0 /\ Len(t) = 0
    BY <1>1, <2>1 DEF Tile
  <2>2. CASE Len(s) = 0 /\ Len(t) > 0
    <3>1. u[1] = t[1] /\ u[Len(u)] = t[Len(t)] /\ Len(u) > 0
      BY <1>1, <2>2
    <3>2. QED
      BY <2>2, <3>1 DEF Tile
  <2>3. CASE Len(s) > 0 /\ Len(t) = 0
    <3>1. u[1] = s[1] /\ u[Len(u)] = s[Len(s)] /\ Len(u) > 0
      BY <1>1, <2>3
    <3>2. QED
      BY <2>3, <3>1 DEF Tile
  <2>4. CASE Len(s) > 0 /\ Len(t) > 0
    <3>1. u[1] = s[1] /\ u[Len(u)] = t[Len(t)] /\ Len(u) > 0
      BY <1>1, <2>4
    <3>2. QED
      BY <2>4, <3>1 DEF Tile
  <2>5. QED
    BY <1>1, <2>1, <2>2, <2>3, <2>4
<1>6. Tile(u, a, c, m)
  BY <1>3, <1>4, <1>5 DEF Tile
<1>7. QED
  BY <1>1, <1>6 DEF u

\* More pieces of m characters have more characters.
LEMMA Monotone ==
  ASSUME NEW i \in Nat, NEW j \in Nat, NEW m \in Nat, i <= j
  PROVE  i * m \in Nat /\ i * m <= j * m /\ (i + 1) * m = i * m + m
<1>1. i * m \in Nat /\ (j - i) * m \in Nat /\ (j - i) \in Nat
  OBVIOUS
<1>2. (j - i) * m = j * m - i * m /\ (i + 1) * m = i * m + m
  OBVIOUS
<1>3. QED
  BY <1>1, <1>2

\* How many pieces a line of a given length takes.
LEMMA Quotient ==
  ASSUME NEW length \in Positive, NEW m \in Positive
  PROVE  LET q == (length + m - 1) \div m
         IN q \in Positive /\ (q - 1) * m < length /\ length <= q * m
<1> DEFINE n == length + m - 1
           q == n \div m
<1>1. n \in Nat /\ m \in Nat /\ m > 0 /\ length >= 1
  BY DEF Positive
<1>2. q \in Int /\ q * m <= n /\ n < q * m + m
  BY <1>1
<1>3. q > 0
  BY <1>1, <1>2 DEF Positive
<1>4. (q - 1) * m = q * m - m
  BY <1>1, <1>2
<1>5. QED
  BY <1>1, <1>2, <1>3, <1>4 DEF Positive

\* The end of a piece is the end of the line or a multiple of the limit.
LEMMA MinOfTwo ==
  ASSUME NEW x \in Int, NEW y \in Int
  PROVE  Min({x, y}) = IF x <= y THEN x ELSE y
<1>1. CASE x <= y
  <2>1. \A z \in {x, y} : (\A w \in {x, y} : z <= w) => z = x
    BY <1>1
  <2>2. \A w \in {x, y} : x <= w
    BY <1>1
  <2>3. QED
    BY <1>1, <2>1, <2>2 DEF Min
<1>2. CASE ~(x <= y)
  <2>1. \A z \in {x, y} : (\A w \in {x, y} : z <= w) => z = y
    BY <1>2
  <2>2. \A w \in {x, y} : y <= w
    BY <1>2
  <2>3. QED
    BY <1>2, <2>1, <2>2 DEF Min
<1>3. QED
  BY <1>1, <1>2

\* A line, cut into pieces, is covered by them.
LEMMA PiecesTile ==
  ASSUME NEW a \in Nat, NEW length \in Positive, NEW m \in Positive
  PROVE  Pieces(a, length, m) \in Seq(Piece) /\ Tile(Pieces(a, length, m), a, a + length, m)
<1> DEFINE q == (length + m - 1) \div m
           pieces == Pieces(a, length, m)
<1>1. q \in Positive /\ (q - 1) * m < length /\ length <= q * m
  BY Quotient
<1>2. pieces = [i \in 1..q |-> [from |-> a + (i - 1) * m, to |-> a + Min({i * m, length})]]
  BY DEF Pieces
<1> HIDE DEF q, pieces
<1>3. length \in Nat /\ length > 0 /\ m \in Nat /\ m > 0 /\ q \in Nat /\ q >= 1
  BY <1>1 DEF Positive
<1>4. ASSUME NEW i \in 1..q
      PROVE  /\ pieces[i].from = a + (i - 1) * m /\ (i - 1) * m \in Nat /\ i * m \in Nat
             /\ pieces[i].to = a + (IF i = q THEN length ELSE i * m)
             /\ i * m = (i - 1) * m + m
             /\ i # q => i * m < length
  <2>1. (i - 1) \in Nat /\ i \in Nat /\ i <= q /\ (i - 1) + 1 = i
    BY <1>3
  <2>2. (i - 1) * m \in Nat /\ i * m \in Nat /\ i * m = (i - 1) * m + m
    BY <1>3, <2>1, Monotone
  <2>3. i # q => i * m < length
    <3> SUFFICES ASSUME i # q PROVE i * m < length
      OBVIOUS
    <3>1. i <= q - 1 /\ q - 1 \in Nat
      BY <1>3, <2>1
    <3>2. i * m <= (q - 1) * m /\ (q - 1) * m \in Nat
      BY <1>3, <2>1, <3>1, Monotone
    <3>3. QED
      BY <1>1, <1>3, <2>2, <3>2
  <2>4. Min({i * m, length}) = IF i = q THEN length ELSE i * m
    <3>1. Min({i * m, length}) = IF i * m <= length THEN i * m ELSE length
      BY <1>3, <2>2, MinOfTwo
    <3>2. CASE i = q
      BY <1>1, <1>3, <2>2, <3>1, <3>2
    <3>3. CASE i # q
      BY <1>3, <2>2, <2>3, <3>1, <3>3
    <3>4. QED
      BY <3>2, <3>3
  <2>5. pieces[i].from = a + (i - 1) * m /\ pieces[i].to = a + Min({i * m, length})
    BY <1>2
  <2>6. QED
    BY <2>2, <2>3, <2>4, <2>5
<1>5. pieces \in Seq(Piece) /\ Len(pieces) = q /\ DOMAIN pieces = 1..q
  <2>1. \A i \in 1..q : [from |-> a + (i - 1) * m, to |-> a + Min({i * m, length})] \in Piece
    <3> SUFFICES ASSUME NEW i \in 1..q
                 PROVE  a + (i - 1) * m \in Nat /\ a + Min({i * m, length}) \in Nat
      BY DEF Piece
    <3>1. pieces[i].from = a + (i - 1) * m /\ pieces[i].to = a + Min({i * m, length})
      BY <1>2
    <3>2. QED
      BY <1>3, <1>4, <3>1
  <2>2. pieces \in [1..q -> Piece]
    BY <1>2, <2>1
  <2>3. QED
    BY <1>3, <2>2
<1>6. ASSUME NEW i \in 1..q
      PROVE  pieces[i].from < pieces[i].to /\ pieces[i].to <= pieces[i].from + m
  <2>1. CASE i = q
    BY <1>1, <1>3, <1>4, <2>1
  <2>2. CASE i # q
    <3> DEFINE x == (i - 1) * m
               y == i * m
    <3>1. /\ pieces[i].from = a + x /\ pieces[i].to = a + y
          /\ x \in Nat /\ y \in Nat /\ y = x + m
      BY <1>4, <2>2
    <3> HIDE DEF x, y
    <3>2. QED
      BY <1>3, <3>1
  <2>3. QED
    BY <2>1, <2>2
<1>7. ASSUME NEW i \in 1..(q - 1) PROVE pieces[i + 1].from = pieces[i].to
  <2>1. i \in 1..q /\ i + 1 \in 1..q /\ (i + 1) - 1 = i /\ i # q
    BY <1>3
  <2>2. pieces[i].to = a + i * m
    BY <1>4, <2>1
  <2>3. pieces[i + 1].from = a + ((i + 1) - 1) * m
    BY <1>4, <2>1
  <2>4. QED
    BY <2>1, <2>2, <2>3
<1>8. pieces[1].from = a /\ pieces[q].to = a + length
  <2>1. 1 \in 1..q /\ q \in 1..q
    BY <1>3
  <2>2. pieces[1].from = a + (1 - 1) * m /\ pieces[q].to = a + length
    BY <1>4, <2>1
  <2>3. QED
    BY <1>3, <2>2
<1>9. Tile(pieces, a, a + length, m)
  BY <1>3, <1>5, <1>6, <1>7, <1>8 DEF Tile
<1>10. QED
  BY <1>5, <1>9 DEF pieces

\* What the fold of Segments carries.
Cursors == [cursor : Nat, segments : Seq(Piece)]

CutLine(acc, length, m) ==
  [cursor |-> acc.cursor + length, segments |-> acc.segments \o Pieces(acc.cursor, length, m)]

\* Cutting lines covers what the lines are together.
LEMMA SegmentsTile ==
  ASSUME NEW L \in Seq(Positive), NEW m \in Positive
  PROVE  LET total == FoldLeft(LAMBDA n, length : n + length, 0, L)
         IN total \in Nat /\ Segments(L, m) \in Seq(Piece) /\ Tile(Segments(L, m), 0, total, m)
            /\ (Len(L) > 0 => total > 0)
<1> DEFINE N == Len(L)
           next == [x \in Cursors \X Positive |-> CutLine(x[1], x[2], m)]
           start == [cursor |-> 0, segments |-> << >>]
           Eq(g) == g = [s \in SUBSET DOMAIN L |->
                           IF s = {} THEN start ELSE CutLine(g[s \ {Max(s)}], L[Max(s)], m)]
           G == CHOOSE g : Eq(g)
<1>1. N \in Nat /\ DOMAIN L = 1..N /\ L \in Seq(Nat)
  BY DEF Positive
<1>2. PICK count \in [0..N -> Nat] :
        /\ count[0] = 0
        /\ \A k \in 1..N : count[k] = count[k - 1] + L[k]
        /\ FoldLeft(LAMBDA n, length : n + length, 0, L) = count[N]
  BY <1>1, CountPrefixes
<1>3. Segments(L, m) = G[1..N].segments
  BY <1>1 DEF Segments, FoldLeft, MapThenFoldSet, CutLine
<1>4. PICK g \in [SUBSET DOMAIN L -> Cursors] : FoldEquation(g, next, start, L)
  <2>1. ASSUME NEW acc \in Cursors, NEW length \in Positive
        PROVE  CutLine(acc, length, m) \in Cursors
    <3>1. acc.cursor \in Nat /\ acc.segments \in Seq(Piece) /\ length \in Nat
      BY DEF Cursors, Positive
    <3>2. Pieces(acc.cursor, length, m) \in Seq(Piece)
      BY <3>1, PiecesTile
    <3>3. acc.segments \o Pieces(acc.cursor, length, m) \in Seq(Piece)
      BY <3>1, <3>2
    <3>4. QED
      BY <3>1, <3>3 DEF CutLine, Cursors
  <2>2. next \in [Cursors \X Positive -> Cursors]
    BY <2>1
  <2>3. start \in Cursors
    BY DEF Cursors
  <2> HIDE DEF next, start
  <2>4. QED
    BY <2>2, <2>3, FoldExists
<1>5. Eq(g)
  <2> SUFFICES ASSUME NEW s \in SUBSET DOMAIN L, s # {}
               PROVE  next[<<g[s \ {Max(s)}], L[Max(s)]>>] = CutLine(g[s \ {Max(s)}], L[Max(s)], m)
    BY <1>4 DEF FoldEquation
  <2>1. Max(s) \in 1..N
    BY <1>1, MaxIn
  <2>2. L[Max(s)] \in Positive /\ g[s \ {Max(s)}] \in Cursors
    BY <1>1, <2>1
  <2>3. QED
    BY <2>2
<1>6. Eq(G)
  BY <1>5
<1>7. /\ G[{}] = start
      /\ \A s \in SUBSET (1..N) : s # {} => G[s] = CutLine(G[s \ {Max(s)}], L[Max(s)], m)
  BY <1>1, <1>6
<1> HIDE DEF G
<1>8. ASSUME NEW k \in 1..N PROVE G[1..k] = CutLine(G[1..(k - 1)], L[k], m)
  <2>1. 1..k \in SUBSET (1..N) /\ k \in Nat \ {0}
    BY <1>1
  <2>2. 1..k # {} /\ Max(1..k) = k /\ (1..k) \ {k} = 1..(k - 1)
    BY <2>1, FirstNumbers
  <2>3. QED
    BY <1>7, <2>1, <2>2
<1> DEFINE Covered(k) == /\ G[1..k] \in Cursors /\ G[1..k].cursor = count[k]
                         /\ Tile(G[1..k].segments, 0, count[k], m)
                         /\ k > 0 => count[k] > 0
           T == {k \in Nat : k <= N => Covered(k)}
<1>9. 0 \in T
  <2>1. G[1..0] = start
    BY <1>7
  <2>2. start \in Cursors /\ start.cursor = 0 /\ start.segments = << >>
    BY DEF Cursors
  <2>3. Tile(<< >>, 0, 0, m)
    BY DEF Tile
  <2>4. QED
    BY <1>2, <2>1, <2>2, <2>3
<1>10. ASSUME NEW k \in Nat, k \in T PROVE k + 1 \in T
  <2> SUFFICES ASSUME k + 1 <= N PROVE Covered(k + 1)
    OBVIOUS
  <2>1. k <= N /\ k + 1 \in 1..N /\ (k + 1) - 1 = k /\ k \in 0..N /\ k + 1 \in 0..N
    BY <1>1
  <2>2. Covered(k)
    BY <1>10, <2>1
  <2> DEFINE acc == G[1..k]
             length == L[k + 1]
             pieces == Pieces(acc.cursor, length, m)
  <2>3. length \in Positive /\ length \in Nat /\ length > 0
    BY <1>1, <2>1 DEF Positive
  <2>4. acc.cursor \in Nat /\ acc.segments \in Seq(Piece) /\ acc.cursor = count[k] /\ count[k] \in Nat
    BY <1>2, <2>1, <2>2 DEF Cursors
  <2>5. G[1..(k + 1)] = CutLine(acc, length, m)
    BY <1>8, <2>1
  <2>6. count[k + 1] = count[k] + length /\ count[k + 1] \in Nat
    BY <1>2, <2>1, <2>3
  <2> HIDE DEF length
  <2>7. pieces \in Seq(Piece) /\ Tile(pieces, count[k], count[k] + length, m)
    BY <2>3, <2>4, PiecesTile
  <2>8. /\ acc.segments \o pieces \in Seq(Piece)
        /\ Tile(acc.segments \o pieces, 0, count[k + 1], m)
    <3> HIDE DEF acc, pieces
    <3>1. Tile(acc.segments, 0, count[k], m)
      BY <2>2 DEF acc
    <3>2. Tile(pieces, count[k], count[k + 1], m)
      BY <2>6, <2>7
    <3>3. QED
      BY <2>4, <2>6, <2>7, <3>1, <3>2, TileConcat
  <2> HIDE DEF acc, pieces
  <2>9. /\ CutLine(acc, length, m).cursor = count[k + 1]
        /\ CutLine(acc, length, m).segments = acc.segments \o pieces
        /\ CutLine(acc, length, m) \in Cursors
    <3>1. CutLine(acc, length, m) = [cursor |-> count[k + 1], segments |-> acc.segments \o pieces]
      BY <2>4, <2>6 DEF CutLine, pieces
    <3>2. QED
      BY <2>6, <2>8, <3>1 DEF Cursors
  <2>10. count[k + 1] > 0
    BY <2>3, <2>4, <2>6
  <2>11. QED
    BY <2>5, <2>8, <2>9, <2>10
<1>11. Covered(N)
  <2> HIDE DEF T
  <2>1. N \in T
    BY <1>1, <1>9, <1>10, SetInduction
  <2>2. QED
    BY <1>1, <2>1 DEF T
<1>12. G[1..N].segments \in Seq(Piece)
  BY <1>11 DEF Cursors
<1>13. count[N] \in Nat
  <2>1. N \in 0..N
    BY <1>1
  <2>2. QED
    BY <1>2, <2>1
<1> HIDE DEF Covered
<1>14. QED
  BY <1>2, <1>3, <1>11, <1>12, <1>13 DEF Covered

(***************************************************************************)
(* Chunks: the segments, gathered up to both limits.                       *)
(***************************************************************************)

ChunkRows == [from : Nat, to : Nat, lines : Nat]
ChunkStates == [chunks : Seq(ChunkRows), open : ChunkRows]
Limits == [chars : Positive, lines : Positive]

\* A chunk that begins where the last one ends.
LEMMA AppendTile ==
  ASSUME NEW s \in Seq(ChunkRows), NEW row \in ChunkRows, NEW b \in Nat, NEW m \in Positive,
         Len(s) > 0, Tile(s, 0, b, m), row.from = b, row.from < row.to, row.to <= row.from + m
  PROVE  Tile(Append(s, row), 0, row.to, m)
<1> DEFINE u == Append(s, row)
<1>1. /\ Len(s) \in Nat /\ Len(u) = Len(s) + 1 /\ DOMAIN s = 1..Len(s) /\ DOMAIN u = 1..(Len(s) + 1)
      /\ u[Len(s) + 1] = row
      /\ \A i \in 1..Len(s) : u[i] = s[i]
  OBVIOUS
<1> HIDE DEF u
<1>2. \A i \in DOMAIN u : u[i].from < u[i].to /\ u[i].to <= u[i].from + m
  BY <1>1 DEF Tile
<1>3. ASSUME NEW i \in 1..(Len(u) - 1) PROVE u[i + 1].from = u[i].to
  <2>1. CASE i = Len(s)
    BY <1>1, <2>1 DEF Tile
  <2>2. CASE i # Len(s)
    <3>1. i \in 1..(Len(s) - 1) /\ u[i] = s[i] /\ u[i + 1] = s[i + 1]
      BY <1>1, <2>2
    <3>2. QED
      BY <3>1 DEF Tile
  <2>3. QED
    BY <2>1, <2>2
<1>4. u[1] = s[1] /\ u[Len(u)] = row
  BY <1>1
<1>5. Tile(u, 0, row.to, m)
  BY <1>1, <1>2, <1>3, <1>4 DEF Tile
<1>6. QED
  BY <1>5 DEF u

\* The last chunk of a sequence grows.
LEMMA GrowTile ==
  ASSUME NEW s \in Seq(ChunkRows), NEW row \in ChunkRows, NEW new \in ChunkRows, NEW b \in Nat,
         NEW m \in Positive,
         Tile(Append(s, row), 0, b, m), new.from = row.from, row.to < new.to, new.to <= new.from + m
  PROVE  Tile(Append(s, new), 0, new.to, m)
<1> DEFINE u == Append(s, row)
           v == Append(s, new)
           n == Len(s) + 1
<1>1. /\ Len(s) \in Nat /\ n \in Nat /\ n > 0 /\ Len(u) = n /\ Len(v) = n
      /\ DOMAIN u = 1..n /\ DOMAIN v = 1..n
      /\ u[n] = row /\ v[n] = new
      /\ \A i \in 1..n : i # n => u[i] = v[i]
  OBVIOUS
<1> HIDE DEF u, v, n
<1>2. ASSUME NEW i \in 1..n PROVE v[i].from < v[i].to /\ v[i].to <= v[i].from + m
  <2>1. CASE i = n
    <3>1. row.from < row.to
      BY <1>1 DEF Tile, u
    <3>2. row.from \in Nat /\ row.to \in Nat /\ new.to \in Nat /\ new.from \in Nat
      BY DEF ChunkRows
    <3>3. QED
      BY <1>1, <2>1, <3>1, <3>2
  <2>2. CASE i # n
    BY <1>1, <2>2 DEF Tile, u
  <2>3. QED
    BY <2>1, <2>2
<1>3. ASSUME NEW i \in 1..(n - 1) PROVE v[i + 1].from = v[i].to
  <2>1. i \in 1..n /\ i + 1 \in 1..n /\ i # n
    BY <1>1
  <2>2. u[i + 1].from = u[i].to
    BY <1>1, <2>1 DEF Tile, u
  <2>3. v[i + 1].from = u[i + 1].from
    BY <1>1, <2>1
  <2>4. QED
    BY <1>1, <2>1, <2>2, <2>3
<1>4. v[1].from = 0
  <2>1. u[1].from = 0
    BY <1>1 DEF Tile, u
  <2>2. v[1].from = u[1].from
    BY <1>1
  <2>3. QED
    BY <2>1, <2>2
<1>5. Tile(v, 0, new.to, m)
  BY <1>1, <1>2, <1>3, <1>4 DEF Tile
<1>6. QED
  BY <1>5 DEF v

\* A single chunk.
LEMMA OneTile ==
  ASSUME NEW row \in ChunkRows, NEW m \in Positive, row.from = 0, 0 < row.to, row.to <= m
  PROVE  Tile(Append(<< >>, row), 0, row.to, m)
<1>1. Append(<< >>, row) = <<row>>
  OBVIOUS
<1>2. m \in Nat
  BY DEF Positive
<1>3. QED
  BY <1>1, <1>2 DEF Tile, ChunkRows

\* The chunks so far and the open one, after a segment that ends at b.
ChunksOK(acc, b, l) ==
  /\ acc \in ChunkStates
  /\ acc.open.lines \in 1..l.lines
  /\ \A i \in DOMAIN acc.chunks : acc.chunks[i].lines \in 1..l.lines
  /\ Tile(Append(acc.chunks, acc.open), 0, b, l.chars)
  /\ acc.open.to = b

NoChunks == [chunks |-> << >>, open |-> NoChunk]

\* AddSegment, of the first segment.
LEMMA FirstSegment ==
  ASSUME NEW l \in Limits, NEW segment \in Piece, segment.from = 0, 0 < segment.to,
         segment.to <= l.chars
  PROVE  ChunksOK(AddSegment(NoChunks, segment, l), segment.to, l)
<1> DEFINE row == [from |-> segment.from, to |-> segment.to, lines |-> 1]
<1>1. row \in ChunkRows /\ row.from = 0 /\ row.to = segment.to /\ row.lines = 1
  BY DEF ChunkRows, Piece
<1>2. AddSegment(NoChunks, segment, l) = [chunks |-> << >>, open |-> row]
  BY DEF AddSegment, NoChunks, NoChunk
<1>3. l.chars \in Positive /\ l.lines \in Nat /\ l.lines >= 1
  BY DEF Limits, Positive
<1> HIDE DEF row
<1>4. Tile(Append(<< >>, row), 0, segment.to, l.chars)
  BY <1>1, <1>3, OneTile
<1>5. QED
  BY <1>1, <1>2, <1>3, <1>4 DEF ChunksOK, ChunkStates

\* AddSegment, of the next segment: with or without a new chunk.
LEMMA NextSegment ==
  ASSUME NEW l \in Limits, NEW acc, NEW b \in Nat, ChunksOK(acc, b, l), NEW segment \in Piece,
         segment.from = b, b < segment.to, segment.to <= b + l.chars
  PROVE  ChunksOK(AddSegment(acc, segment, l), segment.to, l)
<1>1. /\ l.chars \in Positive /\ l.chars \in Nat /\ l.lines \in Nat /\ l.lines >= 1
      /\ segment.from \in Nat /\ segment.to \in Nat
  BY DEF Limits, Positive, Piece
<1>2. /\ acc.chunks \in Seq(ChunkRows) /\ acc.open \in ChunkRows /\ acc.open.to = b
      /\ acc.open.lines \in 1..l.lines /\ acc.open.lines > 0
      /\ acc.open.from \in Nat /\ acc.open.to \in Nat /\ acc.open.lines \in Nat
      /\ Tile(Append(acc.chunks, acc.open), 0, b, l.chars)
      /\ \A i \in DOMAIN acc.chunks : acc.chunks[i].lines \in 1..l.lines
  BY DEF ChunksOK, ChunkStates, ChunkRows
<1>3. acc = [chunks |-> acc.chunks, open |-> acc.open]
  BY DEF ChunksOK, ChunkStates
<1>4. CASE acc.open.lines >= l.lines \/ segment.to - acc.open.from > l.chars
  <2> DEFINE row == [from |-> segment.from, to |-> segment.to, lines |-> 1]
             full == Append(acc.chunks, acc.open)
  <2>1. AddSegment(acc, segment, l) = [chunks |-> full, open |-> row]
    <3>1. acc.open.lines > 0 /\ acc.open.lines # 0
      BY <1>2
    <3>2. Flush(acc, l) = full
      BY <3>1 DEF Flush
    <3>3. QED
      BY <1>4, <3>1, <3>2 DEF AddSegment
  <2>2. row \in ChunkRows /\ row.from = b /\ row.to = segment.to /\ row.lines = 1
    BY <1>1 DEF ChunkRows
  <2>3. full \in Seq(ChunkRows) /\ Len(full) > 0
    BY <1>2
  <2>4. \A i \in DOMAIN full : full[i].lines \in 1..l.lines
    BY <1>2
  <2> HIDE DEF row, full
  <2>5. Tile(Append(full, row), 0, segment.to, l.chars)
    BY <1>1, <1>2, <2>2, <2>3, AppendTile DEF full
  <2>6. QED
    BY <1>1, <2>1, <2>2, <2>3, <2>4, <2>5 DEF ChunksOK, ChunkStates
<1>5. CASE ~(acc.open.lines >= l.lines \/ segment.to - acc.open.from > l.chars)
  <2> DEFINE row == [from |-> acc.open.from, to |-> segment.to, lines |-> acc.open.lines + 1]
  <2>1. AddSegment(acc, segment, l) = [acc EXCEPT !.open = row]
    BY <1>2, <1>5 DEF AddSegment
  <2>2. /\ row \in ChunkRows /\ row.from = acc.open.from /\ row.to = segment.to
        /\ row.lines = acc.open.lines + 1
    BY <1>1, <1>2 DEF ChunkRows
  <2> HIDE DEF row
  <2>3. [acc EXCEPT !.open = row] = [chunks |-> acc.chunks, open |-> row]
    BY <1>3
  <2>4. row.lines \in 1..l.lines /\ row.to <= row.from + l.chars /\ acc.open.to < row.to
    BY <1>1, <1>2, <1>5, <2>2
  <2>5. Tile(Append(acc.chunks, row), 0, segment.to, l.chars)
    BY <1>1, <1>2, <2>2, <2>4, GrowTile
  <2>6. QED
    BY <1>2, <2>1, <2>2, <2>3, <2>4, <2>5 DEF ChunksOK, ChunkStates
<1>6. QED
  BY <1>4, <1>5

\* AddSegment, of any state.
LEMMA AddSegmentType ==
  ASSUME NEW acc \in ChunkStates, NEW segment \in Piece, NEW l \in Limits
  PROVE  AddSegment(acc, segment, l) \in ChunkStates
<1>1. /\ acc.chunks \in Seq(ChunkRows) /\ acc.open \in ChunkRows
      /\ acc.open.from \in Nat /\ acc.open.lines \in Nat
      /\ segment.from \in Nat /\ segment.to \in Nat
      /\ acc = [chunks |-> acc.chunks, open |-> acc.open]
  BY DEF ChunkStates, ChunkRows, Piece
<1>2. Flush(acc, l) \in Seq(ChunkRows)
  BY <1>1 DEF Flush
<1>3. [from |-> segment.from, to |-> segment.to, lines |-> 1] \in ChunkRows
  BY <1>1 DEF ChunkRows
<1>4. [chunks |-> Flush(acc, l),
       open |-> [from |-> segment.from, to |-> segment.to, lines |-> 1]] \in ChunkStates
  BY <1>2, <1>3 DEF ChunkStates
<1> DEFINE row == [from  |-> IF acc.open.lines = 0 THEN segment.from ELSE acc.open.from,
                   to    |-> segment.to,
                   lines |-> acc.open.lines + 1]
<1>5. row \in ChunkRows
  BY <1>1 DEF ChunkRows
<1>6. [acc EXCEPT !.open = row] \in ChunkStates
  <2> HIDE DEF row
  <2>1. [acc EXCEPT !.open = row] = [chunks |-> acc.chunks, open |-> row]
    BY <1>1
  <2>2. QED
    BY <1>1, <1>5, <2>1 DEF ChunkStates
<1>7. \/ AddSegment(acc, segment, l) = [chunks |-> Flush(acc, l),
           open |-> [from |-> segment.from, to |-> segment.to, lines |-> 1]]
      \/ AddSegment(acc, segment, l) = [acc EXCEPT !.open = row]
  BY DEF AddSegment
<1>8. QED
  BY <1>4, <1>6, <1>7

\* chunk_text: the chunks of segments that cover a text cover it too, within both limits.
LEMMA ChunksTile ==
  ASSUME NEW s \in Seq(Piece), NEW total \in Nat, NEW l \in Limits, Len(s) > 0,
         Tile(s, 0, total, l.chars)
  PROVE  LET folded == FoldLeft(LAMBDA acc, segment : AddSegment(acc, segment, l), NoChunks, s)
         IN ChunksOK(folded, total, l)
<1> DEFINE N == Len(s)
           next == [x \in ChunkStates \X Piece |-> AddSegment(x[1], x[2], l)]
           Eq(g) == g = [t \in SUBSET DOMAIN s |->
                           IF t = {} THEN NoChunks ELSE AddSegment(g[t \ {Max(t)}], s[Max(t)], l)]
           G == CHOOSE g : Eq(g)
<1>1. N \in Nat /\ N > 0 /\ DOMAIN s = 1..N
  OBVIOUS
<1>2. FoldLeft(LAMBDA acc, segment : AddSegment(acc, segment, l), NoChunks, s) = G[1..N]
  BY <1>1 DEF FoldLeft, MapThenFoldSet
<1>3. NoChunks \in ChunkStates
  BY DEF NoChunks, NoChunk, ChunkStates, ChunkRows
<1>4. PICK g \in [SUBSET DOMAIN s -> ChunkStates] : FoldEquation(g, next, NoChunks, s)
  <2>1. next \in [ChunkStates \X Piece -> ChunkStates]
    BY AddSegmentType
  <2> HIDE DEF next
  <2>2. QED
    BY <1>3, <2>1, FoldExists
<1>5. Eq(g)
  <2> SUFFICES ASSUME NEW t \in SUBSET DOMAIN s, t # {}
               PROVE  next[<<g[t \ {Max(t)}], s[Max(t)]>>] = AddSegment(g[t \ {Max(t)}], s[Max(t)], l)
    BY <1>4 DEF FoldEquation
  <2>1. Max(t) \in 1..N
    BY <1>1, MaxIn
  <2>2. s[Max(t)] \in Piece /\ g[t \ {Max(t)}] \in ChunkStates
    BY <1>1, <2>1
  <2>3. QED
    BY <2>2
<1>6. Eq(G)
  BY <1>5
<1>7. /\ G[{}] = NoChunks
      /\ \A t \in SUBSET (1..N) : t # {} => G[t] = AddSegment(G[t \ {Max(t)}], s[Max(t)], l)
  BY <1>1, <1>6
<1> HIDE DEF G
<1>8. ASSUME NEW k \in 1..N PROVE G[1..k] = AddSegment(G[1..(k - 1)], s[k], l)
  <2>1. 1..k \in SUBSET (1..N) /\ k \in Nat \ {0}
    BY <1>1
  <2>2. 1..k # {} /\ Max(1..k) = k /\ (1..k) \ {k} = 1..(k - 1)
    BY <2>1, FirstNumbers
  <2>3. QED
    BY <1>7, <2>1, <2>2
<1>9. /\ \A i \in 1..N : s[i] \in Piece /\ s[i].from < s[i].to /\ s[i].to <= s[i].from + l.chars
      /\ \A i \in 1..(N - 1) : s[i + 1].from = s[i].to
      /\ s[1].from = 0 /\ s[N].to = total
  BY <1>1 DEF Tile
<1>10. l.chars \in Nat
  BY DEF Limits, Positive
<1> DEFINE T == {k \in Nat : k + 1 <= N => ChunksOK(G[1..(k + 1)], s[k + 1].to, l)}
<1>11. 0 \in T
  <2>1. G[1..1] = AddSegment(NoChunks, s[1], l)
    <3>1. 1 \in 1..N /\ 1..(1 - 1) = {}
      BY <1>1
    <3>2. QED
      BY <1>7, <1>8, <3>1
  <2>2. /\ s[1] \in Piece /\ s[1].from = 0 /\ 0 < s[1].to /\ s[1].to <= l.chars
        /\ s[1].to \in Nat
    <3>1. 1 \in 1..N
      BY <1>1
    <3>2. s[1] \in Piece /\ s[1].from = 0 /\ s[1].from < s[1].to /\ s[1].to <= s[1].from + l.chars
      BY <1>9, <3>1
    <3>3. QED
      BY <1>10, <3>2 DEF Piece
  <2>3. ChunksOK(G[1..1], s[1].to, l)
    BY <2>1, <2>2, FirstSegment
  <2>4. QED
    BY <2>3
<1>12. ASSUME NEW k \in Nat, k \in T PROVE k + 1 \in T
  <2> DEFINE j == k + 1
  <2> SUFFICES ASSUME j + 1 <= N PROVE ChunksOK(G[1..(j + 1)], s[j + 1].to, l)
    OBVIOUS
  <2>1. j \in 1..N /\ j + 1 \in 1..N /\ j \in 1..(N - 1) /\ (j + 1) - 1 = j
    BY <1>1
  <2>2. ChunksOK(G[1..j], s[j].to, l)
    BY <1>12, <2>1
  <2>3. G[1..(j + 1)] = AddSegment(G[1..j], s[j + 1], l)
    BY <1>8, <2>1
  <2> HIDE DEF j
  <2>4. /\ s[j + 1] \in Piece /\ s[j + 1].from = s[j].to /\ s[j].to \in Nat
        /\ s[j].to < s[j + 1].to /\ s[j + 1].to <= s[j].to + l.chars
    BY <1>9, <2>1 DEF Piece
  <2>5. QED
    BY <2>2, <2>3, <2>4, NextSegment
<1>13. ChunksOK(G[1..N], s[N].to, l)
  <2> HIDE DEF T
  <2>1. N - 1 \in Nat /\ (N - 1) + 1 = N
    BY <1>1
  <2>2. N - 1 \in T
    BY <1>11, <1>12, <2>1, SetInduction
  <2>3. QED
    BY <2>1, <2>2 DEF T
<1>14. QED
  BY <1>2, <1>9, <1>13

\* The lines of a transcript have characters, and there is one: the header.
IsTranscript(t) == LineLengths(t) \in Seq(Positive) /\ Len(LineLengths(t)) > 0

\* The chunks of a transcript are the whole of it, in order, within both limits.
LEMMA WholeTranscript ==
  ASSUME NEW t, IsTranscript(t), NEW l \in Limits
  PROVE  LET chunks == Chunks(t, l)
         IN /\ chunks \in Seq(ChunkRows) /\ Len(chunks) > 0
            /\ Tile(chunks, 0, CharCount(t), l.chars)
            /\ \A i \in DOMAIN chunks : chunks[i].lines <= l.lines
<1> DEFINE L == LineLengths(t)
           s == Segments(L, l.chars)
           folded == FoldLeft(LAMBDA acc, segment : AddSegment(acc, segment, l), NoChunks, s)
           total == CharCount(t)
<1>1. l.chars \in Positive /\ l.lines \in Nat
  BY DEF Limits, Positive
<1>2. L \in Seq(Positive) /\ Len(L) > 0
  BY DEF IsTranscript
<1>3. total = FoldLeft(LAMBDA n, length : n + length, 0, L)
  BY DEF CharCount
<1>4. total \in Nat /\ total > 0 /\ s \in Seq(Piece) /\ Tile(s, 0, total, l.chars)
  <2> HIDE DEF L, total
  <2>1. QED
    BY <1>1, <1>2, <1>3, SegmentsTile
<1>5. Len(s) > 0
  BY <1>4 DEF Tile
<1>6. Chunks(t, l) = Flush(folded, l)
  BY DEF Chunks, NoChunks
<1>7. ChunksOK(folded, total, l)
  <2> HIDE DEF s, total
  <2>1. QED
    BY <1>4, <1>5, ChunksTile
<1> HIDE DEF folded, total
<1>8. /\ folded.chunks \in Seq(ChunkRows) /\ folded.open \in ChunkRows
      /\ folded.open.lines \in 1..l.lines
      /\ \A i \in DOMAIN folded.chunks : folded.chunks[i].lines \in 1..l.lines
      /\ Tile(Append(folded.chunks, folded.open), 0, total, l.chars)
  BY <1>7 DEF ChunksOK, ChunkStates
<1>9. Chunks(t, l) = Append(folded.chunks, folded.open)
  BY <1>1, <1>6, <1>8 DEF Flush
<1>10. /\ Chunks(t, l) \in Seq(ChunkRows) /\ Len(Chunks(t, l)) > 0
       /\ \A i \in DOMAIN Chunks(t, l) : Chunks(t, l)[i].lines <= l.lines
  BY <1>1, <1>8, <1>9
<1>11. QED
  BY <1>8, <1>9, <1>10 DEF total

(***************************************************************************)
(* The transcript that is rendered.                                        *)
(***************************************************************************)

\* FlattenSeq joins sequences over S to one over S.
LEMMA FlattenType ==
  ASSUME NEW S, NEW seqs \in Seq(Seq(S))
  PROVE  FlattenSeq(seqs) \in Seq(S)
<1> DEFINE N == Len(seqs)
           next == [x \in Seq(S) \X Seq(S) |-> x[1] \o x[2]]
           Eq(g) == g = [i \in 1..N |-> IF i = 1 THEN seqs[i] ELSE g[i - 1] \o seqs[i]]
           F == CHOOSE g : Eq(g)
<1>1. N \in Nat /\ DOMAIN seqs = 1..N /\ \A i \in 1..N : seqs[i] \in Seq(S)
  OBVIOUS
<1>2. CASE N = 0
  <2>1. seqs = << >>
    BY <1>1, <1>2
  <2>2. QED
    BY <1>2, <2>1 DEF FlattenSeq
<1>3. CASE N # 0
  <2>1. FlattenSeq(seqs) = F[N]
    BY <1>3 DEF FlattenSeq
  <2>2. << >> \in Seq(S) /\ next \in [Seq(S) \X Seq(S) -> Seq(S)]
    OBVIOUS
  <2>3. PICK g \in [SUBSET DOMAIN seqs -> Seq(S)] : FoldEquation(g, next, << >>, seqs)
    <3> HIDE DEF next
    <3>1. QED
      BY <2>2, FoldExists
  <2> DEFINE f == [i \in 1..N |-> g[1..i]]
  <2>4. \A s \in SUBSET (1..N) :
          g[s] = IF s = {} THEN << >> ELSE next[<<g[s \ {Max(s)}], seqs[Max(s)]>>]
    BY <1>1, <2>3 DEF FoldEquation
  <2>5. ASSUME NEW i \in 1..N PROVE g[1..i] = g[1..(i - 1)] \o seqs[i]
    <3>1. 1..i \in SUBSET (1..N) /\ 1..(i - 1) \in SUBSET (1..N) /\ i \in Nat \ {0}
      BY <1>1
    <3>2. 1..i # {} /\ Max(1..i) = i /\ (1..i) \ {i} = 1..(i - 1)
      BY <3>1, FirstNumbers
    <3>3. g[1..i] = next[<<g[1..(i - 1)], seqs[i]>>]
      <4> HIDE DEF next
      <4>1. QED
        BY <2>4, <3>1, <3>2
    <3>4. g[1..(i - 1)] \in Seq(S) /\ seqs[i] \in Seq(S)
      BY <1>1, <2>3, <3>1
    <3>5. QED
      BY <3>3, <3>4
  <2>6. g[1..0] = << >>
    <3> HIDE DEF next
    <3>1. 1..0 = {}
      OBVIOUS
    <3>2. QED
      BY <2>4, <3>1
  <2>7. Eq(f)
    <3> SUFFICES ASSUME NEW i \in 1..N
                 PROVE  f[i] = IF i = 1 THEN seqs[i] ELSE f[i - 1] \o seqs[i]
      OBVIOUS
    <3>1. CASE i = 1
      <4>1. g[1..1] = << >> \o seqs[1] /\ seqs[1] \in Seq(S)
        <5>1. 1 \in 1..N /\ 1 - 1 = 0
          BY <1>1, <3>1
        <5>2. QED
          BY <1>1, <2>5, <2>6, <5>1
      <4>2. << >> \o seqs[1] = seqs[1]
        BY <4>1
      <4>3. QED
        BY <3>1, <4>1, <4>2
    <3>2. CASE i # 1
      <4>1. i - 1 \in 1..N
        BY <1>1, <3>2
      <4>2. QED
        BY <2>5, <3>2, <4>1
    <3>3. QED
      BY <3>1, <3>2
  <2> HIDE DEF f, next
  <2>8. Eq(F)
    BY <2>7
  <2>9. \A i \in 1..N : F[i] = IF i = 1 THEN seqs[i] ELSE F[i - 1] \o seqs[i]
    BY <2>8
  <2> HIDE DEF F
  <2> DEFINE T == {k \in Nat : k + 1 <= N => F[k + 1] \in Seq(S)}
  <2>10. 0 \in T
    <3>1. 1 \in 1..N
      BY <1>1, <1>3
    <3>2. F[1] = seqs[1]
      BY <2>9, <3>1
    <3>3. QED
      BY <1>1, <3>1, <3>2
  <2>11. ASSUME NEW k \in Nat, k \in T PROVE k + 1 \in T
    <3> DEFINE i == (k + 1) + 1
    <3> SUFFICES ASSUME i <= N PROVE F[i] \in Seq(S)
      OBVIOUS
    <3>1. i \in 1..N /\ i # 1 /\ i - 1 = k + 1 /\ k + 1 <= N
      BY <1>1
    <3>2. F[i] = F[k + 1] \o seqs[i]
      <4> HIDE DEF i
      <4>1. QED
        BY <2>9, <3>1
    <3>3. F[k + 1] \in Seq(S) /\ seqs[i] \in Seq(S)
      BY <1>1, <2>11, <3>1
    <3>4. QED
      BY <3>2, <3>3
  <2>12. F[N] \in Seq(S)
    <3> HIDE DEF T
    <3>1. N - 1 \in Nat /\ (N - 1) + 1 = N
      BY <1>1, <1>3
    <3>2. N - 1 \in T
      BY <2>10, <2>11, <3>1, SetInduction
    <3>3. QED
      BY <3>1, <3>2 DEF T
  <2>13. QED
    BY <2>1, <2>12
<1>4. QED
  BY <1>2, <1>3

\* In a finite set of numbers there is a k-th one.
LEMMA RankExists ==
  ASSUME NEW V \in SUBSET Nat, IsFiniteSet(V), NEW k \in 1..Cardinality(V)
  PROVE  \E e \in V : Cardinality({d \in V : d <= e}) = k
<1> DEFINE n == Cardinality(V)
           UpTo(e) == {d \in V : d <= e}
           rank == [e \in V |-> Cardinality(UpTo(e))]
<1>1. n \in Nat
  BY FS_CardinalityType
<1>2. ASSUME NEW e \in V
      PROVE  UpTo(e) \in SUBSET V /\ IsFiniteSet(UpTo(e)) /\ e \in UpTo(e)
             /\ Cardinality(UpTo(e)) \in 1..n
  <2>1. UpTo(e) \in SUBSET V /\ e \in UpTo(e)
    OBVIOUS
  <2> HIDE DEF UpTo
  <2>2. IsFiniteSet(UpTo(e)) /\ Cardinality(UpTo(e)) <= n
    BY <2>1, FS_Subset
  <2>3. Cardinality(UpTo(e)) \in Nat
    BY <2>2, FS_CardinalityType
  <2>4. Cardinality(UpTo(e)) # 0
    BY <2>1, <2>2, FS_EmptySet
  <2>5. QED
    BY <1>1, <2>1, <2>2, <2>3, <2>4
<1>3. ASSUME NEW d \in V, NEW e \in V, d < e
      PROVE  Cardinality(UpTo(d)) # Cardinality(UpTo(e))
  <2>0. d \in Nat /\ e \in Nat /\ ~(e <= d) /\ e <= e
    BY <1>3
  <2>1. UpTo(d) \in SUBSET UpTo(e) /\ e \notin UpTo(d) /\ e \in UpTo(e)
    <3>1. ASSUME NEW x \in UpTo(d) PROVE x \in UpTo(e)
      <4>1. x \in Nat /\ x \in V /\ x <= d
        OBVIOUS
      <4>2. x <= e
        BY <1>3, <2>0, <4>1
      <4>3. QED
        BY <4>1, <4>2
    <3>2. QED
      BY <2>0, <3>1
  <2>2. IsFiniteSet(UpTo(e))
    BY <1>2
  <2> HIDE DEF UpTo
  <2>3. QED
    BY <2>1, <2>2, FS_Subset
<1>4. rank \in [V -> 1..n]
  BY <1>2
<1>5. \A d, e \in V : rank[d] = rank[e] => d = e
  <2> SUFFICES ASSUME NEW d \in V, NEW e \in V, d # e PROVE rank[d] # rank[e]
    OBVIOUS
  <2>1. d < e \/ e < d
    OBVIOUS
  <2> HIDE DEF UpTo
  <2>2. QED
    BY <1>3, <2>1
<1> HIDE DEF rank
<1>6. rank \in Injection(V, 1..n)
  BY <1>4, <1>5 DEF Injection, IsInjective
<1>7. IsFiniteSet(1..n) /\ Cardinality(1..n) = n
  BY <1>1, FS_Interval
<1>8. rank \in Surjection(V, 1..n)
  BY <1>6, <1>7, FS_Injection
<1>9. \E e \in V : rank[e] = k
  BY <1>8 DEF Surjection
<1>10. QED
  BY <1>9 DEF rank

Saved == {e \in Exchanges : IsSaved(e)}

\* What is rendered has a header, whatever is visible.
LEMMA RenderedIsTranscript ==
  ASSUME RowsOK, IsFiniteSet(Saved)
  PROVE  IsTranscript(Rendered)
<1> DEFINE visible == {e \in Exchanges : Visible(e)}
           n == Cardinality(visible)
           Nth(k) == CHOOSE e \in visible : Cardinality({d \in visible : d <= e}) = k
           turns == [k \in 1..n |-> Turn(Nth(k), exchange[Nth(k)])]
           lines == [i \in 1..n |-> Body[turns[i].text][turns[i].masked]]
<1>1. IsFiniteSet(visible) /\ visible \in SUBSET Nat /\ n \in Nat
  <2>1. visible \in SUBSET Saved
    BY DEF Visible, Saved
  <2>2. visible \in SUBSET Nat
    BY ExchangesAssumption
  <2> HIDE DEF visible
  <2>3. IsFiniteSet(visible)
    BY <2>1, FS_Subset
  <2>4. QED
    BY <2>2, <2>3, FS_CardinalityType
<1>2. ASSUME NEW k \in 1..n PROVE exchange[Nth(k)] \in Rows
  <2>1. \E e \in visible : Cardinality({d \in visible : d <= e}) = k
    <3> HIDE DEF visible
    <3>1. QED
      BY <1>1, RankExists
  <2>2. Nth(k) \in visible
    <3> HIDE DEF visible
    <3>1. QED
      BY <2>1
  <2> HIDE DEF Nth
  <2>3. Nth(k) \in Exchanges /\ exchange[Nth(k)] # Unsaved
    BY <2>2 DEF Visible, IsSaved
  <2>4. QED
    BY <2>3 DEF RowsOK
<1>3. Rendered = [title |-> title, turns |-> turns]
  BY DEF Rendered
<1> HIDE DEF Nth, n
<1>4. ASSUME NEW i \in 1..n PROVE lines[i] \in Seq(Positive)
  <2>1. /\ turns[i].text = exchange[Nth(i)].text /\ turns[i].masked = exchange[Nth(i)].masked
        /\ lines[i] = Body[turns[i].text][turns[i].masked]
    BY <1>4 DEF Turn
  <2>2. exchange[Nth(i)].text \in ExchangeTexts /\ exchange[Nth(i)].masked \in BOOLEAN
    BY <1>2, <1>4 DEF Rows
  <2> HIDE DEF turns, lines
  <2>3. QED
    BY <2>1, <2>2, TranscriptAssumption DEF Positive
<1>5. lines \in Seq(Seq(Positive))
  <2>1. lines = [i \in 1..n |-> lines[i]]
    OBVIOUS
  <2> HIDE DEF lines
  <2>2. lines \in [1..n -> Seq(Positive)]
    BY <1>4, <2>1
  <2>3. QED
    BY <1>1, <2>2
<1>6. LineLengths(Rendered) = <<2>> \o FlattenSeq(lines)
  <2>1. Rendered.turns = turns /\ DOMAIN turns = 1..n
    BY <1>3
  <2>2. [i \in DOMAIN Rendered.turns |->
           Body[Rendered.turns[i].text][Rendered.turns[i].masked]] = lines
    BY <2>1
  <2> HIDE DEF lines, turns
  <2>3. QED
    BY <2>2 DEF LineLengths, HeaderLength
<1> HIDE DEF lines
<1>7. FlattenSeq(lines) \in Seq(Positive)
  BY <1>5, FlattenType
<1>8. <<2>> \in Seq(Positive) /\ Len(<<2>>) = 1
  BY DEF Positive
<1>9. QED
  BY <1>6, <1>7, <1>8 DEF IsTranscript

(***************************************************************************)
(* The reader.                                                             *)
(***************************************************************************)

\* What a reader has: the first chunks of the transcript and the limits it began with.
Fetched(r) ==
  LET chunks == Chunks(r.sha, r.limits)
      n      == Len(r.got)
  IN /\ r = [at |-> r.at, sha |-> r.sha, limits |-> r.limits, got |-> r.got]
     /\ r.at \in {"reading", "done"}
     /\ IsTranscript(r.sha) /\ r.limits \in Limits
     /\ r.got \in Seq(ChunkRows) /\ n \in 1..Len(chunks)
     /\ \A i \in 1..n : r.got[i] = chunks[i]
     /\ r.at = "reading" <=> n < Len(chunks)

ReaderInv ==
  /\ limits \in Limits
  /\ IsFiniteSet(Saved)
  /\ reader = NotReading \/ Fetched(reader)

\* The limits a deployment can have cut something.
LEMMA LimitsType == ChunkLimits \subseteq Limits
  BY ExchangesAssumption DEF Limits, Positive

\* Nobody reads and nothing is saved.
LEMMA InitReaderInv == ExchangesInit => ReaderInv
<1> SUFFICES ASSUME ExchangesInit PROVE ReaderInv
  OBVIOUS
<1>1. Saved = {}
  BY DEF ExchangesInit, Saved, IsSaved
<1>2. IsFiniteSet({})
  BY FS_EmptySet
<1>3. QED
  BY <1>1, <1>2, LimitsType DEF ReaderInv, ExchangesInit

\* One chunk after the other, while there are more.
LEMMA FetchedMore ==
  ASSUME NEW t, IsTranscript(t), NEW l \in Limits, NEW got \in Seq(ChunkRows),
         Len(got) < Len(Chunks(t, l)),
         \A i \in 1..Len(got) : got[i] = Chunks(t, l)[i],
         NEW at, at = IF Len(got) + 1 < Len(Chunks(t, l)) THEN "reading" ELSE "done"
  PROVE  Fetched([at |-> at, sha |-> t, limits |-> l,
                  got |-> Append(got, Chunks(t, l)[Len(got) + 1])])
<1> DEFINE chunks == Chunks(t, l)
           n == Len(got)
           more == Append(got, chunks[n + 1])
           r == [at |-> at, sha |-> t, limits |-> l, got |-> more]
<1>1. chunks \in Seq(ChunkRows) /\ n \in Nat /\ Len(chunks) \in Nat /\ n < Len(chunks)
  BY WholeTranscript
<1>2. chunks[n + 1] \in ChunkRows
  <2> HIDE DEF chunks
  <2>1. n + 1 \in 1..Len(chunks)
    BY <1>1
  <2>2. QED
    BY <1>1, <2>1
<1>3. /\ more \in Seq(ChunkRows) /\ Len(more) = n + 1
      /\ \A i \in 1..(n + 1) : more[i] = chunks[i]
  <2>1. \A i \in 1..n : got[i] = chunks[i]
    OBVIOUS
  <2> HIDE DEF chunks
  <2>2. more \in Seq(ChunkRows) /\ Len(more) = n + 1 /\ more[n + 1] = chunks[n + 1]
        /\ \A i \in 1..n : more[i] = got[i]
    BY <1>2
  <2>3. \A i \in 1..(n + 1) : i \in 1..n \/ i = n + 1
    BY <1>1
  <2>4. QED
    BY <2>1, <2>2, <2>3
<1>4. at \in {"reading", "done"} /\ (at = "reading" <=> n + 1 < Len(chunks))
  OBVIOUS
<1>5. n + 1 \in 1..Len(chunks)
  BY <1>1
<1>6. r.at = at /\ r.sha = t /\ r.limits = l /\ r.got = more
  OBVIOUS
<1> HIDE DEF more, n
<1>7. Fetched(r)
  BY <1>3, <1>4, <1>5, <1>6 DEF Fetched
<1>8. QED
  BY <1>7 DEF more, n

\* A reader's record, of which two fields change.
LEMMA Refetched ==
  ASSUME NEW r, NEW b, NEW h, r = [at |-> r.at, sha |-> r.sha, limits |-> r.limits, got |-> r.got]
  PROVE  [r EXCEPT !.at = b, !.got = h]
           = [at |-> b, sha |-> r.sha, limits |-> r.limits, got |-> h]
<1> DEFINE n == [r EXCEPT !.at = b, !.got = h]
<1>1. r \in [at : {r.at, b}, sha : {r.sha}, limits : {r.limits}, got : {r.got, h}]
  OBVIOUS
<1>2. n \in [at : {r.at, b}, sha : {r.sha}, limits : {r.limits}, got : {r.got, h}]
  BY <1>1
<1>3. n.at = b /\ n.sha = r.sha /\ n.limits = r.limits /\ n.got = h
  BY <1>1
<1> HIDE DEF n
<1>4. n = [at |-> n.at, sha |-> n.sha, limits |-> n.limits, got |-> n.got]
  BY <1>2
<1>5. QED
  BY <1>3, <1>4 DEF n

\* FetchChunk: the first chunk, the next one of the same transcript, or none.
LEMMA FetchReaderInv ==
  ASSUME RowsOK, ReaderInv, FetchChunk
  PROVE  reader' = NotReading \/ Fetched(reader')
<1> DEFINE index == IF reader = NotReading THEN 1 ELSE Len(reader.got) + 1
           chunks == Chunks(Rendered, limits)
           answer == ChunkAnswer(index)
           first  == [at |-> "reading", sha |-> answer.sha, limits |-> answer.limits,
                      got |-> << >>]
           so     == IF reader = NotReading THEN first ELSE reader
           new    == [so EXCEPT !.at = IF answer.more THEN "reading" ELSE "done",
                                !.got = Append(@, answer.text)]
<1>1. limits \in Limits /\ IsTranscript(Rendered)
  BY LimitsType, RenderedIsTranscript DEF ReaderInv
<1>2. chunks \in Seq(ChunkRows) /\ Len(chunks) > 0 /\ Len(chunks) \in Nat
      /\ DOMAIN chunks = 1..Len(chunks)
  <2>1. chunks \in Seq(ChunkRows) /\ Len(chunks) > 0
    BY <1>1, WholeTranscript
  <2> HIDE DEF chunks
  <2>2. QED
    BY <2>1
<1>3. answer.sha = Rendered /\ answer.limits = limits
  BY DEF ChunkAnswer
<1>4. index \in DOMAIN chunks => answer.text = chunks[index] /\ answer.more = (index < Len(chunks))
  BY DEF ChunkAnswer
<1> SUFFICES ASSUME reader' # NotReading PROVE Fetched(reader')
  OBVIOUS
<1>5. /\ reader = NotReading \/ reader.at = "reading"
      /\ answer.sha = so.sha /\ answer.limits = so.limits /\ reader' = new
  BY DEF FetchChunk
<1> DEFINE got == IF reader = NotReading THEN << >> ELSE reader.got
<1>6. /\ so = [at |-> so.at, sha |-> Rendered, limits |-> limits, got |-> got]
      /\ got \in Seq(ChunkRows) /\ index = Len(got) + 1 /\ Len(got) < Len(chunks)
      /\ \A i \in 1..Len(got) : got[i] = chunks[i]
  <2>1. CASE reader = NotReading
    <3>1. so = first /\ got = << >> /\ index = 1
      BY <2>1
    <3> HIDE DEF so, got, index, answer, chunks
    <3>2. QED
      BY <1>2, <1>3, <3>1
  <2>2. CASE reader # NotReading
    <3>1. so = reader /\ got = reader.got /\ index = Len(got) + 1 /\ Fetched(reader)
      BY <2>2 DEF ReaderInv
    <3>2. reader.sha = Rendered /\ reader.limits = limits /\ reader.at = "reading"
      BY <1>3, <1>5, <2>2, <3>1
    <3> HIDE DEF so, got, index, answer
    <3>3. QED
      BY <3>1, <3>2 DEF Fetched
  <2>3. QED
    BY <2>1, <2>2
<1>7. index \in DOMAIN chunks
  <2> HIDE DEF chunks, got, index
  <2>1. QED
    BY <1>2, <1>6
<1> DEFINE at == IF Len(got) + 1 < Len(chunks) THEN "reading" ELSE "done"
<1> HIDE DEF chunks, got, index, so, answer
<1>8. new = [at |-> at, sha |-> Rendered, limits |-> limits,
             got |-> Append(got, chunks[Len(got) + 1])]
  <2>1. answer.text = chunks[Len(got) + 1]
        /\ answer.more = (Len(got) + 1 < Len(chunks))
    BY <1>4, <1>6, <1>7
  <2>2. so = [at |-> so.at, sha |-> Rendered, limits |-> limits, got |-> got]
    BY <1>6
  <2>3. (IF answer.more THEN "reading" ELSE "done") = at
    BY <2>1
  <2>4. so.got = got
    BY <2>2
  <2> HIDE DEF at
  <2>5. new = [so EXCEPT !.at = at, !.got = Append(got, chunks[Len(got) + 1])]
    BY <2>1, <2>3, <2>4
  <2>6. so.sha = Rendered /\ so.limits = limits
    BY <2>2
  <2>7. so = [at |-> so.at, sha |-> so.sha, limits |-> so.limits, got |-> so.got]
    BY <2>2, <2>4, <2>6
  <2> HIDE DEF new
  <2>8. QED
    BY <2>5, <2>6, <2>7, Refetched
<1>9. Fetched(new)
  <2> USE DEF chunks
  <2> HIDE DEF new
  <2>1. QED
    BY <1>1, <1>6, <1>8, FetchedMore
<1>10. QED
  BY <1>5, <1>9

\* ReaderInv is inductive: what changes between two calls changes hash or limits.
LEMMA NextReaderInv == RowsOK /\ ReaderInv /\ [ExchangesNext]_exchangeVars => ReaderInv'
<1> SUFFICES ASSUME RowsOK, ReaderInv, [ExchangesNext]_exchangeVars PROVE ReaderInv'
  OBVIOUS
<1>1. ASSUME NEW e \in Exchanges, IsFiniteSet(Saved), Saved' \subseteq Saved \cup {e}
      PROVE  IsFiniteSet(Saved')
  BY <1>1, FS_AddElement, FS_Subset
<1>2. ASSUME NEW e \in Exchanges, NEW row, exchange' = [exchange EXCEPT ![e] = row],
             UNCHANGED <<limits, reader>>
      PROVE  ReaderInv'
  <2>1. Saved' \subseteq Saved \cup {e}
    BY <1>2 DEF RowsOK, Saved, IsSaved
  <2>2. QED
    BY <1>1, <1>2, <2>1 DEF ReaderInv
<1>3. ASSUME UNCHANGED exchange PROVE Saved' = Saved
  BY <1>3 DEF Saved, IsSaved
<1>4. ASSUME NEW e \in Exchanges, NEW text \in ExchangeTexts,
             SaveExchange(e, text) \/ UpdateExchange(e, text)
      PROVE  ReaderInv'
  BY <1>2, <1>4 DEF SaveExchange, UpdateExchange, Change
<1>5. ASSUME NEW e \in Exchanges, DeleteExchange(e) \/ RestoreExchange(e)
      PROVE  ReaderInv'
  BY <1>2, <1>5 DEF DeleteExchange, RestoreExchange, Change
<1>6. ASSUME NEW e \in Exchanges, NEW masked \in BOOLEAN, MaskResponse(e, masked)
      PROVE  ReaderInv'
  BY <1>2, <1>6 DEF MaskResponse, Change
<1>7. ASSUME NEW l \in ChunkLimits, SetChunkLimits(l) PROVE ReaderInv'
  <2>1. limits' \in Limits BY <1>7, LimitsType DEF SetChunkLimits, ReaderInv, Limits
  <2>2. QED BY <1>3, <1>7, <2>1 DEF SetChunkLimits, ReaderInv
<1>8. CASE SetTitle \/ SuggestTitle
  BY <1>3, <1>8 DEF SetTitle, SuggestTitle, ReaderInv
<1>9. CASE FetchChunk
  <2>1. UNCHANGED <<exchange, limits>>
    BY <1>9 DEF FetchChunk
  <2>2. reader' = NotReading \/ Fetched(reader')
    BY <1>9, FetchReaderInv
  <2>3. QED
    BY <1>3, <2>1, <2>2 DEF ReaderInv
<1>10. CASE ReadAgain
  BY <1>3, <1>10 DEF ReadAgain, ReaderInv
<1>11. CASE UNCHANGED exchangeVars
  BY <1>3, <1>11 DEF exchangeVars, ReaderInv
<1>12. QED
  BY <1>4, <1>5, <1>6, <1>7, <1>8, <1>9, <1>10, <1>11 DEF ExchangesNext

\* All the chunks of a transcript are the whole of it.
LEMMA ReaderInvReadsWhole == ReaderInv => ReadWhole
<1> SUFFICES ASSUME ReaderInv, reader.at = "done"
             PROVE  LET got == reader.got
                    IN /\ got[1].from = 0
                       /\ \A i \in 1..(Len(got) - 1) : got[i + 1].from = got[i].to
                       /\ got[Len(got)].to = CharCount(reader.sha)
                       /\ \A i \in DOMAIN got :
                            /\ got[i].to - got[i].from <= reader.limits.chars
                            /\ got[i].lines <= reader.limits.lines
  BY DEF ReadWhole
<1> DEFINE got == reader.got
           chunks == Chunks(reader.sha, reader.limits)
<1>1. Fetched(reader)
  BY DEF ReaderInv, NotReading
<1>2. chunks \in Seq(ChunkRows) /\ Len(chunks) > 0
      /\ Tile(chunks, 0, CharCount(reader.sha), reader.limits.chars)
      /\ \A i \in DOMAIN chunks : chunks[i].lines <= reader.limits.lines
  BY <1>1, WholeTranscript DEF Fetched
<1>3. got \in Seq(ChunkRows) /\ Len(got) \in 1..Len(chunks) /\ ~(Len(got) < Len(chunks))
      /\ \A i \in 1..Len(got) : got[i] = chunks[i]
  BY <1>1 DEF Fetched
<1> HIDE DEF got, chunks
<1>4. Len(got) = Len(chunks)
  BY <1>2, <1>3
<1>5. got = chunks
  BY <1>2, <1>3, <1>4
<1>6. reader.limits.chars \in Nat
  BY <1>1 DEF Fetched, Limits, Positive
<1>7. \A i \in DOMAIN got : got[i] \in ChunkRows /\ got[i].to <= got[i].from + reader.limits.chars
  BY <1>2, <1>5 DEF Tile
<1>8. \A i \in DOMAIN got : got[i].to - got[i].from <= reader.limits.chars
  BY <1>6, <1>7 DEF ChunkRows
<1>9. QED
  BY <1>2, <1>5, <1>8 DEF Tile, got

\* However the exchanges, the title and the limits change between two calls of
\* get_session_transcript_chunk: a model that went on while there was more, as long as hash
\* and limits stayed those of its first chunk, has every character of that transcript once
\* and in order, in chunks within the limits (chunk_text of app/session_package.py).
THEOREM TranscriptsReadWhole == ExchangesSpec => []ReadWhole
<1> DEFINE Inv == LogInv /\ ReaderInv
<1>1. ExchangesInit => Inv
  BY InitLogInv, InitReaderInv
<1>2. Inv /\ [ExchangesNext]_exchangeVars => Inv'
  BY NextLogInv, NextReaderInv DEF LogInv
<1>3. Inv => ReadWhole
  BY ReaderInvReadsWhole
<1>4. QED
  BY <1>1, <1>2, <1>3, PTL DEF ExchangesSpec
=============================================================================
