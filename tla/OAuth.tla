------------------------------- MODULE OAuth -------------------------------
(***************************************************************************)
(* The authorization server for connectors (app/oauth.py, and the tables   *)
(* it keeps in app/storage.py): a client registers, a login turns a        *)
(* challenge into a code, the code is exchanged for an access token and a  *)
(* refresh token, and a refresh token for the next pair.                   *)
(*                                                                         *)
(* A handler runs without an await, but each store call in it commits by   *)
(* itself: when the process dies in between, the first of them are done    *)
(* and the rest never are.  A response may be lost whatever was done.      *)
(* Secrets, PKCE, redirect URIs and resources are left out: the requests   *)
(* are those that carry the right ones.                                    *)
(***************************************************************************)
EXTENDS Naturals, FiniteSets

CONSTANTS
  Clients, Challenges, Codes, Pairs,  \* ids, never used twice
  Nobody

ASSUME OAuthAssumption == Nobody \notin Codes

Base == "base"   \* settings.scope, which every grant has

\* What a client may ask for: the base scope, with or without offline_access.
ScopeSets == {{Base}, {Base, "offline_access"}}

VARIABLES
  client,     \* client -> its scopes, {} when it is not registered
  challenge,  \* challenge -> its client, its scopes and whether it is open
  code,       \* code -> the challenge and scopes it stands for and its state
  pair        \* tokens issued together: from which code, with which scopes, still good?

oauthVars == <<client, challenge, code, pair>>

OAuthInit ==
  /\ client = [c \in Clients |-> {}]
  /\ challenge = [h \in Challenges |-> [state |-> "none", client |-> Nobody, scopes |-> {}]]
  /\ code = [k \in Codes |-> [state |-> "none", client |-> Nobody, scopes |-> {}]]
  /\ pair = [p \in Pairs |-> [access |-> "none", refresh |-> "none", code |-> Nobody, scopes |-> {}]]

\* A request may also name no scopes at all, or some that are not supported.
Asked == ScopeSets \cup {{}, {"unsupported"}}

\* _normalize_scopes: none asked for are the base scope.
NormalizeScopes(asked) == IF asked = {} THEN {Base} ELSE asked

Supported(asked) == NormalizeScopes(asked) \in ScopeSets

\* A new id: which of those not used before does not matter.
IsNew(x, used, ids) == x \notin used /\ x = CHOOSE y \in ids : y \notin used

NewClient(c) == IsNew(c, {d \in Clients : client[d] # {}}, Clients)
NewChallenge(h) == IsNew(h, {g \in Challenges : challenge[g].state # "none"}, Challenges)
NewCode(k) == IsNew(k, {j \in Codes : code[j].state # "none"}, Codes)
NewPair(p) == IsNew(p, {q \in Pairs : pair[q].access # "none"}, Pairs)

-----------------------------------------------------------------------------
(* The steps of a handler that commit.                                     *)

CreateCode(k, h, state) ==
  code' = [code EXCEPT ![k] = [state |-> state, client |-> challenge[h].client,
                               scopes |-> challenge[h].scopes]]

ConsumeChallenge(h) == challenge' = [challenge EXCEPT ![h].state = "gone"]

\* _issue_tokens, of which the last of two commits may never happen.
IssueTokens(p, k, scopes, both) ==
  /\ NewPair(p)
  /\ pair' = [pair EXCEPT ![p] = [access |-> "live", refresh |-> IF both THEN "live" ELSE "none",
                                  code |-> k, scopes |-> scopes]]

-----------------------------------------------------------------------------
(* The handlers.                                                           *)

Register(c, asked) ==
  /\ NewClient(c)
  /\ Supported(asked)
  /\ client' = [client EXCEPT ![c] = NormalizeScopes(asked)]
  /\ UNCHANGED <<challenge, code, pair>>

\* Scopes the client does not name are those it registered with.
Authorize(h, c, asked) ==
  LET scopes == IF asked = {} THEN client[c] ELSE asked
  IN /\ client[c] # {} /\ Supported(scopes)
     /\ NewChallenge(h)
     /\ challenge' = [challenge EXCEPT ![h] = [state |-> "open", client |-> c, scopes |-> scopes]]
     /\ UNCHANGED <<client, code, pair>>

\* The owner logs in: first the code, then the challenge is gone.  When the process dies
\* in between the code is in the table, known to nobody, and the challenge still open.
Login(h, k) ==
  /\ challenge[h].state = "open" /\ NewCode(k)
  /\ \/ CreateCode(k, h, "live") /\ ConsumeChallenge(h)
     \/ CreateCode(k, h, "lost") /\ UNCHANGED challenge
  /\ UNCHANGED <<client, pair>>

\* Mutant: the tokens are issued before the code is marked used.
ExchangeCodeLate(c, k, p) ==
  /\ code[k].state = "live" /\ code[k].client = c
  /\ \E both \in BOOLEAN : IssueTokens(p, k, code[k].scopes, both)
  /\ code' \in {code, [code EXCEPT ![k].state = "used"]}
  /\ UNCHANGED <<client, challenge>>

\* The code is used up before anything is issued for it.
ExchangeCode(c, k, p) ==
  /\ code[k].state = "live" /\ code[k].client = c
  /\ code' = [code EXCEPT ![k].state = "used"]
  /\ (\E both \in BOOLEAN : IssueTokens(p, k, code[k].scopes, both)) \/ UNCHANGED pair
  /\ UNCHANGED <<client, challenge>>

\* Scopes that cannot be understood are those of the token that is refreshed; none asked
\* for are the base scope alone.
Narrowed(p, asked) == IF Supported(asked) THEN NormalizeScopes(asked) ELSE pair[p].scopes

\* The old refresh token is revoked before the next pair is issued.
ExchangeRefresh(c, p, q, asked) ==
  /\ pair[p].refresh = "live" /\ code[pair[p].code].client = c
  /\ Narrowed(p, asked) \subseteq pair[p].scopes
  /\ NewPair(q)
  /\ \E next \in {[access |-> "live", refresh |-> r, code |-> pair[p].code,
                    scopes |-> Narrowed(p, asked)] : r \in {"none", "live"}} \cup {pair[q]} :
       pair' = [pair EXCEPT ![p].refresh = "revoked", ![q] = next]
  /\ UNCHANGED <<client, challenge, code>>

\* verify_token of the MCP server.
Verified(p) == pair[p].access = "live"

\* Time: any of them runs out.
Expire ==
  \/ /\ \E h \in Challenges : /\ challenge[h].state = "open"
                              /\ challenge' = [challenge EXCEPT ![h].state = "gone"]
     /\ UNCHANGED <<client, code, pair>>
  \/ /\ \E k \in Codes : code[k].state = "live" /\ code' = [code EXCEPT ![k].state = "expired"]
     /\ UNCHANGED <<client, challenge, pair>>
  \/ /\ \E p \in Pairs : \/ Verified(p) /\ pair' = [pair EXCEPT ![p].access = "expired"]
                         \/ /\ pair[p].refresh = "live"
                            /\ pair' = [pair EXCEPT ![p].refresh = "expired"]
     /\ UNCHANGED <<client, challenge, code>>

-----------------------------------------------------------------------------
OAuthNext ==
  \/ \E c \in Clients, asked \in Asked :
       \/ Register(c, asked)
       \/ \E h \in Challenges : Authorize(h, c, asked)
       \/ \E p, q \in Pairs : ExchangeRefresh(c, p, q, asked)
  \/ \E h \in Challenges, k \in Codes : Login(h, k)
  \/ \E c \in Clients, k \in Codes, p \in Pairs : ExchangeCode(c, k, p)
  \/ Expire

OAuthSpec == OAuthInit /\ [][OAuthNext]_oauthVars

-----------------------------------------------------------------------------
\* A login grants once: of all the tokens that descend from one code at most one refresh
\* token is good, none has a scope the authorization was not for, and the code is never
\* good again, whatever was retried, lost or cut short by a crash (_exchange_code,
\* _exchange_refresh).
OneLiveGrant ==
  \A k \in Codes :
    LET descendants == {p \in Pairs : pair[p].code = k}
    IN /\ Cardinality({p \in descendants : pair[p].refresh = "live"}) <= 1
       /\ \A p \in descendants : pair[p].scopes \subseteq code[k].scopes
       /\ descendants # {} => code[k].state # "live"
=============================================================================
