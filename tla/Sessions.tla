------------------------------ MODULE Sessions ------------------------------
(***************************************************************************)
(* Who may call LAS (services/auth.py, routers/auth.py, deps.py,           *)
(* routers/api_keys.py): JSON web tokens with an expiry, the blacklist in  *)
(* Redis that a logout writes, API keys, users that are closed.  A request *)
(* verifies its token, asks Redis and then the database, one await after   *)
(* the other.  Time goes by half seconds: a token's expiry is a whole      *)
(* second, and so is the life of a blacklist entry.                        *)
(***************************************************************************)
EXTENDS Naturals, FiniteSets

CONSTANTS
  Holders, Keys,               \* users, API keys
  Requests, Logouts,           \* slots: requests under way, logouts under way
  LastToken,                   \* bound: tokens 1..LastToken are made
  AccessLife, RefreshLife,     \* ACCESS_TOKEN_EXPIRE_MINUTES, REFRESH_TOKEN_EXPIRE_DAYS
  Margin,                      \* the minute after the expiry, in seconds
  NoHolder,
  MaxTick, MaxUserEdits, MaxRedisFaults   \* bounds: time, changes of users and keys, faults

ASSUME SessionAssumption ==
  /\ NoHolder \notin Holders
  /\ {LastToken, AccessLife, RefreshLife, MaxTick, MaxUserEdits, MaxRedisFaults} \subseteq Nat
  /\ Margin \in Nat \ {0}

VARIABLES
  tick,
  holder,      \* users: active, closed (is_active = false) or gone
  token,       \* tokens: kind, sub, exp
  made,        \* tokens made so far
  black,       \* Redis: when the entry of a token ends (0: none)
  key,         \* API keys: row or gone, is_active, owner, expires_at
  call,        \* requests
  edits, redisFaults,
  revoked      \* history: tokens whose logout was answered (and not lost with Redis)

sessionVars == <<tick, holder, token, made, black, key, call, edits, redisFaults, revoked>>
redisVars == <<black, redisFaults>>

-----------------------------------------------------------------------------
Calls == Requests \cup Logouts
Tokens == 1..LastToken
NoToken == [kind |-> "none", sub |-> NoHolder, exp |-> 0]
NoCall == [pc |-> "idle", kind |-> "none", tokens |-> {}, left |-> {}, sub |-> NoHolder,
           barred |-> FALSE, shut |-> FALSE]

\* jose: exp is cut to the second, and good through that second.
Second(t) == 2 * (t \div 2)
Expires(life) == Second(tick + life)
GoodAt(time, t) == time <= token[t].exp + 1
Good(t) == GoodAt(tick, t)

\* Mutant: the entry ends with the second of the expiry.
TtlBare(t) == IF token[t].exp > tick THEN 2 * ((token[t].exp - tick + 1) \div 2) ELSE 0

\* Mutant: the time of the end where Redis takes a time to live.
TtlAbsolute(t) == token[t].exp + 2 * Margin

\* Seconds from now until the expiry, rounded up, and the margin.
Ttl(t) ==
  (IF token[t].exp > tick THEN 2 * ((token[t].exp - tick + 1) \div 2) ELSE 0) + 2 * Margin
Blacklisted(t) == tick < black[t]

Begin(c, r) == call[c].pc = "idle" /\ call' = [call EXCEPT ![c] = r]
Closing(c) == call' = [call EXCEPT ![c] = NoCall]
Step(c, pc) == call' = [call EXCEPT ![c].pc = pc]
Edited == edits < MaxUserEdits /\ edits' = edits + 1
RedisFault == redisFaults < MaxRedisFaults /\ redisFaults' = redisFaults + 1

-----------------------------------------------------------------------------
\* Redis drops an entry at its end, and answers in less than the margin.  (A token past its
\* expiry leaves the history.)
TickOn ==
  /\ tick < MaxTick
  /\ \A c \in Calls : call[c].pc # "blacklist"
  /\ tick' = tick + 1
  /\ black' = [t \in Tokens |-> IF black[t] > tick + 1 THEN black[t] ELSE 0]
  /\ revoked' = {t \in revoked : GoodAt(tick + 1, t)}
  /\ UNCHANGED <<holder, token, made, key, call, edits, redisFaults>>

Mint(kind, u, n, life) == [token EXCEPT ![n] = [kind |-> kind, sub |-> u, exp |-> Expires(life)]]

\* A login: an access token and a refresh token.
SignIn(u) ==
  /\ holder[u] = "active" /\ made + 2 <= LastToken
  /\ token' = [Mint("access", u, made + 1, AccessLife) EXCEPT
                 ![made + 2] = [kind |-> "refresh", sub |-> u, exp |-> Expires(RefreshLife)]]
  /\ made' = made + 2
  /\ UNCHANGED <<tick, holder, redisVars, key, call, edits, revoked>>

\* get_current_user, _resolve_token_user and _authenticate_tus_upload with an access token,
\* refresh with a refresh token: the signature, the type and the expiry.
BeginWith(c, t) ==
  /\ token[t].kind # "none" /\ Good(t)
  /\ Begin(c, [NoCall EXCEPT !.pc = "blacklist", !.tokens = {t}, !.sub = token[t].sub,
                 !.kind = IF token[t].kind = "access" THEN "use" ELSE "refresh",
                 !.barred = t \in revoked, !.shut = holder[token[t].sub] # "active"])
  /\ UNCHANGED <<tick, holder, token, made, redisVars, key, edits, revoked>>

\* Mutant: a refresh does not ask.
AllButRefresh == {"use"}

\* The routes that ask the blacklist.
Asked == {"use", "refresh"}

AskBlacklist(c) ==
  /\ call[c].pc = "blacklist"
  /\ IF call[c].kind \in Asked /\ \E t \in call[c].tokens : Blacklisted(t) THEN Closing(c)
     ELSE Step(c, IF call[c].kind = "use" THEN "user" ELSE "mint")
  /\ UNCHANGED <<tick, holder, token, made, redisVars, key, edits, revoked>>

\* Redis cannot be reached: refused (tus) or an error, never let in.
RedisSilent(c) ==
  /\ call[c].pc = "blacklist" /\ RedisFault /\ Closing(c)
  /\ UNCHANGED <<tick, holder, token, made, black, key, edits, revoked>>

\* A refresh looks at no user.
MintAccess(c) ==
  /\ call[c].pc = "mint" /\ made < LastToken
  /\ token' = Mint("access", call[c].sub, made + 1, AccessLife)
  /\ made' = made + 1
  /\ Step(c, "accepted")
  /\ UNCHANGED <<tick, holder, redisVars, key, edits, revoked>>

\* Mutant: the user is found whether active or not.
FoundAtAll(u) == holder[u] # "gone"

Found(u) == holder[u] = "active"

FindUser(c) ==
  /\ call[c].pc = "user"
  /\ IF Found(call[c].sub) THEN Step(c, "accepted") ELSE Closing(c)
  /\ UNCHANGED <<tick, holder, token, made, redisVars, key, edits, revoked>>

\* _try_api_key_auth: is_active and expires_at of the key, then its owner as for a token.
KeyIsGood(k) == key[k].state = "row" /\ key[k].on /\ key[k].expires >= tick

BeginWithKey(c, k) ==
  /\ KeyIsGood(k)
  /\ Begin(c, [NoCall EXCEPT !.pc = "user", !.kind = "key", !.sub = key[k].owner,
                 !.shut = holder[key[k].owner] # "active"])
  /\ UNCHANGED <<tick, holder, token, made, redisVars, key, edits, revoked>>

\* The answer is out.
EndCall(c) ==
  /\ call[c].pc = "accepted" /\ Closing(c)
  /\ UNCHANGED <<tick, holder, token, made, redisVars, key, edits, revoked>>

-----------------------------------------------------------------------------
(* Logout: the access token of the header and the refresh token of the body, those that are *)
(* still good, are blacklisted one after the other.                                         *)

SignOut(c, T) ==
  /\ Begin(c, [NoCall EXCEPT !.pc = "revoke", !.kind = "logout", !.tokens = T, !.left = T])
  /\ \A t \in T : Good(t)
  /\ \A k \in {"access", "refresh"} : Cardinality({t \in T : token[t].kind = k}) <= 1
  /\ T # {} /\ \A t \in T : token[t].kind # "none"
  /\ UNCHANGED <<tick, holder, token, made, redisVars, key, edits, revoked>>

Revoke(c, t) ==
  /\ call[c].pc = "revoke" /\ t \in call[c].left
  /\ token[t].kind = "refresh" => \A s \in call[c].left : token[s].kind = "refresh"
  /\ call' = [call EXCEPT ![c].left = @ \ {t}]
  /\ black' = [black EXCEPT ![t] = tick + Ttl(t)]
  /\ UNCHANGED <<tick, holder, token, made, key, edits, redisFaults, revoked>>

\* 204, or 503 when Redis cannot be reached: what was blacklisted stays so.
AnswerSignOut(c) ==
  /\ call[c].pc = "revoke" /\ Closing(c)
  /\ \/ /\ call[c].left = {}
        /\ revoked' = revoked \cup {t \in call[c].tokens : Good(t)}
        /\ UNCHANGED redisFaults
     \/ /\ call[c].left # {} /\ RedisFault
        /\ UNCHANGED revoked
  /\ UNCHANGED <<tick, holder, token, made, black, key, edits>>

\* Valkey with its defaults keeps a snapshot of the last hour at best: a crash forgets all since.
RedisCrash ==
  /\ RedisFault
  /\ black' = [t \in Tokens |-> 0] /\ revoked' = {}
  /\ call' = [c \in Calls |-> [call[c] EXCEPT !.barred = FALSE, !.tokens =
                IF call[c].pc = "revoke" THEN call[c].left ELSE @]]
  /\ UNCHANGED <<tick, holder, token, made, key, edits>>

-----------------------------------------------------------------------------
(* Administrators                                                          *)

CloseHolder(u) ==
  /\ Edited /\ holder[u] = "active"
  /\ \E how \in {"closed", "gone"} : holder' = [holder EXCEPT ![u] = how]
  /\ key' = [k \in Keys |-> IF holder'[u] = "gone" /\ key[k].owner = u
                            THEN [key[k] EXCEPT !.state = "gone"] ELSE key[k]]
  /\ UNCHANGED <<tick, token, made, redisVars, call, revoked>>

OpenHolder(u) ==
  /\ holder[u] = "closed"
  /\ holder' = [holder EXCEPT ![u] = "active"]
  /\ call' = [c \in Calls |-> IF call[c].sub = u THEN [call[c] EXCEPT !.shut = FALSE] ELSE call[c]]
  /\ UNCHANGED <<tick, token, made, redisVars, key, edits, revoked>>

UpdateKey(k, on, expires) ==
  /\ Edited /\ key[k].state = "row"
  /\ key' = [key EXCEPT ![k].on = on, ![k].expires = expires]
  /\ UNCHANGED <<tick, holder, token, made, redisVars, call, revoked>>

DeleteKey(k) ==
  /\ Edited /\ key[k].state = "row"
  /\ key' = [key EXCEPT ![k].state = "gone"]
  /\ UNCHANGED <<tick, holder, token, made, redisVars, call, revoked>>

-----------------------------------------------------------------------------
SessionInit ==
  /\ tick = 0 /\ made = 0 /\ edits = 0 /\ redisFaults = 0
  /\ holder = [u \in Holders |-> "active"]
  /\ token = [t \in Tokens |-> NoToken]
  /\ black = [t \in Tokens |-> 0]
  /\ key \in [Keys -> [state : {"row"}, on : {TRUE}, owner : Holders, expires : {MaxTick}]]
  /\ call = [c \in Calls |-> NoCall]
  /\ revoked = {}

SessionNext ==
  \/ TickOn \/ RedisCrash
  \/ \E u \in Holders : SignIn(u) \/ CloseHolder(u) \/ OpenHolder(u)
  \/ \E c \in Requests : AskBlacklist(c) \/ RedisSilent(c)
  \/ \E c \in Requests : MintAccess(c) \/ FindUser(c) \/ EndCall(c)
  \/ \E c \in Requests, t \in Tokens : BeginWith(c, t)
  \/ \E c \in Requests, k \in Keys : BeginWithKey(c, k)
  \/ \E c \in Logouts, T \in SUBSET Tokens : SignOut(c, T)
  \/ \E c \in Logouts : AnswerSignOut(c) \/ \E t \in Tokens : Revoke(c, t)
  \/ \E k \in Keys : \/ DeleteKey(k)
                    \/ \E on \in BOOLEAN : UpdateKey(k, on, IF on THEN 0 ELSE MaxTick)

SessionSpec == SessionInit /\ [][SessionNext]_sessionVars

-----------------------------------------------------------------------------
(* Properties                                                              *)

\* Every variable has its type, tokens are made in order, an entry of the blacklist ends within
\* the margin and a second of its token (_revoke; later when the token ended before the entry was
\* written), and a logout revokes only what it was given.
SessionTypeOK ==
  /\ tick \in 0..MaxTick /\ made \in 0..LastToken
  /\ edits \in 0..MaxUserEdits /\ redisFaults \in 0..MaxRedisFaults
  /\ holder \in [Holders -> {"active", "closed", "gone"}]
  /\ \A t \in Tokens : token[t].kind = "none" <=> t > made
  /\ \A t \in Tokens : token[t].sub \in Holders \cup {NoHolder}
  /\ \A t \in Tokens : Good(t) => black[t] <= token[t].exp + 2 * Margin + 1
  /\ \A c \in Calls : call[c].left \subseteq call[c].tokens
  /\ revoked \subseteq 1..made

\* A token whose logout was answered is on the blacklist as long as its signature would still be
\* good, whatever fraction of the second the logout fell in; a crash of Redis that goes back to
\* an older snapshot is the one exception (_revoke, verify_token).
BlacklistOutlivesToken ==
  \A t \in revoked : Good(t) => Blacklisted(t)

\* No request that began after its token's logout was answered is let in, and no refresh mints an
\* access token then, at whatever point time, other logouts and other requests come in between.
RevokedIsRefused ==
  \A c \in Calls : call[c].pc = "accepted" => ~call[c].barred

\* A request that began while its user was closed or deleted, and was not reopened since, is not
\* let in, with a token of before, a token refreshed after the closing or an API key.  A refresh
\* itself looks at no user.
ClosedIsShut ==
  \A c \in Calls : call[c].pc = "accepted" /\ call[c].kind # "refresh" => ~call[c].shut

\* Who was shut out stays out: with a revoked token, a user that is closed, an expired key.
ShutOutStaysOut == BlacklistOutlivesToken /\ RevokedIsRefused /\ ClosedIsShut
=============================================================================
