------------------------------- MODULE Tokens -------------------------------
(***************************************************************************)
(* Service account tokens of the API server: the bearer check of           *)
(* internal/server/auth.go, the token handlers of internal/server/admin.go, *)
(* the token operations of internal/state/token_store.go and the commands  *)
(* of internal/cli/token.go.                                               *)
(*                                                                         *)
(* Requests run concurrently, each a goroutine; a step is one critical     *)
(* section of the store or the sending of an answer.  save is one step     *)
(* here (module Store has its parts).  A secret is its number: hashing     *)
(* tells secrets apart.                                                    *)
(***************************************************************************)
EXTENDS Naturals

CONSTANTS
    Reqs,         \* goroutines that serve a request
    MaxSecrets,   \* bound: secrets generated
    MaxTime,      \* bound: seconds
    MaxRequests,  \* bound: requests
    MaxUnsaved,    \* bound: saves that fail
    MaxRestarts   \* bound: crashes and restarts of the server

ASSUME TokensAssumption ==
    /\ {MaxSecrets, MaxTime} \subseteq Nat \ {0}
    /\ {MaxRequests, MaxUnsaved, MaxRestarts} \subseteq Nat

VARIABLES
    conf,      \* AuthRequired, and the prefix of the routes
    tokens,       \* Store.tokens
    saved,      \* the tokens in the backend
    req,       \* what each goroutine is doing
    secrets,   \* secrets generated so far
    now,
    promised,  \* ghost: what each answered secret was answered with
    revoked,   \* ghost: secrets whose revocation or rotation was answered
    touched,   \* ghost: tokens that some request is to delete or rotate
    requests, unsaved, restarts

tokVars == <<conf, tokens, saved, req, secrets, now, promised, revoked, touched, requests, unsaved, restarts>>

-----------------------------------------------------------------------------
NoToken == [sec |-> 0, exp |-> 0]        \* no token with that id

Secrets == 1..MaxSecrets

(* A token's id is random, as its secrets are: the number of its first secret. *)
Ids == Secrets

(* exp = 0: never.  A token made in the last second expires in the next. *)
Token == [sec : 0..MaxSecrets, exp : 0..(MaxTime + 1)]

Kind == {"other", "create", "delete", "rotate"}

Prefix == {"/api/v1", "/api/v1/gpi"}

Answer == {"none", "ok", "error", "notFound", "unauthorized"}

Request ==
    [pc     : {"idle", "auth", "mark", "handle", "answer"},
     kind   : Kind,
     path   : Prefix,
     bearer : 0..MaxSecrets,      \* 0: no Authorization header
     id     : Ids,                \* the token of the path
     in     : {0, 1},             \* expires_in
     found  : Ids,                \* the token the bearer was looked up as
     tok    : Token,              \* what create and rotate answer
     ans    : Answer,
     late   : BOOLEAN]            \* ghost: see NoLateEntry

TokTypeOK ==
    /\ conf \in [auth : BOOLEAN, prefix : Prefix]
    /\ tokens \in [Ids -> Token]
    /\ saved \in [Ids -> Token]
    /\ req \in [Reqs -> Request]
    /\ secrets \in 0..MaxSecrets
    /\ now \in 1..MaxTime
    /\ promised \in [Secrets -> [id : {0} \cup Ids, exp : 0..(MaxTime + 1)]]
    /\ revoked \subseteq Secrets
    /\ touched \subseteq Ids
    /\ requests \in 0..MaxRequests
    /\ unsaved \in 0..MaxUnsaved
    /\ restarts \in 0..MaxRestarts

NoRequest ==
    [pc |-> "idle", kind |-> "other", path |-> "/api/v1", bearer |-> 0, id |-> 1, in |-> 0,
     found |-> 1, tok |-> NoToken, ans |-> "none", late |-> FALSE]

(* The store is empty, or has a token from an earlier time. *)
TokInit ==
    /\ conf \in [auth : BOOLEAN, prefix : Prefix]
    /\ secrets \in {0, 1}
    /\ \E exp \in {0, 1} :
         /\ promised = [s \in Secrets |-> IF s <= secrets THEN [id |-> s, exp |-> exp]
                                         ELSE [id |-> 0, exp |-> 0]]
         /\ tokens = [i \in Ids |-> IF i <= secrets THEN [sec |-> i, exp |-> exp] ELSE NoToken]
    /\ saved = tokens
    /\ req = [r \in Reqs |-> NoRequest]
    /\ now = 1
    /\ revoked = {}
    /\ touched = {}
    /\ requests = 0
    /\ unsaved = 0
    /\ restarts = 0

-----------------------------------------------------------------------------
Expired(exp, at) == exp > 0 /\ at > exp

(* The expiration of a handler: only a positive expires_in sets one. *)
ExpiresAt(in) == IF in > 0 THEN now + in ELSE 0

(* What a client may know when it sends a request: the secret does not give access
   any more. *)
Void(s) == s \in revoked \/ Expired(promised[s].exp, now)

Sent(k, p, s, i, in) ==
    [NoRequest EXCEPT !.pc = "auth", !.kind = k, !.path = p, !.bearer = s, !.id = i,
                      !.in = in, !.late = (s # 0 /\ Void(s))]

(* No secret, or one that was answered to somebody. *)
Bearers == {0} \cup {s \in Secrets : conf.auth /\ promised[s].id # 0}

(* What a client can send.  The token commands of the CLI ask for paths under
   /api/v1. *)
Input ==
    UNION {
      {Sent("other", conf.prefix, s, 1, 0) : s \in Bearers},
      {Sent("create", p, s, 1, in) : p \in {"/api/v1", conf.prefix}, s \in Bearers, in \in {0, 1}},
      {Sent("delete", conf.prefix, s, i, 0) : s \in Bearers, i \in 1..secrets},
      {Sent("rotate", conf.prefix, s, i, in) : s \in Bearers, i \in 1..secrets, in \in {0, 1}}}

Arrive(r) ==
    /\ req[r].pc = "idle"
    /\ requests < MaxRequests
    /\ requests' = requests + 1
    /\ \E q \in Input :
         /\ req' = [req EXCEPT ![r] = q]
         /\ touched' = IF q.kind \in {"delete", "rotate"} THEN touched \cup {q.id} ELSE touched
    /\ UNCHANGED <<conf, tokens, saved, secrets, now, promised, revoked, unsaved, restarts>>

(* The paths that need no token: without authentication all; the creation of
   tokens under /api/v1. *)
Public(r) == ~conf.auth \/ (req[r].kind = "create" /\ req[r].path = "/api/v1")

Answered(r, a, t) == [req[r] EXCEPT !.pc = "answer", !.ans = a, !.tok = t]

(* What comes after the check.  The routes of Handler are under the configured
   prefix only. *)
Routed(r) ==
    IF req[r].path # conf.prefix THEN Answered(r, "notFound", NoToken)
    ELSE IF req[r].kind = "other" THEN Answered(r, "ok", NoToken)
    ELSE [req[r] EXCEPT !.pc = "handle"]

(* GetTokenByHash *)
Holders(s) == {i \in Ids : tokens[i].sec = s}

(* authMiddleware.Wrap, to the end of GetTokenByHash. *)
Wrap(r) ==
    LET valid == {i \in Holders(req[r].bearer) : req[r].bearer # 0 /\ ~Expired(tokens[i].exp, now)}
    IN  /\ req[r].pc = "auth"
        /\ \/ /\ Public(r)
              /\ req' = [req EXCEPT ![r] = Routed(r)]
           \/ /\ ~Public(r)
              /\ \E i \in valid : req' = [req EXCEPT ![r].pc = "mark", ![r].found = i]
           \/ /\ ~Public(r)
              /\ valid = {}
              /\ req' = [req EXCEPT ![r] = Answered(r, "unauthorized", NoToken)]
        /\ UNCHANGED <<conf, tokens, saved, secrets, now, promised, revoked, touched, requests, unsaved, restarts>>

(* save of what memory now has; a failed one leaves the change in memory. *)
Save(m, r, done, failed) ==
    /\ tokens' = m
    /\ \/ saved' = m /\ req' = [req EXCEPT ![r] = done] /\ UNCHANGED unsaved
       \/ /\ unsaved < MaxUnsaved
          /\ unsaved' = unsaved + 1
          /\ req' = [req EXCEPT ![r] = failed]
          /\ UNCHANGED saved

(* Mutant: the token is written back as it was when it was looked up. *)
MarkTokenUsedWritesBack(r) ==
    /\ req[r].pc = "mark"
    /\ Save([tokens EXCEPT ![req[r].found].sec = req[r].bearer], r, Routed(r), Routed(r))
    /\ UNCHANGED <<conf, secrets, now, promised, revoked, touched, requests, restarts>>

(* MarkTokenUsed: the token may be gone or rotated meanwhile; the error of the
   save is dropped.  The save writes all that memory has, what an earlier save
   could not write included. *)
MarkTokenUsed(r) ==
    /\ req[r].pc = "mark"
    /\ \/ tokens[req[r].found] # NoToken /\ Save(tokens, r, Routed(r), Routed(r))
       \/ /\ tokens[req[r].found] = NoToken
          /\ req' = [req EXCEPT ![r] = Routed(r)]
          /\ UNCHANGED <<tokens, saved, unsaved>>
    /\ UNCHANGED <<conf, secrets, now, promised, revoked, touched, requests, restarts>>

(* Mutant: the error of the save is dropped. *)
CreateTokenUnsaved(r) ==
    LET t == [sec |-> secrets + 1, exp |-> ExpiresAt(req[r].in)]
    IN  /\ req[r].pc = "handle" /\ req[r].kind = "create"
        /\ secrets < MaxSecrets
        /\ secrets' = secrets + 1
        /\ Save([tokens EXCEPT ![t.sec] = t], r, Answered(r, "ok", t), Answered(r, "ok", t))
        /\ UNCHANGED <<conf, now, promised, revoked, touched, requests, restarts>>

(* handleCreateToken and CreateToken: a new id and a new secret. *)
CreateToken(r) ==
    LET t == [sec |-> secrets + 1, exp |-> ExpiresAt(req[r].in)]
    IN  /\ req[r].pc = "handle" /\ req[r].kind = "create"
        /\ secrets < MaxSecrets
        /\ secrets' = secrets + 1
        /\ Save([tokens EXCEPT ![t.sec] = t], r,
                Answered(r, "ok", t), Answered(r, "error", NoToken))
        /\ UNCHANGED <<conf, now, promised, revoked, touched, requests, restarts>>

(* handleDeleteToken and DeleteToken *)
DeleteToken(r) ==
    /\ req[r].pc = "handle" /\ req[r].kind = "delete"
    /\ \/ /\ tokens[req[r].id] # NoToken
          /\ Save([tokens EXCEPT ![req[r].id] = NoToken], r,
                  Answered(r, "ok", NoToken), Answered(r, "error", NoToken))
       \/ /\ tokens[req[r].id] = NoToken
          /\ req' = [req EXCEPT ![r] = Answered(r, "notFound", NoToken)]
          /\ UNCHANGED <<tokens, saved, unsaved>>
    /\ UNCHANGED <<conf, secrets, now, promised, revoked, touched, requests, restarts>>

(* handleRotateToken and RotateToken: a new secret for the id; every error is
   answered as "not found". *)
RotateToken(r) ==
    LET t == [sec |-> secrets + 1, exp |-> ExpiresAt(req[r].in)]
    IN  /\ req[r].pc = "handle" /\ req[r].kind = "rotate"
        /\ secrets < MaxSecrets
        /\ secrets' = secrets + 1
        /\ \/ /\ tokens[req[r].id] # NoToken
              /\ Save([tokens EXCEPT ![req[r].id] = t], r,
                      Answered(r, "ok", t), Answered(r, "notFound", NoToken))
           \/ /\ tokens[req[r].id] = NoToken
              /\ req' = [req EXCEPT ![r] = Answered(r, "notFound", NoToken)]
              /\ UNCHANGED <<tokens, saved, unsaved>>
        /\ UNCHANGED <<conf, now, promised, revoked, touched, requests, restarts>>

(* The answer reaches the client: with a new secret, or with the old ones of the
   token revoked. *)
Reply(r) ==
    LET q == req[r]
        new == q.ans = "ok" /\ q.kind \in {"create", "rotate"}
        id == IF q.kind = "create" THEN q.tok.sec ELSE q.id
        old == {s \in Secrets : promised[s].id = q.id /\ (q.kind = "delete" \/ s < q.tok.sec)}
    IN  /\ q.pc = "answer"
        /\ promised' = IF new THEN [promised EXCEPT ![q.tok.sec] = [id |-> id, exp |-> q.tok.exp]]
                       ELSE promised
        /\ revoked' = IF q.ans = "ok" /\ q.kind \in {"delete", "rotate"} THEN revoked \cup old
                      ELSE revoked
        /\ req' = [req EXCEPT ![r] = NoRequest]
        /\ UNCHANGED <<conf, tokens, saved, secrets, now, touched, requests, unsaved, restarts>>

(* A second passes. *)
Tick ==
    /\ now < MaxTime
    /\ now' = now + 1
    /\ UNCHANGED <<conf, tokens, saved, req, secrets, promised, revoked, touched, requests, unsaved, restarts>>

(* The server dies and is started again, with or without --require-auth: requests
   are lost, OpenConfig loads the tokens. *)
Restart ==
    /\ restarts < MaxRestarts
    /\ restarts' = restarts + 1
    /\ tokens' = saved
    /\ req' = [r \in Reqs |-> NoRequest]
    /\ \E a \in BOOLEAN : conf' = [conf EXCEPT !.auth = a]
    /\ UNCHANGED <<saved, secrets, now, promised, revoked, touched, requests, unsaved>>

TokNext ==
    \/ \E r \in Reqs :
          \/ Arrive(r)
          \/ Wrap(r)
          \/ MarkTokenUsed(r)
          \/ CreateToken(r)
          \/ DeleteToken(r)
          \/ RotateToken(r)
          \/ Reply(r)
    \/ Tick
    \/ Restart

TokSpec == TokInit /\ [][TokNext]_tokVars

-----------------------------------------------------------------------------
(* Correctness *)

(* With authentication, a request that was sent when its secret had been revoked
   or rotated (and the caller told so) or had expired does not get past the check:
   whatever requests are under way, saves that fail and restarts. *)
NoLateEntry ==
    \A r \in Reqs : req[r].late =>
        req[r].pc = "auth" \/ req[r].ans = "unauthorized" \/ Public(r)

(* A secret that was shown to a caller gives access until it expires or somebody
   asks to delete or rotate its token: also after saves that failed and restarts. *)
ShownSecretsWork ==
    \A r \in Reqs : (req[r].ans = "unauthorized" /\ req[r].bearer # 0) =>
        LET p == promised[req[r].bearer] IN Expired(p.exp, now) \/ p.id \in touched
=============================================================================
