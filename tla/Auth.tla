-------------------------------- MODULE Auth --------------------------------
(***************************************************************************)
(* internal/auth: one Auth, shared by the goroutines that send requests to *)
(* a host (reghttp keeps one per host).  AddScope, UpdateRequest and       *)
(* HandleResponse each run under a.mu, requests to the token server        *)
(* included, so each is one step; between them other requests get in.      *)
(*                                                                         *)
(* A token is the set of scopes it was asked for and the time of its issue *)
(* (no two tokens that are alive at once agree on both).  The client holds *)
(* a token for expired one tick after its issue (tokenBuffer early), the   *)
(* registry after two.                                                     *)
(***************************************************************************)
EXTENDS Integers, Sequences, FiniteSets, SequencesExt

CONSTANTS
    Request,        \* the requests of reghttp
    Need,           \* Need[r]: the scope the registry wants for r
    DockerScope,    \* DockerScope[r]: pull, or pull and push, of its repository
    Unscoped,       \* requests without Req.Repository, for which AddScope is not called
    KnownActions,   \* knownActions
    Anonymous,      \* actions granted to a login without credentials
    RetryLimit,     \* c.retryLimit of reghttp
    Creds,          \* the kinds of credentials tried, see Registries
    MaxFaults,      \* bound on the answers a working server would not give
    MaxTrouble      \* bound on these and the ticks of the clock together

ASSUME AuthAssumption ==
    /\ Unscoped \subseteq Request
    /\ \A r \in Request : DOMAIN Need[r] = {"repo", "acts"} /\ DOMAIN DockerScope[r] = {"repo", "acts"}
    /\ Creds \subseteq {"user", "bad", "none", "token"}
    /\ {RetryLimit, MaxFaults, MaxTrouble} \subseteq Nat

VARIABLES
    registry,   \* what the registry offers and accepts, see Registries
    basic,      \* the basicHandler of a.hs[host]
    bearer,     \* the bearerHandler of a.hs[host]
    req,        \* the requests
    clock,
    faults

vars == <<registry, basic, bearer, req, clock, faults>>

NoScope == [repo |-> "", acts |-> {}]
NoToken == [asked |-> {}, at |-> -1]
\* A reply without a token: the header is "Bearer " and nothing.
EmptyToken == [asked |-> {}, at |-> -2]

\* Values of the Authorization header.
NoHeader     == [type |-> "none", tok |-> NoToken]
BasicHeader  == [type |-> "basic", tok |-> NoToken]
BearerHeader(tok) == [type |-> "bearer", tok |-> tok]

(* offers  : the challenges of a 401, in order                             *)
(* liar    : offers Basic but does not accept it                           *)
(* scoped  : the Bearer challenge names a scope                            *)
(* refresh : the token server hands out refresh tokens                     *)
(* cred    : what credsFn returns: a right or a wrong user and password,   *)
(*           nothing, or a refresh token                                   *)
Registries ==
    [offers : {<<"bearer">>, <<"basic">>, <<"basic", "bearer">>},
     liar : BOOLEAN, scoped : BOOLEAN, refresh : BOOLEAN, cred : Creds]

\* (external) the deployments of interest.
RegistryOK(g) ==
    /\ g.liar => g.offers = <<"basic", "bearer">>
    /\ g.offers = <<"basic">> => ~g.scoped
    /\ Len(g.offers) = 2 => g.scoped
    /\ g.refresh => g.cred = "user" /\ g.offers = <<"bearer">>

NewBasicHandler  == [on |-> FALSE, realm |-> ""]
NewBearerHandler ==
    [on |-> FALSE, realm |-> "", scopes |-> <<>>, token |-> NoToken, refresh |-> FALSE]

NewReq == [pc |-> "add", hdr |-> NoHeader, rejected |-> NoHeader, tries |-> 0, added |-> FALSE]

Init ==
    /\ registry \in {g \in Registries : RegistryOK(g)}
    /\ basic = NewBasicHandler
    /\ bearer = NewBearerHandler
    /\ req = [r \in Request |-> NewReq]
    /\ clock = 0 /\ faults = 0
-----------------------------------------------------------------------------
(* The scopes of a bearerHandler.                                          *)

\* parseScope: scopes of the form repository:<repo>:<known actions>.
IsParsed(s) == s.repo # "" /\ s.acts \subseteq KnownActions

\* The entry of the list that holds the known actions of a repository, 0 if none.
EntryOf(scopes, s) ==
    SelectInSeq(scopes, LAMBDA t : IsParsed(t) /\ t.repo = s.repo)

\* Mutant: an entry for the repository is enough.
ScopeExistsAnyAction(b, s) ==
    IF s = NoScope THEN TRUE
    ELSE IF ~IsParsed(s) THEN s \in ToSet(b.scopes)
    ELSE EntryOf(b.scopes, s) # 0

\* scopeExists
ScopeExists(b, s) ==
    IF s = NoScope THEN TRUE
    ELSE IF ~IsParsed(s) THEN s \in ToSet(b.scopes)
    ELSE LET i == EntryOf(b.scopes, s)
         IN  i # 0 /\ s.acts \subseteq b.scopes[i].acts

\* Mutant: the token of the shorter list of scopes is kept.
AddScopeKeepsToken(b, s) ==
    LET i == IF IsParsed(s) THEN EntryOf(b.scopes, s) ELSE 0
    IN  [b EXCEPT !.scopes = IF i # 0 THEN [@ EXCEPT ![i].acts = @ \cup s.acts]
                                      ELSE Append(@, s)]


\* addScope: extend the entry of the repository or append, and forget the token.
AddScope_(b, s) ==
    LET i == IF IsParsed(s) THEN EntryOf(b.scopes, s) ELSE 0
    IN  [b EXCEPT !.scopes = IF i # 0 THEN [@ EXCEPT ![i].acts = @ \cup s.acts]
                                      ELSE Append(@, s),
                  !.token = NoToken]

\* isExpired
IsExpired(tok) == clock > tok.at

Fresh(b) == b.token # NoToken /\ b.token # EmptyToken /\ ~IsExpired(b.token)
-----------------------------------------------------------------------------
(* Tokens.                                                                 *)

\* (external) the token server replies with "grant", or with "refuse" (not a
\* 200), "error" (no or no readable reply) or "empty" (no token).
Faults == {"refuse", "error", "empty"}

\* (external) what a working token server says to a GET.
HonestGet == IF registry.cred = "bad" THEN "refuse" ELSE "grant"
HonestPost == "grant"

\* (external) the actions the token is good for: all for a login, some for none.
Granted(tok) ==
    {[s EXCEPT !.acts = IF registry.cred = "user" THEN @ ELSE @ \cap Anonymous] : s \in tok.asked}

\* validateResponse: the reply replaces the token, the refresh token included.
ValidateResponse(b, ans) ==
    CASE ans = "grant" -> [b EXCEPT !.token = [asked |-> ToSet(b.scopes), at |-> clock],
                                    !.refresh = registry.refresh]
      [] ans = "empty" -> [b EXCEPT !.token = EmptyToken, !.refresh = FALSE]
      [] OTHER -> b

\* GenerateAuth of the bearerHandler; rep holds the replies to tryPost and
\* tryGet, which reach the token server when the realm names it.  The error is ""
\* or "unauthorized" (all of them wrap it).
BearerAuth(b, rep) ==
    LET post == rep[1]
        get == rep[2]
        Good(c) == [b |-> c, hdr |-> BearerHeader(c.token), err |-> ""]
        Bad == [b |-> b, hdr |-> NoHeader, err |-> "unauthorized"]
    IN  IF Fresh(b) THEN Good(b)
        ELSE IF b.realm # "server" THEN Bad
        ELSE IF b.refresh /\ post \in {"grant", "empty"} THEN Good(ValidateResponse(b, post))
        ELSE IF b.refresh /\ post = "error" THEN Bad
        ELSE IF get \in {"grant", "empty"} THEN Good(ValidateResponse(b, get))
        ELSE Bad

\* GenerateAuth of the basicHandler: needs a user and a password.
BasicAuth ==
    IF registry.cred \in {"user", "bad"} THEN [hdr |-> BasicHeader, err |-> ""]
    ELSE [hdr |-> NoHeader, err |-> "unauthorized"]
-----------------------------------------------------------------------------
(* Challenges.                                                             *)

\* A challenge: its type, its realm (with the service: the token server, "none"
\* if it is missing) and its scope ("" if it is missing).
Challenges(r) ==
    [i \in 1 .. Len(registry.offers) |->
        [type |-> registry.offers[i], realm |-> "server",
         scope |-> IF registry.scoped THEN Need[r] ELSE NoScope]]

\* (external) what a broken proxy may send: no challenge, one of a type without
\* a handler, one without a realm, one of another realm.
Faulty(r) ==
    {<<>>} \cup
    {<<[type |-> ty, realm |-> rm, scope |-> NoScope]>> :
        ty \in {"bearer", "negotiate"}, rm \in {"none", "other"}}

\* ProcessChallenge of the two handlers: the handler and the error.
BasicChallenge(h, c) ==
    IF c.realm = "none" THEN <<h, "invalid">>
    ELSE IF h.realm = c.realm THEN <<h, "nonew">>
    ELSE <<[h EXCEPT !.realm = c.realm], "">>

BearerChallenge(b, c) ==
    LET exists == ScopeExists(b, c.scope)
    IN  IF c.realm = "none" THEN <<b, "invalid">>
        ELSE IF b.realm = c.realm /\ exists
                /\ (b.token \in {NoToken, EmptyToken} \/ ~IsExpired(b.token)) THEN <<b, "nonew">>
        ELSE IF b.realm \notin {"", c.realm} THEN <<b, "invalid">>
        ELSE LET known == [b EXCEPT !.realm = c.realm]
             IN  <<IF exists THEN known ELSE AddScope_(known, c.scope), "">>

\* One challenge in the loop of HandleResponse.  st: the handlers, goodChallenge
\* and the error that ended the loop.
HandleOne(st, c, prevAH, rep) ==
    IF st.err # "" \/ c.type \notin {"basic", "bearer"} THEN st
    ELSE IF c.type = "basic"
    THEN LET p == BasicChallenge([st.basic EXCEPT !.on = TRUE], c)
         IN  [st EXCEPT !.basic = p[1],
                        !.good = @ \/ p[2] = "" \/
                                 (p[2] = "nonew" /\ BasicAuth.err = "" /\ prevAH # BasicAuth.hdr),
                        !.err = IF p[2] = "invalid" THEN p[2] ELSE ""]
    ELSE LET p == BearerChallenge([st.bearer EXCEPT !.on = TRUE], c)
             g == BearerAuth(p[1], rep)
         IN  [st EXCEPT !.bearer = IF p[2] = "nonew" THEN g.b ELSE p[1],
                        !.good = @ \/ p[2] = "" \/
                                 (p[2] = "nonew" /\ g.err = "" /\ prevAH # g.hdr),
                        !.err = IF p[2] = "invalid" THEN p[2] ELSE ""]

\* The loop over the challenges.
HandleAll(cl, prevAH, rep) ==
    LET loop[i \in 0 .. Len(cl)] ==
          IF i = 0 THEN [basic |-> basic, bearer |-> bearer, good |-> FALSE, err |-> ""]
          ELSE HandleOne(loop[i - 1], cl[i], prevAH, rep)
    IN  loop[Len(cl)]
-----------------------------------------------------------------------------
(* The requests of reghttp.                                                *)

MayFail == faults < MaxFaults /\ clock + faults < MaxTrouble

\* (external) what the token server replies to a POST and to a GET; one of the
\* two replies may be a fault.
Replies ==
    {<<HonestPost, HonestGet>>} \cup
    (IF ~MayFail THEN {}
     ELSE {<<x, HonestGet>> : x \in Faults} \cup {<<HonestPost, x>> : x \in Faults})

CountFault(rep) ==
    faults' = IF rep = <<HonestPost, HonestGet>> THEN faults ELSE faults + 1

\* The docker scope of a request is added when the host has a handler.
AddScope(r) ==
    /\ req[r].pc = "add"
    /\ req' = [req EXCEPT ![r].pc = "update", ![r].tries = @ + 1,
                          ![r].added = bearer.on /\ r \notin Unscoped]
    /\ bearer' = IF bearer.on /\ r \notin Unscoped /\ ~ScopeExists(bearer, DockerScope[r])
                 THEN AddScope_(bearer, DockerScope[r]) ELSE bearer
    /\ UNCHANGED <<registry, basic, clock, faults>>

\* The request with the header g, or given up: errors of GenerateAuth drop the host.
Updated(q, g) ==
    IF g.err = "" THEN [q EXCEPT !.pc = "send", !.hdr = g.hdr]
    ELSE [NewReq EXCEPT !.pc = "failed", !.added = q.added]

\* UpdateRequest: the first handler, basic before bearer, that has a header.
UpdateRequest(r) ==
    /\ req[r].pc = "update"
    /\ UNCHANGED <<registry, basic, clock>>
    /\ \/ /\ ~basic.on /\ ~bearer.on
          /\ req' = [req EXCEPT ![r].pc = "send"]
          /\ UNCHANGED <<bearer, faults>>
       \/ /\ basic.on /\ (BasicAuth.err = "" \/ ~bearer.on)
          /\ req' = [req EXCEPT ![r] = Updated(@, BasicAuth)]
          /\ UNCHANGED <<bearer, faults>>
       \/ /\ bearer.on /\ (basic.on => BasicAuth.err # "")
          /\ \E rep \in Replies :
                \E g \in {BearerAuth(bearer, rep)} :
                    /\ CountFault(rep)
                    /\ bearer' = g.b
                    /\ req' = [req EXCEPT ![r] = Updated(@, g)]

\* (external) whether the registry accepts the header.
Accepts(r, hdr) ==
    /\ hdr.type \in ToSet(registry.offers)
    /\ hdr.type = "basic" => registry.cred = "user" /\ ~registry.liar
    /\ hdr.type = "bearer" =>
         /\ clock <= hdr.tok.at + 1
         /\ \E s \in Granted(hdr.tok) : s.repo = Need[r].repo /\ Need[r].acts \subseteq s.acts

Served(r) ==
    /\ req[r].pc = "send" /\ Accepts(r, req[r].hdr)
    /\ req' = [req EXCEPT ![r] = [NewReq EXCEPT !.pc = "done"]]
    /\ UNCHANGED <<registry, basic, bearer, clock, faults>>

\* Where the loop of resp.next goes after a 401: one attempt more than the limit.
AfterDenied(q, good) ==
    IF good /\ q.tries <= RetryLimit
    THEN [q EXCEPT !.pc = "add", !.rejected = q.hdr, !.hdr = NoHeader, !.added = FALSE]
    ELSE [NewReq EXCEPT !.pc = "failed", !.added = q.added]

\* Mutant: no check for a header that another request changed.
HandleResponseNoRace(r, cl, rep) ==
    \E st \in {HandleAll(cl, BearerAuth(bearer, rep).hdr, rep)} :
        /\ basic' = st.basic /\ bearer' = st.bearer
        /\ req' = [req EXCEPT ![r] = AfterDenied(@, st.good /\ st.err = "")]

\* Mutant: every challenge is taken for a new one.
HandleResponseSpins(r, cl, rep) ==
    \E st \in {HandleAll(cl, req[r].hdr, rep)} :
        /\ basic' = st.basic /\ bearer' = st.bearer
        /\ req' = [req EXCEPT ![r] = AfterDenied(@, st.err = "")]

\* HandleResponse on a 401 with the challenges cl.
HandleResponse(r, cl, rep) ==
    \E st \in {HandleAll(cl, req[r].hdr, rep)} :
        /\ basic' = st.basic /\ bearer' = st.bearer
        /\ req' = [req EXCEPT ![r] = AfterDenied(@, st.good /\ st.err = "")]

Denied(r) ==
    /\ req[r].pc = "send" /\ ~Accepts(r, req[r].hdr)
    /\ UNCHANGED <<registry, clock>>
    /\ \E rep \in Replies : CountFault(rep) /\ HandleResponse(r, Challenges(r), rep)

DeniedFaulty(r) ==
    /\ req[r].pc = "send" /\ ~Accepts(r, req[r].hdr)
    /\ MayFail /\ faults' = faults + 1
    /\ UNCHANGED <<registry, clock>>
    /\ \E cl \in Faulty(r) : HandleResponse(r, cl, <<HonestPost, HonestGet>>)

Tick ==
    /\ clock + faults < MaxTrouble /\ clock' = clock + 1
    /\ UNCHANGED <<registry, basic, bearer, req, faults>>

Step(r) ==
    \/ AddScope(r) \/ UpdateRequest(r) \/ Served(r)
    \/ Denied(r) \/ DeniedFaulty(r)

Next == Tick \/ \E r \in Request : Step(r)

Spec == Init /\ [][Next]_vars
-----------------------------------------------------------------------------
TypeOK ==
    /\ registry \in Registries
    /\ basic \in [on : BOOLEAN, realm : {"", "server", "other"}]
    /\ bearer.realm \in {"", "server", "other"} /\ bearer.token.at \in -2 .. clock
    /\ \A r \in Request : /\ req[r].pc \in {"add", "update", "send", "done", "failed"}
                           /\ req[r].tries \in 0 .. RetryLimit + 1
    /\ clock \in Nat /\ faults \in 0 .. MaxFaults

Covers(scopes, s) == \E t \in scopes : t.repo = s.repo /\ s.acts \subseteq t.acts

(* The token in hand was asked for with every scope of the list, whichever *)
(* goroutines added scopes since: addScope drops the token and nothing     *)
(* brings an older one back.                                               *)
TokenCoversScopes ==
    bearer.token \notin {NoToken, EmptyToken} =>
        \A s \in ToSet(bearer.scopes) : Covers(bearer.token.asked, s)

(* The handlers of a host: of their types, with a token for all scopes.    *)
HandlersSound == TypeOK /\ TokenCoversScopes

(* A request that added its scope goes out with a token that was asked for *)
(* with that scope, although a.mu was free between AddScope and            *)
(* UpdateRequest.                                                          *)
HeaderFits ==
    \A r \in Request :
        /\ req[r].pc = "send" /\ req[r].added
        /\ req[r].hdr.type = "bearer" /\ req[r].hdr.tok # EmptyToken
        => Covers(req[r].hdr.tok.asked, DockerScope[r])

(* "verifying the requirement is different from what was included in the   *)
(* last request": no attempt repeats the header its predecessor was        *)
(* refused with.  (But a refused Basic header is sent again when there was *)
(* a Bearer challenge too: the token differs from it, but is not used.  And *)
(* a token server that is at fault may answer with an empty token twice.)  *)
NoSameHeader ==
    \A r \in Request :
        req[r].pc = "send" /\ req[r].tries > 1 /\ req[r].hdr = req[r].rejected
            => \/ req[r].hdr = BasicHeader /\ bearer.on
               \/ req[r].hdr.tok = EmptyToken

(* A request fails only for a cause: wrong or missing rights, a fault, a   *)
(* registry that lies, a scope nobody named, or tokens that kept running   *)
(* out.  What the other requests do to the shared handlers is no cause,    *)
(* but for one race: a challenge without a scope, answered by another      *)
(* request between AddScope (no handler yet) and UpdateRequest of this     *)
(* one, gives this one a token without its scope, and the 401 that follows *)
(* is final.                                                               *)
FailsForCause ==
    \A r \in Request : req[r].pc = "failed" =>
        \/ faults > 0 \/ registry.liar \/ clock > RetryLimit
        \/ registry.cred = "bad"
        \/ ~registry.scoped /\ (req[r].added => ~(Need[r].acts \subseteq DockerScope[r].acts))
        \/ registry.cred \in {"none", "token"} /\
           ("bearer" \notin ToSet(registry.offers) \/ ~(Need[r].acts \subseteq Anonymous))
=============================================================================
