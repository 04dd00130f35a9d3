------------------------------- MODULE Hosts -------------------------------
(***************************************************************************)
(* config and the host options of regclient.New: how the settings of a     *)
(* registry are put together from defaults, configuration entries and      *)
(* docker's config.json, and how credentials are asked from a helper.      *)
(*                                                                         *)
(* A name is its scheme, host and path.  The field "plain" stands for the  *)
(* settings that are merged like it: certificates, prefix, mirrors,        *)
(* priority, sizes and rate.  Time is counted in units of                  *)
(* defaultCredHelperRetry.                                                 *)
(***************************************************************************)
EXTENDS Integers, Sequences, FiniteSets, SequencesExt, TLC

Name(scheme, host, path) == [scheme |-> scheme, host |-> host, path |-> path]
NoName == Name("", "", "")
DockerRegistry == Name("", "docker.io", "")
DockerRegistryAuth == Name("https", "index.docker.io", "/v1/")
DockerRegistryDNS == Name("", "registry-1.docker.io", "")
Hub == {DockerRegistry, DockerRegistryAuth, DockerRegistryDNS}

DefaultExpire == 3
DefaultRetry == 1

\* The zero value of Host; APIOpts is a function from option names, and a refresh of -1 the zero time.
Unset ==
    [Name |-> NoName, Hostname |-> NoName, CredHost |-> NoName, TLS |-> "", User |-> "", Pass |-> "", Token |-> "",
     CredHelper |-> "", CredExpire |-> 0, APIOpts |-> <<>>, ReqConcurrent |-> 0, RepoAuth |-> FALSE, plain |-> "",
     credRefresh |-> -1]

HostNew == [Unset EXCEPT !.TLS = "enabled", !.ReqConcurrent = 3]

\* def is <<>> or <<the default host>>.
HostNewDefName(def, name) ==
    LET base == IF def = <<>> THEN HostNew
                ELSE [def[1] EXCEPT !.TLS = IF @ = "" THEN "enabled" ELSE @, !.ReqConcurrent = IF @ = 0 THEN 3 ELSE @]
        short == Name("", name.host, "")
    IN  IF name \in Hub
        THEN [base EXCEPT !.Name = DockerRegistry, !.Hostname = DockerRegistryDNS, !.CredHost = DockerRegistryAuth]
        ELSE [base EXCEPT !.Name = short, !.Hostname = short, !.CredHost = IF name = short THEN @ ELSE name,
                          !.TLS = IF name.scheme = "http" THEN "disabled" ELSE @]

HostNewName(name) == HostNewDefName(<<>>, name)

\* Mutant: a password does not replace a helper.
ClearedByToken(h, n) ==
    LET a == IF n.CredHelper = "" /\ h.Token # "" THEN [h EXCEPT !.CredHelper = "", !.CredExpire = 0] ELSE h
    IN  IF n.CredHelper # "" /\ n.User = "" /\ n.Pass = "" /\ n.Token = ""
        THEN [a EXCEPT !.User = "", !.Pass = "", !.Token = ""] ELSE a

\* The first part of Merge: a password takes the place of a helper and a helper that of a password.  It is
\* the token of the existing host that is looked at, not the one of the new.
Cleared(h, n) ==
    LET a == IF n.CredHelper = "" /\ (n.Pass # "" \/ h.Token # "")
             THEN [h EXCEPT !.CredHelper = "", !.CredExpire = 0] ELSE h
    IN  IF n.CredHelper # "" /\ n.User = "" /\ n.Pass = "" /\ n.Token = ""
        THEN [a EXCEPT !.User = "", !.Pass = "", !.Token = ""] ELSE a

IsSet(n, f) == IF f = "ReqConcurrent" THEN n[f] > 0 ELSE n[f] # Unset[f]

Merge(h, n) ==
    [f \in DOMAIN h |->
        CASE f = "Name" -> IF h.Name = NoName THEN n.Name ELSE h.Name
          [] f = "APIOpts" -> n.APIOpts @@ h.APIOpts
          [] f = "credRefresh" -> h.credRefresh
          [] OTHER -> IF IsSet(n, f) THEN n[f] ELSE Cleared(h, n)[f]]
-----------------------------------------------------------------------------
(* The client: its hosts by name, and <<>> or <<the default host>>.        *)

HostSet(rc, n) ==
    LET old == IF n.Name \in DOMAIN rc.hosts THEN rc.hosts[n.Name] ELSE HostNewDefName(rc.def, n.Name)
    IN  [rc EXCEPT !.hosts = (n.Name :> Merge(old, n)) @@ @]

AsHub(n) ==
    IF n.Name \notin Hub THEN n
    ELSE [n EXCEPT !.Name = DockerRegistry,
                   !.Hostname = IF @ \in {NoName, DockerRegistry, DockerRegistryAuth} THEN DockerRegistryDNS ELSE @]

HostLoad(rc, list) ==
    FoldLeft(LAMBDA r, n : IF n.Name = NoName THEN r ELSE HostSet(r, AsHub(n)), rc, list)

\* Options: [hosts |-> entries] are loaded, [def |-> host] is the default for names that are new from there on.
New(opts) ==
    FoldLeft(LAMBDA r, o : IF "def" \in DOMAIN o THEN [r EXCEPT !.def = <<o.def>>] ELSE HostLoad(r, o.hosts),
             HostSet([hosts |-> <<>>, def |-> <<>>], HostNewName(DockerRegistryAuth)), opts)
-----------------------------------------------------------------------------
(* docker's config.json: auths and helpers are functions from names, store *)
(* is what the credential store lists, or fails.                           *)

\* dockerAuthToHost: <<>> or <<the host>>.  An auth is [user, pass, token, ok], ok unless it cannot be decoded.
DockerAuthToHost(name, dc) ==
    LET auth == dc.auths[name]
        helper == IF name \in DOMAIN dc.helpers THEN dc.helpers[name] ELSE ""
        h == HostNewName(name)
    IN  IF \/ ~auth.ok
           \/ (auth.user = "" \/ auth.pass = "") /\ auth.token = "" /\ helper = ""
           \/ h.Name # DockerRegistry /\ name.path \notin {"", "/"}
        THEN <<>>
        ELSE <<[h EXCEPT !.User = auth.user, !.Pass = auth.pass, !.Token = auth.token, !.CredHelper = helper]>>

HelperHost(name, dc) ==
    LET h == [HostNewName(name) EXCEPT !.CredHelper = dc.helpers[name]]
    IN  IF h.Name \in DOMAIN dc.auths THEN <<>> ELSE <<h>>

\* credHelper.list.
StoreHost(name, dc) == <<[HostNewName(name) EXCEPT !.User = dc.store[name], !.CredHelper = "store"]>>

\* dockerParse: maps are walked in any order; a store that fails is an empty one.
DockerParse(dc) ==
    LET Walk(order, One(_)) == FoldLeft(LAMBDA list, name : list \o One(name), <<>>, order)
    IN  {Walk(a, LAMBDA x : DockerAuthToHost(x, dc)) \o Walk(b, LAMBDA x : HelperHost(x, dc))
            \o Walk(c, LAMBDA x : StoreHost(x, dc)) :
            a \in SetToSeqs(DOMAIN dc.auths), b \in SetToSeqs(DOMAIN dc.helpers), c \in SetToSeqs(DOMAIN dc.store)}
-----------------------------------------------------------------------------
(* Credentials.  The answer of a helper is <<>> if it fails, or            *)
(* <<user, secret>>.                                                       *)

CredOf(h) == <<h.User, h.Pass, h.Token>>
AnswerCred(answer) == IF answer[1] = "<token>" THEN <<"", "", answer[2]>> ELSE <<answer[1], answer[2], "">>

RefreshHelper(h, now, answer) ==
    LET expire == IF h.CredExpire <= 0 THEN DefaultExpire ELSE h.CredExpire
        cred == AnswerCred(answer)
    IN  IF answer = <<>> THEN [h EXCEPT !.CredExpire = expire, !.credRefresh = now + DefaultRetry]
        ELSE [h EXCEPT !.CredExpire = expire, !.credRefresh = now + expire,
                       !.User = cred[1], !.Pass = cred[2], !.Token = cred[3]]

Asks(h, now) == h.CredHelper # "" /\ (h.credRefresh = -1 \/ now > h.credRefresh)

\* GetCred: the host with its credential renewed if that is due.
GetCred(h, now, answer) == IF Asks(h, now) THEN RefreshHelper(h, now, answer) ELSE h
-----------------------------------------------------------------------------
(* What they should do.                                                    *)

\* The entries of a registry in the order of the options, and the default at the first of them.
EntriesOf(opts, name) ==
    FoldLeft(LAMBDA list, o : IF "def" \in DOMAIN o THEN list
                              ELSE list \o SelectSeq([i \in DOMAIN o.hosts |-> AsHub(o.hosts[i])], LAMBDA n : n.Name = name),
             <<>>, opts)
DefaultFor(opts, name) ==
    LET first == {i \in DOMAIN opts : EntriesOf(SubSeq(opts, 1, i), name) # <<>>}
        before == {i \in DOMAIN opts : "def" \in DOMAIN opts[i] /\ \A j \in first : i < j}
    IN  IF name \in Hub \/ before = {} THEN <<>> ELSE <<opts[Max(before)].def>>

\* Whatever the order of the options, a setting is that of the last entry that gives one, or the default.
LastWins(opts, name) ==
    LET list == EntriesOf(opts, name)
        start == HostNewDefName(DefaultFor(opts, name), name)
        LastOf(f) == LET at == {i \in DOMAIN list : IsSet(list[i], f)} IN IF at = {} THEN start[f] ELSE list[Max(at)][f]
        host == New(opts).hosts[name]
    IN  list # <<>> => \A f \in {"TLS", "Hostname", "CredHost", "ReqConcurrent", "RepoAuth", "plain"} : host[f] = LastOf(f)

\* The credential used is that of the last entry that gives one, never a mix of two: for entries without
\* tokens, whose users come with a password or a helper.
CredOfLast(opts, name, answer) ==
    LET list == EntriesOf(opts, name)
        gives == {i \in DOMAIN list : list[i].Pass # "" \/ list[i].CredHelper # ""}
        last == list[Max(gives)]
        clean == /\ DefaultFor(opts, name) = <<>>
                 /\ \A i \in DOMAIN list : list[i].Token = "" /\ (list[i].User # "" => i \in gives)
    IN  gives # {} /\ clean =>
            CredOf(GetCred(New(opts).hosts[name], 0, answer)) =
                IF last.CredHelper # "" THEN AnswerCred(answer) ELSE <<last.User, last.Pass, "">>

\* No two names of a map stand for one registry.
Distinct(names) == \A x, y \in names : HostNewName(x).Name = HostNewName(y).Name => x = y

\* The order of docker's maps decides nothing, and a login without helper or store is found under the registry.
DockerSound(dc) ==
    Distinct(DOMAIN dc.auths) /\ Distinct(DOMAIN dc.helpers) /\ Distinct(DOMAIN dc.store) =>
        LET clients == {New(<<[hosts |-> list]>>) : list \in DockerParse(dc)}
            rc == CHOOSE c \in clients : TRUE
            Short(names) == {HostNewName(x).Name : x \in names}
        IN  /\ clients = {rc}
            /\ \A x \in DOMAIN dc.auths :
                 DockerAuthToHost(x, dc) # <<>> /\ HostNewName(x).Name \notin Short(DOMAIN dc.helpers \cup DOMAIN dc.store)
                    => CredOf(rc.hosts[HostNewName(x).Name]) = <<dc.auths[x].user, dc.auths[x].pass, dc.auths[x].token>>
=============================================================================
