------------------------------ MODULE AgentAccess ------------------------------
(***************************************************************************)
(* Who is let in, and as whom: the requests of agents at /mcp, the routes  *)
(* that read the session cookie, and the Connect page that issues and      *)
(* revokes agent tokens.  One isolate, whose auth runtime is built by the  *)
(* first request that needs it and shared as a promise (getAuthRuntime).   *)
(*                                                                         *)
(* A signed token is what its claims say and whether it verifies; a minted *)
(* one is its id and whether its secret is the right one.  The browser     *)
(* holds a session cookie throughout: the session behind it may end.       *)
(***************************************************************************)
EXTENDS Integers, FiniteSets

CONSTANTS
  People, SiteOwner,  \* the members, and the one whose email is the owner's
  Requests,           \* requests of agents and of the site's pages
  Acts,               \* creations and revocations asked on the Connect page
  TokenIds,           \* 1..n: the tokens that can be issued
  TokenCap,           \* MAX_MCP_TOKENS_PER_USER
  MaxMounts,          \* bound: how often the Connect page is opened
  AccessFaults        \* bound: builds, reads and writes that fail, answers lost

ASSUME AccessAssumption ==
  /\ SiteOwner \in People /\ "nobody" \notin People
  /\ Requests \cap Acts = {} /\ "read" \notin Requests \cup Acts
  /\ IsFiniteSet(TokenIds) /\ TokenIds = 1..Cardinality(TokenIds)
  /\ TokenCap \in Nat \ {0} /\ MaxMounts \in Nat /\ AccessFaults \in Nat

VARIABLES
  accounts,    \* rows of "user"
  holder,      \* of a token ever issued: whose it is
  usable,      \* rows of user_mcp_tokens
  session,     \* whose session the browser's cookie names
  authRuntime, \* cachedRuntime: "none", or a promise "pending", "fulfilled", "rejected"
  request,
  page,        \* the Connect page (useAgentTokens)
  failures

accessVars == <<accounts, holder, usable, session, authRuntime, request, page, failures>>

Nobody == "nobody"
Read == "read"      \* the first read of a mounted Connect page
Asked == Requests \cup Acts \cup {Read}

NoCredential == [kind |-> "none", id |-> 0, who |-> Nobody, fit |-> FALSE]
Credential(kind, id, who, fit) == [kind |-> kind, id |-> id, who |-> who, fit |-> fit]

\* What a request can carry: nothing, another scheme, a token that was minted or one of
\* its shape, a signed token, the cookie of a page that only the owner may read;
\* or it asks for the discovery documents.
Carried ==
  {NoCredential}
    \cup {Credential(k, 0, Nobody, FALSE) : k \in {"malformed", "discovery", "personal"}}
    \cup {Credential("minted", i, Nobody, TRUE) : i \in {j \in TokenIds : holder[j] # Nobody}}
    \cup {Credential("signed", 0, p, TRUE) : p \in People}
    \cup {Credential("minted", 1, Nobody, FALSE), Credential("signed", 0, SiteOwner, FALSE)}

NoRequest ==
  [step |-> "idle", cred |-> NoCredential, as |-> Nobody, good |-> FALSE, faulted |-> FALSE,
   mount |-> 0, id |-> 0, tokens |-> {}]
NoMount ==
  [mount |-> 0, loading |-> FALSE, known |-> FALSE, tokens |-> {}, busy |-> FALSE, issued |-> 0,
   made |-> {}, dropped |-> {}]

AccessInit ==
  /\ accounts = People /\ holder = [i \in TokenIds |-> Nobody] /\ usable = {}
  /\ session \in People /\ authRuntime = "none"
  /\ request = [c \in Asked |-> NoRequest] /\ page = NoMount /\ failures = 0

\* Whose credential it is, and whether it is good now.
OfWhom(cred) ==
  IF cred.kind = "minted" THEN holder[cred.id]
  ELSE IF cred.kind = "signed" THEN cred.who ELSE session
Good(cred) ==
  CASE cred.kind = "minted" -> cred.fit /\ cred.id \in usable
    [] cred.kind = "signed" -> cred.fit /\ cred.who \in accounts
    [] cred.kind = "personal" -> session = SiteOwner
    [] cred.kind = "cookie" -> session # Nobody
    [] OTHER -> cred.kind # "malformed"

InStep(c, step) == request[c].step = step
Turns(c, step) == request' = [request EXCEPT ![c].step = step]
Known(c, p, step) == request' = [request EXCEPT ![c] = [@ EXCEPT !.step = step, !.as = p]]
Breaks(c, step) ==
  /\ failures < AccessFaults /\ failures' = failures + 1
  /\ request' = [request EXCEPT ![c] = [@ EXCEPT !.step = step, !.faulted = TRUE]]
NoFailure == UNCHANGED failures
Rows == <<accounts, holder, usable, session>>

(***************************************************************************)
(* Whom a request is from                                                  *)
(***************************************************************************)

\* Everything that reads a signed token or a cookie waits for the runtime; the
\* first such request starts its build.
NeedsRuntime(kind) == kind \in {"signed", "discovery", "personal", "cookie"}
Started(kind) ==
  CASE kind = "none" -> "served" [] kind = "malformed" -> "refused" [] kind = "minted" -> "token"
    [] OTHER -> "runtime"
GetAuthRuntime(kind) ==
  authRuntime' = IF NeedsRuntime(kind) /\ authRuntime = "none" THEN "pending" ELSE authRuntime

Arrives(c, cred) ==
  /\ InStep(c, "idle")
  /\ request' = [request EXCEPT ![c] =
       [@ EXCEPT !.step = Started(cred.kind), !.cred = cred, !.good = Good(cred)]]
  /\ GetAuthRuntime(cred.kind) /\ NoFailure /\ UNCHANGED <<Rows, page>>

BuildEnds ==
  /\ authRuntime = "pending" /\ authRuntime' = "fulfilled"
  /\ NoFailure /\ UNCHANGED <<Rows, request, page>>

\* A build that fails fails all who wait for it.
BuildRejects(left) ==
  /\ authRuntime = "pending" /\ authRuntime' = left
  /\ failures < AccessFaults /\ failures' = failures + 1
  /\ request' = [c \in Asked |->
       IF InStep(c, "runtime") THEN [request[c] EXCEPT !.step = "refused", !.faulted = TRUE]
       ELSE request[c]]
  /\ UNCHANGED <<Rows, page>>
BuildFailsKept == BuildRejects("rejected")
BuildAuthRuntimeFails == BuildRejects("none")

HasRuntime(c) ==
  /\ InStep(c, "runtime") /\ authRuntime # "pending"
  /\ Turns(c, IF authRuntime # "fulfilled" THEN "refused"
              ELSE CASE request[c].cred.kind = "discovery" -> "served"
                     [] request[c].cred.kind = "signed" -> "verify"
                     [] OTHER -> "session")
  /\ NoFailure /\ UNCHANGED <<Rows, authRuntime, page>>

\* A read of the store for c, which may fail: who it then is, or that it is refused.
Looks(c, step, found, p, next) ==
  /\ InStep(c, step)
  /\ \/ NoFailure /\ found /\ Known(c, p, next)
     \/ NoFailure /\ ~found /\ Turns(c, "refused")
     \/ Breaks(c, "refused")
  /\ UNCHANGED <<Rows, authRuntime, page>>

\* The row by its id, then the digest; the last use is written as an aside that
\* may fail.
AuthenticateMcpToken(c) ==
  LET cred == request[c].cred
  IN  Looks(c, "token", cred.id \in usable /\ cred.fit, OfWhom(cred), "user")

VerifyMcpAccessToken(c) ==
  Looks(c, "verify", request[c].cred.fit, request[c].cred.who, "user")

CallerForUser(c) ==
  Looks(c, "user", request[c].as \in accounts, request[c].as, "served")

GetSession(c) ==
  LET personal == request[c].cred.kind = "personal"
  IN  Looks(c, "session", session # Nobody /\ (personal => session = SiteOwner), session,
            IF personal THEN "served" ELSE "store")

\* What a caller is offered: a tool out of reach is absent, not refused.
ToolsOf(p) ==
  {"research"}
    \cup (IF p = Nobody THEN {"snapshot"} ELSE {"brokerage", "orders", "reconciliation", "records"})
    \cup (IF p = SiteOwner THEN {"provenance", "manage"} ELSE {"index"})

(***************************************************************************)
(* The Connect page and its route                                          *)
(***************************************************************************)

Cookie(what) == Credential("cookie", 0, what, FALSE)
Opened(c, what, id) ==
  [NoRequest EXCEPT !.step = "runtime", !.cred = Cookie(what), !.good = Good(Cookie(what)),
                    !.mount = page'.mount, !.id = id]

\* Mounting starts the first read, and ends that of the mount before; what was
\* created and revoked then is still carried out.
ConnectOpens ==
  /\ page.mount < MaxMounts
  /\ page' = [NoMount EXCEPT !.mount = page.mount + 1, !.loading = TRUE]
  /\ request' = [request EXCEPT ![Read] = Opened(Read, "list", 0)]
  /\ GetAuthRuntime("cookie") /\ NoFailure /\ UNCHANGED Rows

Sends(a, what, id) ==
  /\ page.mount > 0 /\ ~page.busy /\ InStep(a, "idle")
  /\ page' = [page EXCEPT !.busy = TRUE]
  /\ request' = [request EXCEPT ![a] = Opened(a, what, id)]
  /\ GetAuthRuntime("cookie") /\ NoFailure /\ UNCHANGED Rows

MayIssue == ~page.loading
AsksIssue(a) == MayIssue /\ Sends(a, "issue", 0)
AsksRevoke(a, i) == page.known /\ i \in page.tokens /\ Sends(a, "revoke", i)

TokensOf(p) == {i \in usable : holder[i] = p}
Unissued == {i \in TokenIds : holder[i] = Nobody}
LeastId(ids) == CHOOSE i \in ids : \A j \in ids : i <= j

\* The cap is counted in the statement that inserts.
Inserts(p, i) ==
  /\ Cardinality(TokensOf(p)) < TokenCap
  /\ usable' = usable \cup {i} /\ holder' = [holder EXCEPT ![i] = p]

Doing(c, what) == InStep(c, "store") /\ request[c].cred.who = what

ListMcpTokens(c) ==
  /\ Doing(c, "list") \/ InStep(c, "relist")
  /\ \/ /\ NoFailure
        /\ request' = [request EXCEPT ![c] = [@ EXCEPT !.step = "answered", !.tokens = TokensOf(request[c].as)]]
     \/ Breaks(c, "refused")
  /\ UNCHANGED <<Rows, authRuntime, page>>

IssueMcpToken(c) ==
  /\ Doing(c, "issue") /\ Unissued # {}
  /\ LET i == LeastId(Unissued) p == request[c].as
     IN  \/ /\ p \in accounts /\ Inserts(p, i) /\ NoFailure
            /\ request' = [request EXCEPT ![c] = [@ EXCEPT !.step = "answered", !.id = i]]
         \/ ~(p \in accounts /\ Cardinality(TokensOf(p)) < TokenCap)
              /\ NoFailure /\ Turns(c, "refused") /\ UNCHANGED <<holder, usable>>
         \/ Breaks(c, "refused") /\ UNCHANGED <<holder, usable>>
  /\ UNCHANGED <<accounts, session, authRuntime, page>>

\* Only the member's own row is deleted, and then the rest of them is read.
RevokeMcpToken(c) ==
  /\ Doing(c, "revoke")
  /\ LET i == request[c].id
     IN  \/ /\ i \in TokensOf(request[c].as) /\ usable' = usable \ {i}
            /\ NoFailure /\ Turns(c, "relist")
         \/ i \notin TokensOf(request[c].as) /\ NoFailure /\ Turns(c, "refused") /\ UNCHANGED usable
         \/ Breaks(c, "refused") /\ UNCHANGED usable
  /\ UNCHANGED <<accounts, holder, session, authRuntime, page>>

\* The page learns what became of the first read or of an action of its own
\* mount; an answer can be lost on the way.
Learns(c) ==
  /\ request[c].mount = page.mount /\ request[c].step \in {"answered", "refused"}
  /\ \/ NoFailure /\ UNCHANGED <<Rows, authRuntime>>
        /\ request' = [request EXCEPT ![c] = [NoRequest EXCEPT !.step = "learned"]]
     \/ InStep(c, "answered") /\ Breaks(c, "refused") /\ UNCHANGED <<Rows, authRuntime>>
  /\ LET ok == InStep(c, "answered") /\ request'[c].step = "learned"
         id == request[c].id
     IN  page' =
           IF request'[c].step = "refused" THEN page
           ELSE CASE c = Read ->
                       [page EXCEPT !.loading = FALSE, !.known = ok, !.tokens = request[c].tokens]
                  [] request[c].cred.who = "issue" /\ ok ->
                       [page EXCEPT !.busy = FALSE, !.issued = id, !.made = @ \cup {id},
                          !.tokens = IF page.known THEN @ \cup {id} ELSE @]
                  [] request[c].cred.who = "revoke" /\ ok ->
                       [page EXCEPT !.busy = FALSE, !.tokens = request[c].tokens, !.dropped = @ \cup {id},
                          !.issued = IF @ = id THEN 0 ELSE @]
                  [] OTHER -> [page EXCEPT !.busy = FALSE]

(***************************************************************************)
(* Meanwhile                                                               *)
(***************************************************************************)

\* A member issues or revokes a token from another device.
IssuedElsewhere(p) ==
  /\ p \in accounts /\ Unissued # {} /\ Inserts(p, LeastId(Unissued))
  /\ NoFailure /\ UNCHANGED <<accounts, session, authRuntime, request, page>>
RevokedElsewhere(i) ==
  /\ i \in usable /\ usable' = usable \ {i}
  /\ NoFailure /\ UNCHANGED <<accounts, holder, session, authRuntime, request, page>>

SessionEnds ==
  /\ session # Nobody /\ session' = Nobody
  /\ NoFailure /\ UNCHANGED <<accounts, holder, usable, authRuntime, request, page>>

\* The account's tokens and sessions go with it (ON DELETE CASCADE).
AccountDeleted(p) ==
  /\ p \in accounts /\ accounts' = accounts \ {p} /\ usable' = usable \ TokensOf(p)
  /\ session' = IF session = p THEN Nobody ELSE session
  /\ NoFailure /\ UNCHANGED <<holder, authRuntime, request, page>>

AccessNext ==
  \/ \E c \in Requests, cred \in Carried : Arrives(c, cred)
  \/ BuildEnds \/ BuildAuthRuntimeFails
  \/ \E c \in Asked :
       \/ HasRuntime(c) \/ AuthenticateMcpToken(c) \/ VerifyMcpAccessToken(c)
       \/ CallerForUser(c) \/ GetSession(c)
       \/ ListMcpTokens(c) \/ IssueMcpToken(c) \/ RevokeMcpToken(c)
       \/ c \notin Requests /\ Learns(c)
  \/ ConnectOpens
  \/ \E a \in Acts : AsksIssue(a) \/ \E i \in TokenIds : AsksRevoke(a, i)
  \/ \E p \in People : IssuedElsewhere(p) \/ AccountDeleted(p)
  \/ \E i \in TokenIds : RevokedElsewhere(i)
  \/ SessionEnds

AccessSpec == AccessInit /\ [][AccessNext]_accessVars

(***************************************************************************)
(* Properties                                                              *)
(***************************************************************************)

AccessTypeOK ==
  /\ accounts \subseteq People /\ usable \subseteq TokenIds
  /\ holder \in [TokenIds -> People \cup {Nobody}] /\ session \in People \cup {Nobody}
  /\ authRuntime \in {"none", "pending", "fulfilled", "rejected"}
  /\ page.tokens \subseteq TokenIds /\ failures \in 0..AccessFaults

\* However many issue at once, a member holds no more than the cap, and no token
\* outlives its account.
TokensBounded ==
  /\ \A p \in People : Cardinality(TokensOf(p)) <= TokenCap
  /\ \A i \in usable : holder[i] \in accounts

\* Who is let in as a member is the one whose credential it presented, and it was
\* good when the request arrived: a signed token does not outlive its account.
ServedAsOwn ==
  \A c \in Requests :
    LET r == request[c]
    IN  r.step = "served" /\ r.as # Nobody =>
          r.good /\ (r.cred.kind # "personal" => r.as = OfWhom(r.cred))

\* The tools that act on an account are offered to its member only, and those on the
\* shared watchlist to the owner.
OfferedToOwn ==
  \A c \in Requests :
    LET r == request[c]
    IN  r.step = "served" =>
          /\ "orders" \in ToolsOf(r.as) => r.cred.kind \in {"minted", "signed", "personal"} /\ r.good
          /\ "manage" \in ToolsOf(r.as) => r.cred.kind = "personal" \/ OfWhom(r.cred) = SiteOwner

\* Nobody is refused for a fault that is over: a request whose credential is good was
\* hit by one itself (buildAuthRuntime forgets a failed build).
RefusedForCause ==
  \A c \in Requests : InStep(c, "refused") => ~Good(request[c].cred) \/ request[c].faulted

\* Once the list is there, every token this page created and nobody revoked is on it,
\* and what this page revoked is neither listed nor shown (useAgentTokens): an answer
\* that began before the creation does not replace the one that has it.
ConnectListed ==
  /\ page.known => page.made \cap usable \subseteq page.tokens
  /\ page.tokens \cap page.dropped = {} /\ page.issued \notin page.dropped

\* What requests depend on: who they are from, and what the Connect page tells of tokens.
AccessInv ==
  /\ AccessTypeOK /\ TokensBounded /\ ServedAsOwn /\ OfferedToOwn /\ RefusedForCause
  /\ ConnectListed
================================================================================
