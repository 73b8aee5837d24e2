---------------------------- MODULE MarketTransport ----------------------------
(***************************************************************************)
(* tastyRequest on a market path: the market reads of one isolate share a  *)
(* cached access token, wait for a permit of the market gate (PermitQueue  *)
(* has its slots), and repeat once with another token when the first was   *)
(* refused.  A read of an account carries its caller's token, and is never *)
(* repeated.                                                               *)
(*                                                                         *)
(* Time moves in units of which the request timeout is Timeout.            *)
(***************************************************************************)
EXTENDS Integers, FiniteSets

CONSTANTS
  Reads,            \* requests on market paths
  Grants,           \* access tokens the provider issues, as numbers
  TokenLife,             \* expires_in
  Timeout,          \* TASTYTRADE_REQUEST_TIMEOUT_MS
  Tenth,            \* lifetimeMs * MAX_TOKEN_EXPIRY_SKEW_FRACTION
  MintLatency,      \* bound: how long the answer to a mint is on its way
  GateWait,         \* bound: how long a permit is waited for
  TransportClock,   \* bound: the last instant
  Refusals          \* bound: tokens the provider ends early

ASSUME TransportAssumption ==
  /\ Grants \subseteq Nat \ {0} /\ TokenLife \in Nat \ {0} /\ Timeout \in Nat \ {0} /\ Tenth \in Nat
  /\ MintLatency \in Nat /\ GateWait \in Nat /\ TransportClock \in Nat /\ Refusals \in Nat
  /\ MintLatency + GateWait <= Timeout /\ MintLatency + GateWait <= Tenth /\ Tenth < TokenLife

VARIABLES
  moment,
  issued,     \* of a grant: when the provider lets it end; 0 before it is issued
  cached,     \* cachedAccess: the token and when it is retired
  read,       \* the requests
  refusals

transportVars == <<moment, issued, cached, read, refusals>>

NoToken == [token |-> 0, expiresAt |-> 0]
Fresh == [step |-> "idle", token |-> 0, since |-> 0, attempt |-> 0]

TransportInit ==
  /\ moment = 1 /\ issued = [g \in Grants |-> 0] /\ cached = NoToken
  /\ read = [r \in Reads |-> Fresh] /\ refusals = 0

Alive(g) == issued[g] > moment
In(r, step) == read[r].step = step

\* The token goes to the gate with the read.
Carries(r, g) == read' = [read EXCEPT ![r].step = "queued", ![r].token = g, ![r].since = moment]

\* A read begins, or begins again after a refusal.
Ready(r) == In(r, "idle") \/ In(r, "again")

\* accessToken: the cached token, until it is retired.
TakeCached(r) ==
  /\ Ready(r) /\ cached.token # 0 /\ moment < cached.expiresAt /\ Carries(r, cached.token)
  /\ UNCHANGED <<moment, issued, cached, refusals>>

\* refreshAccessToken asks; the token lives from the moment the provider issues it. Two
\* reads that find no token ask side by side.
Mint(r) ==
  /\ Ready(r) /\ (cached.token = 0 \/ moment >= cached.expiresAt)
  /\ \E h \in Grants : issued[h] = 0
  /\ LET g == CHOOSE h \in Grants : issued[h] = 0
     IN  /\ issued' = [issued EXCEPT ![g] = moment + TokenLife]
         /\ read' = [read EXCEPT ![r].step = "minting", ![r].token = g, ![r].since = moment]
  /\ UNCHANGED <<moment, cached, refusals>>

Least(a, b) == IF a <= b THEN a ELSE b

\* Mutant: the token is kept to the end of its life, counted from its arrival.
NoSkew == 0

\* A token is retired one request timeout before its end, or a tenth of its life.
Skew == Least(Timeout, Tenth)

\* The answer arrives; the life is counted from now, and the cache overwritten.
Minted(r) ==
  /\ In(r, "minting") /\ Carries(r, read[r].token)
  /\ cached' = [token |-> read[r].token, expiresAt |-> moment + TokenLife - Skew]
  /\ UNCHANGED <<moment, issued, refusals>>

\* Mutant: the token of the refused read is still the one the cache would give.
KeepRefused(r) == cached

\* Mutant: whatever is cached by now is dropped.
DropAny(r) == NoToken

\* A refusal drops the token it was given for, not one that another read cached since.
Dropped(r) == IF cached.token = read[r].token THEN NoToken ELSE cached

\* The permit came and the provider answers: a live token is accepted, a dead one is
\* refused, and the first refusal repeats the read.
Answered(r) ==
  /\ In(r, "queued")
  /\ IF Alive(read[r].token)
     THEN read' = [read EXCEPT ![r] = [Fresh EXCEPT !.step = "done"]] /\ UNCHANGED cached
     ELSE IF read[r].attempt = 0
     THEN /\ read' = [read EXCEPT ![r] = [Fresh EXCEPT !.step = "again", !.attempt = 1]]
          /\ cached' = Dropped(r)
     ELSE read' = [read EXCEPT ![r] = [Fresh EXCEPT !.step = "refused"]] /\ UNCHANGED cached
  /\ UNCHANGED <<moment, issued, refusals>>

\* The mint fails, or the request ends on the way: the read throws.
Throws(r) ==
  /\ read[r].step \in {"minting", "queued"}
  /\ read' = [read EXCEPT ![r] = [Fresh EXCEPT !.step = "done"]]
  /\ UNCHANGED <<moment, issued, cached, refusals>>

\* The provider ends a token early.
EndEarly(g) ==
  /\ refusals < Refusals /\ refusals' = refusals + 1
  /\ Alive(g) /\ issued' = [issued EXCEPT ![g] = moment]
  /\ UNCHANGED <<moment, cached, read>>

\* The isolate goes, and its cache with it; the reads it served go too.
NewIsolate ==
  /\ cached # NoToken /\ \A r \in Reads : read[r].step \in {"idle", "done", "refused"}
  /\ cached' = NoToken
  /\ UNCHANGED <<moment, issued, read, refusals>>

\* Time passes while no answer or permit is overdue.
Waits(r) ==
  /\ In(r, "minting") => moment < read[r].since + MintLatency
  /\ In(r, "queued") => moment < read[r].since + GateWait

TimePasses ==
  /\ moment < TransportClock /\ \A r \in Reads : Waits(r)
  /\ moment' = moment + 1
  /\ UNCHANGED <<issued, cached, read, refusals>>

TransportNext ==
  \/ \E r \in Reads : TakeCached(r) \/ Mint(r) \/ Minted(r) \/ Answered(r) \/ Throws(r)
  \/ \E g \in Grants : EndEarly(g)
  \/ NewIsolate \/ TimePasses

TransportSpec == TransportInit /\ [][TransportNext]_transportVars

(***************************************************************************)
(* Properties                                                              *)
(***************************************************************************)

\* No market read fails for its token: with permits that come within what the skew
\* leaves after the mint's latency, a token outlives the requests it is handed to, and a
\* token that the provider ends early costs each of the reads that share it one repeat,
\* whichever of them drops it and mints (accessToken, tastyRequest).
ReadsSurvive == \A r \in Reads : ~In(r, "refused")

\* A refusal that arrives late never drops the token that another read has minted in the
\* meantime: only a dead token leaves the cache before its time, apart from the isolate's
\* own end (tastyRequest).
FreshTokenKept ==
  [][\A r \in Reads :
       In(r, "queued") /\ ~In(r, "queued")' /\ cached' # cached => ~Alive(cached.token)]_transportVars

\* The isolate's one token serves every read that shares it: the two above.
TokensServe == []ReadsSurvive /\ FreshTokenKept
===============================================================================
