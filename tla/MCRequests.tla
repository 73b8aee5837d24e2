------------------------------ MODULE MCRequests ------------------------------
(* What a request depends on, part by part: the isolate's token for the         *)
(* provider, a member's connection and the keyring behind the member's proxy,   *)
(* who is let in, the page that issues agent tokens, and what an agent reads of *)
(* the account.  The parts share no state, and a behavior runs one of them.     *)
EXTENDS MarketTransport, BrokerConnection, AgentKeyring, AgentAccess, AccountReads
CONSTANTS r1, r2, a1, a2, k1, t1, t2, m1, m2, q1, q2, c1, c2
VARIABLE part
MCReads == {r1, r2}
MCGrants == 1..4
MCAttempts == {a1, a2}
MCPorts == {"8001", "8002"}
MCTokens == {k1}
MCPasted == {t1, t2}
MCPeople == {m1, m2}
MCRequested == {q1, q2}
MCActs == {c1, c2}
MCTokenIds == 1..2
MCHeld == {q1, q2, c1}
MCPlaced == {r1, r2}
MCComplex == {r2}
\* Three strikes of one expiration and one of a later one.
MCListing ==
  {[expiry |-> 1, strike |-> s, optionType |-> IF s = 3 THEN 2 ELSE 1] : s \in 1..3}
    \cup {[expiry |-> 2, strike |-> 2, optionType |-> 1]}
parts == <<transportVars, connectVars, keyringVars, accessVars, readsVars>>
MCInit ==
  /\ part \in {"transport", "connect", "keyring", "agents", "page", "account", "history", "lookup"}
  /\ TransportInit /\ ConnectInit /\ KeyringInit /\ AccessInit /\ ReadsInit
  /\ part # "account" => (\A s \in Held : holding[s] = None) /\ (\A i \in Placed : orders[i] = None)
  /\ part # "history" => Len(history) = 0
\* The page is m1's, and nobody else does anything meanwhile.
OnPage ==
  /\ session' \in {m1, Nobody} /\ m2 \in accounts' /\ \A i \in TokenIds : holder'[i] # m2
  /\ \A q \in Requests : request'[q] = request[q]
MCNext ==
  /\ UNCHANGED part
  /\ \/ /\ part = "transport" /\ TransportNext
        /\ UNCHANGED <<connectVars, keyringVars, accessVars, readsVars>>
     \/ /\ part = "connect" /\ ConnectNext
        /\ UNCHANGED <<transportVars, keyringVars, accessVars, readsVars>>
     \/ /\ part = "keyring" /\ KeyringNext
        /\ UNCHANGED <<transportVars, connectVars, accessVars, readsVars>>
     \/ /\ part \in {"agents", "page"} /\ AccessNext
        /\ IF part = "page" THEN OnPage ELSE UNCHANGED page
        /\ UNCHANGED <<transportVars, connectVars, keyringVars, readsVars>>
     \/ /\ \/ part = "account" /\ SnapshotReads
           \/ part = "history" /\ HistoryReads
           \/ part = "lookup" /\ Lookups
        /\ UNCHANGED <<transportVars, connectVars, keyringVars, accessVars>>
MCSpec == MCInit /\ [][MCNext]_<<part, parts>>
==============================================================================
