----------------------------- MODULE AgentKeyring -----------------------------
(***************************************************************************)
(* The keyring on a member's machine, the programs that write it and the   *)
(* proxy that reads it once, when it starts (ops/spice-agent).  A run of   *)
(* connect-tastytrade.mjs that was given an app grant (BrokerConnection)   *)
(* stores it, reads it back and restarts the proxy; store-credentials.sh   *)
(* stores an agent token or a personal grant entry by entry; the member    *)
(* clears entries by hand.  The proxy refuses a keyring with both kinds.   *)
(***************************************************************************)
EXTENDS Integers, Sequences

CONSTANTS
  Connects,         \* runs of connect-tastytrade.mjs
  AgentTokens,      \* agent tokens the member may paste
  KeyringFailures   \* bound: stores that fail, programs that are killed, entries cleared

ASSUME KeyringAssumption == KeyringFailures \in Nat

VARIABLES
  keyring,    \* the value of every entry
  connect,    \* of a run: "idle", "connecting", "stored", "restarting" or "ended"
  script,     \* what store-credentials.sh has left to do
  proxy,      \* what the proxy has read of the keyring, and has left to read
  troubles,
  unread      \* an entry changed, and the program that changed it will restart nothing

keyringVars == <<keyring, connect, script, proxy, troubles, unread>>

NoEntry == "absent"
Personal == {"client-secret", "refresh-token"}
Entries == {"mcp-token", "app-refresh-token"} \cup Personal

Nothing == [e \in Entries |-> NoEntry]
Down == [step |-> "down", left |-> {}, holds |-> Nothing]
Restarted == [step |-> "reading", left |-> Entries, holds |-> Nothing]

KeyringInit ==
  /\ keyring = Nothing /\ connect = [c \in Connects |-> "idle"] /\ script = <<>>
  /\ proxy = Down /\ troubles = 0 /\ unread = FALSE

Trouble == troubles < KeyringFailures /\ troubles' = troubles + 1
Now(c, step) == connect[c] = step
Then(c, step) == connect' = [connect EXCEPT ![c] = step]

\* Every restart reads the keyring from the start.
Restarts == proxy' = Restarted /\ unread' = FALSE

(***************************************************************************)
(* A run of connect-tastytrade.mjs                                         *)
(***************************************************************************)

\* tastytradeCredentialKind: any part of a personal grant ends the run here.
Connect(c) ==
  /\ Now(c, "idle") /\ keyring["mcp-token"] # NoEntry
  /\ \A e \in Personal : keyring[e] = NoEntry
  /\ Then(c, "connecting")
  /\ UNCHANGED <<keyring, script, proxy, troubles, unread>>

\* keyringStore; what else is in the keyring by now is not looked at again.
StoreGrant(c) ==
  /\ Now(c, "connecting") /\ Then(c, "stored")
  /\ keyring' = [keyring EXCEPT !["app-refresh-token"] = c]
  /\ UNCHANGED <<script, proxy, troubles, unread>>

\* The entry is read back; another run's grant in its place ends this run, and the
\* restart is the other's.
ReadBack(c) ==
  /\ Now(c, "stored")
  /\ Then(c, IF keyring["app-refresh-token"] = c THEN "restarting" ELSE "ended")
  /\ UNCHANGED <<keyring, script, proxy, troubles, unread>>

RestartProxy(c) ==
  /\ Now(c, "restarting") /\ Then(c, "ended") /\ Restarts
  /\ UNCHANGED <<keyring, script, troubles>>

\* The run fails before its grant, or is interrupted.
ConnectEnds(c) ==
  /\ connect[c] \in {"connecting", "stored", "restarting"} /\ Trouble /\ Then(c, "ended")
  /\ unread' = (unread \/ ~Now(c, "connecting"))
  /\ UNCHANGED <<keyring, script, proxy>>

(***************************************************************************)
(* store-credentials.sh                                                    *)
(***************************************************************************)

\* Mutant: the proxy is restarted between the halves of a personal grant.
WritesEarly(what) ==
  IF what = "mcp-token" THEN <<"mcp-token", "restart">> ELSE <<"client-secret", "restart", "refresh-token">>

\* What the script does, by its argument.
Writes(what) ==
  IF what = "mcp-token" THEN <<"mcp-token", "restart">> ELSE <<"client-secret", "refresh-token", "restart">>

RunScript ==
  /\ script = <<>> /\ \E what \in {"mcp-token", "tastytrade"} : script' = Writes(what)
  /\ UNCHANGED <<keyring, connect, proxy, troubles, unread>>

Typed(e) == IF e = "mcp-token" THEN AgentTokens ELSE {"typed"}

\* store: one value typed in and stored.
ScriptStores ==
  /\ script # <<>> /\ Head(script) # "restart" /\ script' = Tail(script)
  /\ \E typed \in Typed(Head(script)) : keyring' = [keyring EXCEPT ![Head(script)] = typed]
  /\ UNCHANGED <<connect, proxy, troubles, unread>>

ScriptRestarts ==
  /\ script # <<>> /\ Head(script) = "restart" /\ script' = Tail(script) /\ Restarts
  /\ UNCHANGED <<keyring, connect, troubles>>

\* A store that fails, or an interrupt, ends the script where it is.
ScriptEnds ==
  /\ script # <<>> /\ Trouble /\ script' = <<>> /\ unread' = TRUE
  /\ UNCHANGED <<keyring, connect, proxy>>

\* The member removes one kind of grant, as the refusals of the proxy and of a run tell
\* them to.
Clear ==
  /\ Trouble /\ unread' = TRUE
  /\ \E kind \in {Personal, {"app-refresh-token"}} :
       /\ \E e \in kind : keyring[e] # NoEntry
       /\ keyring' = [e \in Entries |-> IF e \in kind THEN NoEntry ELSE keyring[e]]
  /\ UNCHANGED <<connect, script, proxy>>

(***************************************************************************)
(* The proxy                                                               *)
(***************************************************************************)

\* The service starts, or systemd starts it again after it exited.
StartProxy ==
  /\ proxy.step = "down" /\ Restarts
  /\ UNCHANGED <<keyring, connect, script, troubles>>

\* keyringSecret: the agent token first, then the three entries side by side.
ProxyReads(e) ==
  /\ proxy.step = "reading" /\ e \in proxy.left
  /\ e = "mcp-token" \/ "mcp-token" \notin proxy.left
  /\ proxy' = [proxy EXCEPT !.left = @ \ {e}, !.holds[e] = keyring[e]]
  /\ UNCHANGED <<keyring, connect, script, troubles, unread>>

BothKinds(holds) == holds["app-refresh-token"] # NoEntry /\ \E e \in Personal : holds[e] # NoEntry

\* Mutant: the app grant has precedence.
UsableEither(holds) == holds["mcp-token"] # NoEntry

\* Without an agent token, or with grants of both kinds, there is nothing to start on.
Usable(holds) == holds["mcp-token"] # NoEntry /\ ~BothKinds(holds)

\* main: the proxy serves, or exits.
ProxyDecides ==
  /\ proxy.step = "reading" /\ proxy.left = {}
  /\ proxy' = IF Usable(proxy.holds) THEN [proxy EXCEPT !.step = "up"] ELSE Down
  /\ UNCHANGED <<keyring, connect, script, troubles, unread>>

KeyringNext ==
  \/ \E c \in Connects :
       Connect(c) \/ StoreGrant(c) \/ ReadBack(c) \/ RestartProxy(c) \/ ConnectEnds(c)
  \/ RunScript \/ ScriptStores \/ ScriptRestarts \/ ScriptEnds \/ Clear
  \/ StartProxy \/ ProxyDecides \/ \E e \in Entries : ProxyReads(e)

KeyringSpec == KeyringInit /\ [][KeyringNext]_keyringVars

(***************************************************************************)
(* Properties                                                              *)
(***************************************************************************)

Writing == script # <<>> \/ \E c \in Connects : connect[c] \in {"stored", "restarting"}

\* Once the writers of the keyring are done, a proxy that runs holds what the keyring
\* holds, and never grants of both kinds, although it reads the entries one by one
\* while runs and scripts that know nothing of each other write them (main,
\* tastytradeCredentialKind).
ProxyIsCurrent ==
  proxy.step = "up" /\ ~Writing /\ ~unread =>
    proxy.holds = keyring /\ ~BothKinds(keyring)
===============================================================================
