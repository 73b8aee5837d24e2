----------------------------- MODULE MCProvider -----------------------------
(* What the provider gives only so much of, part by part: the symbols of the    *)
(* relay, and the permits of the gate.  The parts share no state, and a         *)
(* behavior runs one of them.                                                   *)
EXTENDS MCMarketFeed, PermitQueue
CONSTANTS p1, p2, p3, p4
VARIABLE part

MCCalls == {p1, p2, p3, p4}

MCInit == part \in {"feed", "permits"} /\ FeedInit /\ Init
MCNext ==
  /\ UNCHANGED part
  /\ \/ part = "feed" /\ FeedNext /\ UNCHANGED vars
     \/ part = "permits" /\ Next /\ UNCHANGED feedVars
\* FairSpec's fairness, which the feed never puts to use.
MCSpec ==
  /\ MCInit /\ [][MCNext]_<<part, feedVars, vars>>
  /\ WF_vars(part = "permits" /\ Tick)
  /\ \A c \in Calls : WF_vars(part = "permits" /\ Written(c)) /\ WF_vars(part = "permits" /\ Grant(c))
=============================================================================
