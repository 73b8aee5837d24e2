----------------------------- MODULE MCRecovers -----------------------------
(* What has to happen in the end, whatever failed before: the feed is live      *)
(* again, and the snapshot is asked about and filled.  The parts share no       *)
(* state, and a behavior runs one of them.                                      *)
EXTENDS MarketFeed, PublicSnapshot
CONSTANTS b1, v1, i1, i2
VARIABLE part

\* One browser, one symbol, two upstream sockets.
MCReaders == {b1}
MCSymbols == {1}
MCReads == {}
MCReadType == [q \in {} |-> "Greeks"]
MCReadSymbols == [q \in {} |-> {1}]
MCFeedTypes == {"Quote", "Candle", "Greeks"}
MCStreamTypes == {"Quote", "Candle"}
MCLinks == {1, 2}

\* One reader of one location, in two isolates.
MCViewers == {v1}
MCIsolates == {i1, i2}

\* While the feed runs, the snapshot is kept, fresh, before the bell.
SnapshotAside ==
  /\ market = "shut" /\ store = [age |-> 0, session |-> "waiting"] /\ lease = 0 /\ edge = NoCopy
  /\ flow = [f \in Flows |-> Idle] /\ inFlight = {} /\ faults = 0

MCInit ==
  /\ part \in {"feed", "snapshot"}
  /\ FeedInit /\ IF part = "snapshot" THEN SnapshotInit ELSE SnapshotAside
MCNext ==
  /\ UNCHANGED part
  /\ \/ part = "feed" /\ FeedNext /\ UNCHANGED snapshotVars
     \/ part = "snapshot" /\ SnapshotNext /\ UNCHANGED feedVars

\* The fairness of FeedFairSpec and of SnapshotSpec, each while its part runs.
InFeed(A) == part = "feed" /\ A
FairFeed ==
  /\ WF_feedVars(InFeed(UniverseRead)) /\ WF_feedVars(InFeed(CredentialsLoaded))
  /\ WF_feedVars(InFeed(AlarmFires)) /\ WF_feedVars(InFeed(KeepaliveBeats))
  /\ WF_feedVars(InFeed(LinkOpens)) /\ WF_feedVars(InFeed(InitialUnauthorized))
  /\ WF_feedVars(InFeed(Authorized)) /\ WF_feedVars(InFeed(AuthorizationFails))
  /\ \A t \in FeedTypes :
       WF_feedVars(InFeed(ChannelOpened(t))) /\ WF_feedVars(InFeed(relay.served[t] # {} /\ FeedConfig(t)))
  /\ \A r \in Readers : WF_feedVars(InFeed(relay.readers[r].state \in {"closing", "gone"} /\ ReaderCloses(r)))
FairSnapshot ==
  /\ WF_snapshotVars(part = "snapshot" /\ SnapshotTick)
  /\ \A f \in Flows : WF_snapshotVars(part = "snapshot" /\ FlowStep(f))
  /\ \A i \in Isolates : SF_snapshotVars(part = "snapshot" /\ \E r \in Viewers : Request(r, i))
MCSpec ==
  /\ MCInit /\ [][MCNext]_<<part, feedVars, snapshotVars>>
  /\ FairFeed /\ FairSnapshot
=============================================================================
