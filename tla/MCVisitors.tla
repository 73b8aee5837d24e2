----------------------------- MODULE MCVisitors -----------------------------
(* What reaches a visitor's page, part by part: the series and the yearly reads *)
(* of the feed, the stores of the browser, its live socket, its favorites and   *)
(* its calendar.  The parts share no state, and a behavior runs one of Parts.   *)
EXTENDS FeedSeries, BrowserStore, LiveSocket, BrowserFavorites, BrowserCalendar, TLC
CONSTANTS v1, v2, q1, q2, g1, Parts
VARIABLE part

\* A stock with live rows and one whose snapshot is bare; two yearly reads that
\* overlap on the stock, and one read of an option's Greeks.
MCSeries == {"A", "B"}
MCBare == {"B"}
MCWatched == {"A"}
MCContracts == {"c"}
MCYearReads == {q1, q2}
MCGreeksReads == {g1}
MCReadNames == [q \in {q1, q2, g1} |-> IF q = q1 THEN {"A", "B"} ELSE IF q = q2 THEN {"A"} ELSE {"c"}]
MCBrowsers == {v1, v2}
\* The row that ends a snapshot has a price, or comes before one.
MCEndRows == {"priced", "pending"}
\* Or has none: a bar of today in which nothing was traded.
QuietEnd == {"quiet"}

\* Three symbols to star, in two signed-in tabs.
MCStars == {q1, q2, g1}
MCTabs == {v1, v2}

\* Nothing tells one browser of the series from another, or one tab from another.
Symmetry == Permutations(MCBrowsers)

parts == <<seriesVars, storeVars, socketVars, favoriteVars, calendarVars>>
MCInit ==
  /\ part \in Parts
  /\ SeriesInit /\ StoreInit /\ SocketInit /\ FavoriteInit /\ CalendarInit
  /\ part # "store" => record = Nothing
  /\ part # "socket" => ~visible
  /\ part # "favorites" => stage.symbols = {}
Charts == SeriesNext /\ UNCHANGED <<storeVars, socketVars, favoriteVars, calendarVars>>
Stores == StoreNext /\ UNCHANGED <<seriesVars, socketVars, favoriteVars, calendarVars>>
Feeds == SocketNext /\ UNCHANGED <<seriesVars, storeVars, favoriteVars, calendarVars>>
Favorites == FavoriteNext /\ UNCHANGED <<seriesVars, storeVars, socketVars, calendarVars>>
Calendars == CalendarNext /\ UNCHANGED <<seriesVars, storeVars, socketVars, favoriteVars>>
MCNext ==
  /\ UNCHANGED part
  /\ \/ part = "series" /\ Charts
     \/ part = "store" /\ Stores
     \/ part = "socket" /\ Feeds
     \/ part = "favorites" /\ Favorites
     \/ part = "calendar" /\ Calendars
MCSpec == MCInit /\ [][MCNext]_<<part, parts>>
=============================================================================
