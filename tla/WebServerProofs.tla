--------------------------- MODULE WebServerProofs ---------------------------
(***************************************************************************)
(* What WebServer does for any set of posts, any readings, any table to    *)
(* begin with and any number of restarts: no accepted reading is lost, the *)
(* summaries follow the readings, and the latest reading stays.            *)
(***************************************************************************)
EXTENDS WebServer, TLAPS

-----------------------------------------------------------------------------
(* The triggers.                                                           *)

LEMMA Periods ==
  ASSUME NEW interval \in Intervals, NEW t \in Nat, NEW u \in Nat
  PROVE  /\ PeriodEnd(interval, t) \in Nat
         /\ PeriodEnd(interval, t) = PeriodEnd(interval, u) <=>
              /\ PeriodEnd(interval, t) - interval < u
              /\ u <= PeriodEnd(interval, t)
<1>1. CASE interval = 100
  BY <1>1 DEF PeriodEnd
<1>2. CASE interval = 600
  BY <1>2 DEF PeriodEnd
<1> QED  BY <1>1, <1>2 DEF Intervals

LEMMA PeriodRows ==
  ASSUME NEW data, data \subseteq RowType, NEW interval \in Intervals, NEW t \in Nat
  PROVE  InPeriod(data, interval, t) =
           {row \in data : PeriodEnd(interval, row.timestamp) = PeriodEnd(interval, t)}
<1>1. \A row \in data : row.timestamp \in Nat
  BY DEF RowType
<1>2. ASSUME NEW row \in data
      PROVE  row \in InPeriod(data, interval, t) <=>
               PeriodEnd(interval, row.timestamp) = PeriodEnd(interval, t)
  BY <1>1, Periods DEF InPeriod
<1>3. InPeriod(data, interval, t) \subseteq data
  BY DEF InPeriod
<1> QED  BY <1>2, <1>3

LEMMA SamePeriod ==
  ASSUME NEW data, NEW interval, NEW t, NEW u,
         PeriodEnd(interval, t) = PeriodEnd(interval, u)
  PROVE  Summary(data, interval, t) = Summary(data, interval, u)
BY DEF Summary, InPeriod

\* A table that differs in the rows of one second only has the same summaries
\* of every other period.
LEMMA OtherPeriod ==
  ASSUME NEW data, data \subseteq RowType, NEW new, new \subseteq RowType,
         NEW t \in Nat,
         \A row \in RowType : row.timestamp # t => (row \in data <=> row \in new),
         NEW interval \in Intervals, NEW u \in Nat,
         PeriodEnd(interval, t) # PeriodEnd(interval, u)
  PROVE  Summary(data, interval, u) = Summary(new, interval, u)
<1>1. ASSUME NEW row \in RowType, PeriodEnd(interval, row.timestamp) = PeriodEnd(interval, u)
      PROVE  row \in data <=> row \in new
  BY <1>1
<1>2. InPeriod(data, interval, u) = InPeriod(new, interval, u)
  <2> DEFINE In(d) == {row \in d : PeriodEnd(interval, row.timestamp) = PeriodEnd(interval, u)}
  <2>1. In(data) \subseteq In(new) /\ In(new) \subseteq In(data)
    BY <1>1
  <2>2. In(data) = InPeriod(data, interval, u) /\ In(new) = InPeriod(new, interval, u)
    BY PeriodRows
  <2> HIDE DEF In
  <2> QED  BY <2>1, <2>2
<1> QED  BY <1>2 DEF Summary

\* The triggers keep the summaries when a statement changes the rows of one
\* second and leaves no period of it empty.
LEMMA TriggersKeep ==
  ASSUME NEW table, NEW data, data \subseteq RowType, NEW new, new \subseteq RowType,
         NEW t \in Nat,
         \A row \in RowType : row.timestamp # t => (row \in data <=> row \in new),
         Summarisable(new, t), table = AllSummaries(data)
  PROVE  Resummarised(table, new, t) = AllSummaries(new)
<1>1. \A row \in RowType : row.timestamp \in Nat
  BY DEF RowType
<1>2. ASSUME NEW s \in Resummarised(table, new, t)
      PROVE  s \in AllSummaries(new)
  <2>1. CASE s \in table /\ s.timestamp # PeriodEnd(s.interval, t)
    <3>1. PICK interval \in Intervals, row \in data : s = Summary(data, interval, row.timestamp)
      BY <2>1 DEF AllSummaries
    <3>2. s.interval = interval /\ s.timestamp = PeriodEnd(interval, row.timestamp)
      BY <3>1 DEF Summary
    <3>3. PeriodEnd(interval, t) # PeriodEnd(interval, row.timestamp)
      BY <2>1, <3>2
    <3>4. row \in RowType /\ row.timestamp \in Nat
      BY <1>1
    <3>5. row \in new
      BY <3>3, <3>4
    <3>6. s = Summary(new, interval, row.timestamp)
      BY <3>1, <3>3, <3>4, OtherPeriod
    <3> QED  BY <3>5, <3>6 DEF AllSummaries
  <2>2. CASE \E interval \in Intervals : s = Summary(new, interval, t)
    <3>1. PICK interval \in Intervals : s = Summary(new, interval, t)
      BY <2>2
    <3>2. PICK row \in InPeriod(new, interval, t) : TRUE
      BY DEF Summarisable
    <3>3. row \in new /\ row.timestamp \in Nat
      BY <1>1, <3>2 DEF InPeriod
    <3>4. PeriodEnd(interval, t) = PeriodEnd(interval, row.timestamp)
      BY <3>2, PeriodRows
    <3>5. s = Summary(new, interval, row.timestamp)
      BY <3>1, <3>3, <3>4, SamePeriod
    <3> QED  BY <3>3, <3>5 DEF AllSummaries
  <2> QED  BY <2>1, <2>2 DEF Resummarised
<1>3. ASSUME NEW s \in AllSummaries(new)
      PROVE  s \in Resummarised(table, new, t)
  <2>1. PICK interval \in Intervals, row \in new : s = Summary(new, interval, row.timestamp)
    BY <1>3 DEF AllSummaries
  <2>2. row \in RowType /\ row.timestamp \in Nat
    BY <1>1
  <2>3. CASE PeriodEnd(interval, t) = PeriodEnd(interval, row.timestamp)
    <3>1. s = Summary(new, interval, t)
      BY <2>1, <2>2, <2>3, SamePeriod
    <3> QED  BY <3>1 DEF Resummarised
  <2>4. CASE PeriodEnd(interval, t) # PeriodEnd(interval, row.timestamp)
    <3>1. row \in data
      BY <2>2, <2>4
    <3>2. s = Summary(data, interval, row.timestamp)
      BY <2>1, <2>2, <2>4, OtherPeriod
    <3>3. s \in table
      BY <3>1, <3>2 DEF AllSummaries
    <3>4. s.timestamp # PeriodEnd(s.interval, t)
      BY <2>4, <3>2 DEF Summary
    <3> QED  BY <3>3, <3>4 DEF Resummarised
  <2> QED  BY <2>3, <2>4
<1> QED  BY <1>2, <1>3

-----------------------------------------------------------------------------
(* Steps of the handlers.                                                  *)

LEMMA RowOfReading ==
  ASSUME NEW reading \in Readings
  PROVE  Row(reading) \in RowType /\ Row(reading).timestamp = reading.timestamp
BY ReadingsAssumption DEF Row, RowType

LEMMA HandlerIsTyped ==
  ASSUME NEW handler \in HandlerType
  PROVE  /\ handler.at # "waiting" => handler.own \in Readings
         /\ handler.at \in Judging \cup {"remove"} =>
              handler.records \in [last : RowType, previous : RowType]
BY DEF HandlerType, Judging

\* A handler that goes on without touching a table.
LEMMA Quiet ==
  ASSUME IInv, UNCHANGED <<station_data, discarded_data, summaries>>,
         posts' \in [Requests -> HandlerType],
         \A r \in Requests :
            /\ posts'[r].at \in Answered =>
                 posts[r].at \in Answered /\ posts'[r].own = posts[r].own
            /\ posts'[r].at = "accepted" => posts'[r] = posts[r]
            /\ posts'[r].at \in Judging =>
                 /\ posts[r].at \in Judging /\ posts'[r].records = posts[r].records
                 /\ posts'[r].at = "delete" => posts[r].at = "delete"
  PROVE  IInv'
<1>1. TypeOK'
  BY DEF IInv, TypeOK
<1>2. NothingLost'
  BY DEF IInv, NothingLost
<1>3. SummariesFollow'
  BY DEF IInv, SummariesFollow
<1>4. JudgedKept'
  BY DEF IInv, JudgedKept
<1>5. LaterStored'
  BY DEF IInv, LaterStored
<1> QED  BY <1>1, <1>2, <1>3, <1>4, <1>5 DEF IInv

LEMMA PostStep ==
  ASSUME IInv, NEW r \in Requests, Post(r)
  PROVE  IInv'
<1>1. PICK reading \in Readings : posts' = [posts EXCEPT ![r] = Handler("insert", reading)]
  BY DEF Post, Becomes
<1>2. Handler("insert", reading) \in HandlerType
  BY DEF Handler, HandlerType
<1>3. posts' \in [Requests -> HandlerType]
  BY <1>1, <1>2 DEF IInv, TypeOK
<1>4. posts'[r].at = "insert" /\ \A q \in Requests \ {r} : posts'[q] = posts[q]
  BY <1>1 DEF Handler, IInv, TypeOK
<1> QED  BY <1>3, <1>4, Quiet DEF Post, Answered, Judging

\* A handler that ends, or that is done with its culling.
LEMMA GoesOn ==
  ASSUME IInv, NEW r \in Requests, NEW at,
         posts[r].at \notin {"waiting"}, at \in {"refused", "announce", "done", "failed"},
         at # "refused" => posts[r].at \in Answered,
         \/ at # "failed" /\ Becomes(r, Handler(at, posts[r].own))
         \/ at = "failed" /\ posts[r].at = "delete" /\ Goes(r, at)
         \/ posts[r].at \in {"insert", "accepted", "announce"} /\ Goes(r, at),
         UNCHANGED <<station_data, discarded_data, summaries>>
  PROVE  IInv'
<1>1. posts[r] \in HandlerType /\ posts[r].own \in Readings
  BY HandlerIsTyped DEF IInv, TypeOK
<1>2. PICK handler : /\ posts' = [posts EXCEPT ![r] = handler]
                     /\ handler \in HandlerType
                     /\ handler.at = at /\ handler.own = posts[r].own
  <2>1. CASE Becomes(r, Handler(at, posts[r].own))
    <3> DEFINE h == Handler(at, posts[r].own)
    <3>1. h \in HandlerType /\ h.at = at /\ h.own = posts[r].own
      BY <1>1 DEF Handler, HandlerType
    <3>2. posts' = [posts EXCEPT ![r] = h]
      BY <2>1 DEF Becomes
    <3> HIDE DEF h
    <3> QED  BY <3>1, <3>2
  <2>2. CASE (posts[r].at \in {"insert", "accepted", "announce"} /\ Goes(r, at))
              \/ (at = "failed" /\ posts[r].at = "delete" /\ Goes(r, at))
    <3> DEFINE h == [posts[r] EXCEPT !.at = at]
    <3>1. h \in HandlerType /\ h.at = at /\ h.own = posts[r].own
      <4>1. CASE posts[r].at \in {"insert", "accepted", "announce"}
        BY <1>1, <4>1 DEF HandlerType, Judging
      <4>2. CASE at = "failed" /\ posts[r].at = "delete"
        BY <1>1, <4>2 DEF HandlerType, Judging
      <4> QED  BY <2>2, <4>1, <4>2
    <3>2. posts' = [posts EXCEPT ![r] = h]
      BY <2>2 DEF Goes
    <3> HIDE DEF h
    <3> QED  BY <3>1, <3>2
  <2> QED  BY <2>1, <2>2
<1>3. posts' \in [Requests -> HandlerType]
  BY <1>2 DEF IInv, TypeOK
<1>4. posts'[r].at = at /\ posts'[r].own = posts[r].own
      /\ \A q \in Requests \ {r} : posts'[q] = posts[q]
  BY <1>2 DEF IInv, TypeOK
<1> QED  BY <1>3, <1>4, Quiet DEF Answered, Judging
LEMMA ReadStatsStep ==
  ASSUME IInv, NEW r \in Requests, ReadStats(r)
  PROVE  IInv'
<1>1. CASE StandsOut(station_data, posts[r].records)
  <2> DEFINE h == [posts[r] EXCEPT !.at = "discard"]
  <2>1. posts[r] \in HandlerType /\ posts[r].at = "compare"
    BY DEF ReadStats, At, IInv, TypeOK
  <2>2. h \in HandlerType /\ h.at = "discard" /\ h.records = posts[r].records /\ h.own = posts[r].own
    BY <2>1 DEF HandlerType, Judging
  <2>3. posts' = [posts EXCEPT ![r] = h]
    BY <1>1 DEF ReadStats, Goes
  <2> HIDE DEF h
  <2>4. posts' \in [Requests -> HandlerType]
    BY <2>2, <2>3 DEF IInv, TypeOK
  <2>5. posts'[r] = h /\ \A q \in Requests \ {r} : posts'[q] = posts[q]
    BY <2>3 DEF IInv, TypeOK
  <2> QED  BY <2>1, <2>2, <2>4, <2>5, Quiet DEF ReadStats, Answered, Judging
<1>2. CASE ~StandsOut(station_data, posts[r].records)
  BY <1>2, GoesOn DEF ReadStats, At, Answered
<1> QED  BY <1>1, <1>2

LEMMA EndStep ==
  ASSUME IInv, NEW r \in Requests,
         InsertDuplicate(r) \/ DeleteAborted(r) \/ SendRemove(r) \/ SendAdd(r)
  PROVE  IInv'
<1>1. CASE InsertDuplicate(r)
  BY <1>1, GoesOn DEF InsertDuplicate, At
<1>2. CASE DeleteAborted(r)
  BY <1>2, GoesOn DEF DeleteAborted, At, Answered
<1>3. CASE SendRemove(r)
  BY <1>3, GoesOn DEF SendRemove, At, Answered
<1>4. CASE SendAdd(r)
  BY <1>4, GoesOn DEF SendAdd, At, Answered
<1> QED  BY <1>1, <1>2, <1>3, <1>4

LEMMA RestartStep ==
  ASSUME IInv, Restart
  PROVE  IInv'
<1>1. ASSUME NEW handler \in HandlerType
      PROVE  /\ Ended(handler) \in HandlerType
             /\ Ended(handler).at \notin Judging \cup {"accepted"}
             /\ Ended(handler).at \in Answered =>
                  handler.at \in Answered /\ Ended(handler).own = handler.own
  <2>1. CASE handler.at \in {"waiting", "refused", "failed", "done", "lost", "stopped"}
    BY <2>1 DEF Ended, Judging
  <2>2. CASE handler.at = "insert"
    BY <2>2, HandlerIsTyped DEF Ended, Handler, HandlerType, Judging, Answered
  <2>3. CASE handler.at \in {"accepted", "announce", "remove"} \cup Judging
    BY <2>3, HandlerIsTyped DEF Ended, Handler, HandlerType, Judging, Answered
  <2>4. handler.at \in {"waiting", "refused", "failed", "done", "lost", "stopped", "insert",
                        "accepted", "announce", "remove"} \cup Judging
    BY DEF HandlerType, Judging
  <2> QED  BY <2>1, <2>2, <2>3, <2>4
<1>2. posts \in [Requests -> HandlerType] /\ posts' = [q \in Requests |-> Ended(posts[q])]
  BY DEF IInv, TypeOK, Restart
<1>3. posts' \in [Requests -> HandlerType] /\ \A q \in Requests : posts'[q] = Ended(posts[q])
  BY <1>1, <1>2
<1> QED  BY <1>1, <1>2, <1>3, Quiet DEF Restart

LEMMA ReadLastRecordsStep ==
  ASSUME IInv, NEW r \in Requests, ReadLastRecords(r)
  PROVE  IInv'
<1>1. posts[r].at = "accepted" /\ posts[r] \in HandlerType /\ posts[r].own \in Readings
  BY HandlerIsTyped DEF ReadLastRecords, At, IInv, TypeOK
<1>2. CASE Goes(r, "announce")
  BY <1>1, <1>2, GoesOn DEF ReadLastRecords, Answered
<1>3. CASE ~Goes(r, "announce")
  <2>1. PICK records \in LastRecords(station_data, posts[r].own.timestamp),
             at \in {"compare", "discard"} :
          posts' = [posts EXCEPT ![r] = Culling(at, posts[r].own, records)]
    BY <1>3 DEF ReadLastRecords, Becomes
  <2> DEFINE h == Culling(at, posts[r].own, records)
  <2>2. /\ records.last \in station_data
        /\ records.last.timestamp < posts[r].own.timestamp
        /\ records \in [last : RowType, previous : RowType]
    BY <2>1 DEF LastRecords, Before, IInv, TypeOK
  <2>3. h \in HandlerType /\ h.at = at /\ h.own = posts[r].own /\ h.records = records
    BY <1>1, <2>2 DEF Culling, HandlerType, Judging
  <2>4. posts' = [posts EXCEPT ![r] = h]
    BY <2>1
  <2> HIDE DEF h
  <2>5. posts'[r] = h /\ \A q \in Requests \ {r} : posts'[q] = posts[q]
    BY <2>4 DEF IInv, TypeOK
  <2>6. UNCHANGED <<station_data, discarded_data, summaries>>
    BY DEF ReadLastRecords
  <2>7. TypeOK'
    BY <2>3, <2>4, <2>6 DEF IInv, TypeOK
  <2>8. NothingLost'
    BY <1>1, <2>3, <2>5, <2>6 DEF IInv, NothingLost, Answered
  <2>9. SummariesFollow'
    BY <2>6 DEF IInv, SummariesFollow
  <2>10. JudgedKept'
    BY <2>2, <2>3, <2>5, <2>6 DEF IInv, JudgedKept
  <2>11. LaterStored'
    <3>1. PICK row \in station_data : row.timestamp >= posts[r].own.timestamp
      BY <1>1 DEF IInv, LaterStored
    <3>2. row.timestamp > records.last.timestamp
      <4>1. row.timestamp \in Nat /\ records.last.timestamp \in Nat /\ posts[r].own.timestamp \in Nat
        BY <1>1, <2>2, ReadingsAssumption DEF IInv, TypeOK, RowType
      <4> QED  BY <2>2, <3>1, <4>1
    <3>3. posts'[r].at # "accepted"
      BY <2>1, <2>3, <2>5
    <3> QED  BY <2>3, <2>5, <2>6, <3>1, <3>2, <3>3 DEF IInv, LaterStored
  <2> QED  BY <2>7, <2>8, <2>9, <2>10, <2>11 DEF IInv
<1> QED  BY <1>2, <1>3
\* What Goes does to a handler.
LEMMA Going ==
  ASSUME IInv, NEW r \in Requests, NEW at, Goes(r, at),
         \/ posts[r].at = "insert" /\ at \in {"refused", "accepted"}
         \/ posts[r].at \in Judging /\ at \in {"delete", "remove"}
  PROVE  /\ posts' \in [Requests -> HandlerType]
         /\ posts'[r].at = at /\ posts'[r].own = posts[r].own
         /\ at \in {"delete", "remove"} => posts'[r].records = posts[r].records
         /\ \A q \in Requests \ {r} : posts'[q] = posts[q]
<1> DEFINE h == [posts[r] EXCEPT !.at = at]
<1>1. posts[r] \in HandlerType
  BY DEF IInv, TypeOK
<1>2. h \in HandlerType /\ h.at = at /\ h.own = posts[r].own
      /\ (at \in {"delete", "remove"} => h.records = posts[r].records)
  <2>1. CASE posts[r].at = "insert" /\ at \in {"refused", "accepted"}
    BY <1>1, <2>1 DEF HandlerType, Judging
  <2>2. CASE posts[r].at \in Judging /\ at \in {"delete", "remove"}
    BY <1>1, <2>2 DEF HandlerType, Judging
  <2> QED  BY <2>1, <2>2
<1>3. posts' = [posts EXCEPT ![r] = h]
  BY DEF Goes
<1> HIDE DEF h
<1>4. posts' \in [Requests -> HandlerType]
  BY <1>2, <1>3 DEF IInv, TypeOK
<1>5. posts'[r] = h /\ \A q \in Requests \ {r} : posts'[q] = posts[q]
  BY <1>3 DEF IInv, TypeOK
<1> QED  BY <1>2, <1>4, <1>5

LEMMA InsertDiscardedStep ==
  ASSUME IInv, NEW r \in Requests, InsertDiscarded(r)
  PROVE  IInv'
<1>1. /\ posts[r].at = "insert" /\ posts[r].own \in Readings
      /\ Row(posts[r].own) \in RowType
  BY HandlerIsTyped, RowOfReading DEF InsertDiscarded, At, IInv, TypeOK
<1>2. /\ posts' \in [Requests -> HandlerType] /\ posts'[r].at = "refused"
      /\ \A q \in Requests \ {r} : posts'[q] = posts[q]
  BY <1>1, Going DEF InsertDiscarded
<1>3. discarded_data \subseteq discarded_data' /\ UNCHANGED <<station_data, summaries>>
  BY DEF InsertDiscarded
<1>4. TypeOK'
  BY <1>1, <1>2, <1>3 DEF IInv, TypeOK, InsertDiscarded
<1>5. NothingLost'
  BY <1>2, <1>3 DEF IInv, NothingLost, Answered
<1>6. SummariesFollow'
  BY <1>3 DEF IInv, SummariesFollow
<1>7. JudgedKept'
  BY <1>2, <1>3 DEF IInv, JudgedKept, Judging
<1>8. LaterStored'
  BY <1>2, <1>3 DEF IInv, LaterStored, Judging
<1> QED  BY <1>4, <1>5, <1>6, <1>7, <1>8 DEF IInv

LEMMA InsertDataStep ==
  ASSUME IInv, NEW r \in Requests, InsertData(r)
  PROVE  IInv'
<1> DEFINE own == posts[r].own
           row == Row(own)
<1>1. posts[r].at = "insert" /\ own \in Readings
  BY HandlerIsTyped DEF InsertData, At, IInv, TypeOK
<1>2. row \in RowType /\ row.timestamp = own.timestamp /\ own.timestamp \in Nat
  BY <1>1, RowOfReading DEF RowType
<1>3. /\ posts' \in [Requests -> HandlerType] /\ posts'[r].at = "accepted" /\ posts'[r].own = own
      /\ \A q \in Requests \ {r} : posts'[q] = posts[q]
  BY <1>1, Going DEF InsertData
<1>4. station_data' = station_data \cup {row} /\ UNCHANGED discarded_data
  BY DEF InsertData
<1> HIDE DEF row, own
<1>5. TypeOK'
  BY <1>2, <1>3, <1>4 DEF IInv, TypeOK
<1>6. NothingLost'
  BY <1>3, <1>4 DEF IInv, NothingLost, row, own
<1>7. SummariesFollow'
  <2> DEFINE t == own.timestamp
  <2>1. PICK new : new = station_data'
    OBVIOUS
  <2>2. station_data \subseteq RowType /\ new \subseteq RowType /\ row \in new
    BY <1>4, <1>5, <2>1 DEF IInv, TypeOK
  <2>3. \A other \in RowType : other.timestamp # t => (other \in station_data <=> other \in new)
    BY <1>2, <1>4, <2>1
  <2>4. Summarisable(new, t)
    <3> SUFFICES ASSUME NEW interval \in Intervals PROVE InPeriod(new, interval, t) # {}
      BY DEF Summarisable
    <3>1. t \in Nat /\ row.timestamp = t
      BY <1>2
    <3>2. InPeriod(new, interval, t) =
            {r2 \in new : PeriodEnd(interval, r2.timestamp) = PeriodEnd(interval, t)}
      BY <2>2, <3>1, PeriodRows
    <3> QED  BY <2>2, <3>1, <3>2
  <2>5. Resummarised(summaries, new, t) = AllSummaries(new)
    BY <1>2, <2>2, <2>3, <2>4, TriggersKeep DEF IInv, SummariesFollow
  <2>6. summaries' = Resummarised(summaries, new, t)
    BY <2>1 DEF InsertData, own
  <2> QED  BY <2>1, <2>5, <2>6 DEF SummariesFollow
<1>8. JudgedKept'
  BY <1>3, <1>4 DEF IInv, JudgedKept, Judging
<1>9. LaterStored'
  BY <1>2, <1>3, <1>4 DEF IInv, LaterStored, Judging
<1> QED  BY <1>5, <1>6, <1>7, <1>8, <1>9 DEF IInv

LEMMA InsertCulledStep ==
  ASSUME IInv, NEW r \in Requests, InsertCulled(r)
  PROVE  IInv'
<1>1. posts[r].at = "discard" /\ posts[r].at \in Judging
  BY DEF InsertCulled, At, Judging
<1>2. /\ posts' \in [Requests -> HandlerType] /\ posts'[r].at = "delete"
      /\ posts'[r].own = posts[r].own /\ posts'[r].records = posts[r].records
      /\ \A q \in Requests \ {r} : posts'[q] = posts[q]
  BY <1>1, Going DEF InsertCulled
<1>3. /\ discarded_data' = discarded_data \cup {[row |-> row, by |-> r] : row \in ToDelete(r)}
      /\ UNCHANGED <<station_data, summaries>>
  BY DEF InsertCulled
<1>4. discarded_data \subseteq discarded_data'
  BY <1>3
<1>5. TypeOK'
  BY <1>2, <1>3 DEF IInv, TypeOK, ToDelete
<1>6. NothingLost'
  BY <1>1, <1>2, <1>3, <1>4 DEF IInv, NothingLost, Answered
<1>7. SummariesFollow'
  BY <1>3 DEF IInv, SummariesFollow
<1>8. JudgedKept'
  <2> DEFINE ts == posts[r].records.last.timestamp
  <2>1. \E d \in discarded_data' : d.row.timestamp = ts
    <3>1. CASE \E d \in discarded_data : d.row.timestamp = ts
      BY <1>4, <3>1
    <3>2. CASE \E row \in station_data : row.timestamp = ts
      <4>1. PICK row \in ToDelete(r) : row.timestamp = ts
        BY <3>2 DEF ToDelete
      <4>2. [row |-> row, by |-> r] \in discarded_data'
        BY <1>3, <4>1
      <4> QED  BY <4>1, <4>2
    <3> QED  BY <1>1, <3>1, <3>2 DEF IInv, JudgedKept
  <2> HIDE DEF ts
  <2>2. ASSUME NEW q \in Requests \ {r}, posts'[q].at \in Judging
        PROVE  \/ \E d \in discarded_data' : d.row.timestamp = posts'[q].records.last.timestamp
               \/ posts'[q].at # "delete"
                    /\ \E row \in station_data' : row.timestamp = posts'[q].records.last.timestamp
    BY <1>2, <1>3, <1>4, <2>2 DEF IInv, JudgedKept
  <2> QED  BY <1>2, <2>1, <2>2 DEF JudgedKept, ts
<1>9. LaterStored'
  BY <1>1, <1>2, <1>3 DEF IInv, LaterStored
<1> QED  BY <1>5, <1>6, <1>7, <1>8, <1>9 DEF IInv
\* What a deletion leaves: the rows of other seconds, and one after the second
\* that is deleted.
LEMMA Deletion ==
  ASSUME IInv, NEW r \in Requests, DeleteCulled(r)
  PROVE  /\ posts[r].records.last.timestamp \in Nat
         /\ station_data' \subseteq station_data
         /\ \A row \in station_data :
              row.timestamp # posts[r].records.last.timestamp => row \in station_data'
         /\ \E row \in station_data' : row.timestamp > posts[r].records.last.timestamp
         /\ \E d \in discarded_data : d.row.timestamp = posts[r].records.last.timestamp
<1> DEFINE ts == posts[r].records.last.timestamp
<1>1. posts[r].at = "delete" /\ posts[r].at \in Judging
  BY DEF DeleteCulled, At, Judging
<1>2. ts \in Nat
  BY <1>1, HandlerIsTyped DEF IInv, TypeOK, RowType
<1>3. station_data' = station_data \ ToDelete(r)
  BY DEF DeleteCulled
<1>4. \A row \in station_data : row.timestamp # ts => row \in station_data'
  BY <1>3 DEF ToDelete
<1>5. PICK row \in station_data : row.timestamp > ts
  BY <1>1 DEF IInv, LaterStored
<1>6. row.timestamp \in Nat
  BY DEF IInv, TypeOK, RowType
<1>7. row \in station_data'
  BY <1>2, <1>4, <1>5, <1>6
<1>8. \E d \in discarded_data : d.row.timestamp = ts
  BY <1>1 DEF IInv, JudgedKept
<1> QED  BY <1>2, <1>3, <1>4, <1>5, <1>7, <1>8

LEMMA DeleteCulledStep ==
  ASSUME IInv, NEW r \in Requests, DeleteCulled(r)
  PROVE  IInv'
<1> DEFINE ts == posts[r].records.last.timestamp
<1>1. posts[r].at = "delete" /\ posts[r].at \in Judging
  BY DEF DeleteCulled, At, Judging
<1>2. /\ posts' \in [Requests -> HandlerType] /\ posts'[r].at = "remove"
      /\ posts'[r].own = posts[r].own
      /\ \A q \in Requests \ {r} : posts'[q] = posts[q]
  BY <1>1, Going DEF DeleteCulled
<1>3. /\ ts \in Nat
      /\ station_data' \subseteq station_data
      /\ \A row \in station_data : row.timestamp # ts => row \in station_data'
      /\ \E row \in station_data' : row.timestamp > ts
      /\ \E d \in discarded_data : d.row.timestamp = ts
  BY Deletion
<1>4. UNCHANGED discarded_data
  BY DEF DeleteCulled
<1>5. \A row \in station_data : row.timestamp \in Nat
  BY DEF IInv, TypeOK, RowType
<1>6. SummariesFollow'
  <2>1. PICK new : new = station_data \ ToDelete(r)
    OBVIOUS
  <2>2. station_data' = new /\ station_data \subseteq RowType /\ new \subseteq RowType
    BY <2>1 DEF DeleteCulled, IInv, TypeOK
  <2>3. CASE ToDelete(r) = {}
    BY <2>3 DEF DeleteCulled, IInv, SummariesFollow
  <2>4. CASE ToDelete(r) # {}
    <3>1. Summarisable(new, ts) /\ summaries' = Resummarised(summaries, new, ts)
      BY <2>1, <2>4 DEF DeleteCulled
    <3>2. \A row \in RowType : row.timestamp # ts => (row \in station_data <=> row \in new)
      BY <2>1 DEF ToDelete
    <3>3. summaries = AllSummaries(station_data)
      BY DEF IInv, SummariesFollow
    <3> HIDE DEF ts
    <3>4. Resummarised(summaries, new, ts) = AllSummaries(new)
      BY <1>3, <2>2, <3>1, <3>2, <3>3, TriggersKeep
    <3> QED  BY <2>2, <3>1, <3>4 DEF SummariesFollow
  <2> QED  BY <2>3, <2>4
<1>7. TypeOK'
  BY <1>2, <1>3, <1>4 DEF IInv, TypeOK
<1> HIDE DEF ts
<1>8. NothingLost'
  <2> SUFFICES ASSUME NEW q \in Requests, posts'[q].at \in Answered
               PROVE  \/ Row(posts'[q].own) \in station_data'
                      \/ \E d \in discarded_data' : d.row.timestamp = posts'[q].own.timestamp
    BY DEF NothingLost
  <2>1. posts[q].at \in Answered /\ posts'[q].own = posts[q].own
    BY <1>1, <1>2 DEF Answered
  <2>2. posts[q].own \in Readings
    BY <2>1, HandlerIsTyped DEF IInv, TypeOK, Answered
  <2>3. \/ Row(posts[q].own) \in station_data
        \/ \E d \in discarded_data : d.row.timestamp = posts[q].own.timestamp
    BY <2>1 DEF IInv, NothingLost
  <2> QED  BY <1>3, <1>4, <2>1, <2>2, <2>3, RowOfReading
<1>9. JudgedKept'
  <2> SUFFICES ASSUME NEW q \in Requests, posts'[q].at \in Judging
               PROVE  \/ \E d \in discarded_data' : d.row.timestamp = posts'[q].records.last.timestamp
                      \/ posts'[q].at # "delete"
                           /\ \E row \in station_data' : row.timestamp = posts'[q].records.last.timestamp
    BY DEF JudgedKept
  <2>1. posts'[q] = posts[q]
    BY <1>2 DEF Judging
  <2> QED  BY <1>3, <1>4, <2>1 DEF IInv, JudgedKept
<1>10. LaterStored'
  <2>1. ASSUME NEW t \in Nat, NEW row \in station_data, row.timestamp >= t
        PROVE  \E left \in station_data' : left.timestamp >= t
    <3>1. PICK later \in station_data' : later.timestamp > ts
      BY <1>3
    <3>2. CASE row.timestamp = ts
      BY <1>3, <1>5, <2>1, <3>1, <3>2
    <3> QED  BY <1>3, <2>1, <3>2
  <2>2. ASSUME NEW q \in Requests, posts'[q].at = "accepted"
        PROVE  \E left \in station_data' : left.timestamp >= posts'[q].own.timestamp
    <3>1. posts'[q] = posts[q] /\ posts[q].own \in Readings
      BY <1>2, <2>2, HandlerIsTyped DEF IInv, TypeOK
    <3>2. posts[q].own.timestamp \in Nat
      BY <3>1, RowOfReading DEF RowType
    <3>3. \E row \in station_data : row.timestamp >= posts[q].own.timestamp
      BY <2>2, <3>1 DEF IInv, LaterStored
    <3> QED  BY <2>1, <3>1, <3>2, <3>3
  <2>3. ASSUME NEW q \in Requests, posts'[q].at \in Judging
        PROVE  \E left \in station_data' : left.timestamp > posts'[q].records.last.timestamp
    <3> DEFINE t == posts[q].records.last.timestamp
    <3>1. posts'[q] = posts[q]
      BY <1>2, <2>3 DEF Judging
    <3>2. t \in Nat
      BY <2>3, <3>1, HandlerIsTyped DEF IInv, TypeOK, RowType
    <3>3. \E row \in station_data : row.timestamp > t
      BY <2>3, <3>1 DEF IInv, LaterStored
    <3> HIDE DEF t
    <3>4. \E row \in station_data : row.timestamp >= t + 1
      BY <1>5, <3>2, <3>3
    <3>5. \E left \in station_data' : left.timestamp >= t + 1
      BY <2>1, <3>2, <3>4
    <3>6. \E left \in station_data' : left.timestamp > t
      BY <1>3, <1>5, <3>2, <3>5
    <3> QED  BY <3>1, <3>6 DEF t
  <2> QED  BY <2>2, <2>3 DEF LaterStored
<1> QED  BY <1>6, <1>7, <1>8, <1>9, <1>10 DEF IInv

-----------------------------------------------------------------------------
(* The theorems.                                                           *)

LEMMA Initially == Init => IInv
<1> SUFFICES ASSUME Init PROVE IInv
  OBVIOUS
<1>1. \A r \in Requests : posts[r].at = "waiting"
  BY DEF Init, Absent
<1>2. TypeOK
  BY ReadingsAssumption DEF Init, Absent, TypeOK, RowType, HandlerType
<1>3. NothingLost /\ JudgedKept /\ LaterStored
  BY <1>1 DEF NothingLost, JudgedKept, LaterStored, Answered, Judging
<1>4. SummariesFollow
  BY DEF Init, SummariesFollow
<1> QED  BY <1>2, <1>3, <1>4 DEF IInv

LEMMA Steps == IInv /\ [Next]_vars => IInv'
<1> SUFFICES ASSUME IInv, [Next]_vars PROVE IInv'
  OBVIOUS
<1>1. CASE UNCHANGED vars
  BY <1>1, Quiet DEF vars, IInv, TypeOK
<1>2. CASE Restart
  BY <1>2, RestartStep
<1>3. ASSUME NEW r \in Requests, Post(r) \/ InsertDiscarded(r) \/ InsertData(r)
                                  \/ ReadLastRecords(r) \/ ReadStats(r)
      PROVE  IInv'
  BY <1>3, PostStep, InsertDiscardedStep, InsertDataStep, ReadLastRecordsStep, ReadStatsStep
<1>4. ASSUME NEW r \in Requests, InsertCulled(r) \/ DeleteCulled(r)
      PROVE  IInv'
  BY <1>4, InsertCulledStep, DeleteCulledStep
<1>5. ASSUME NEW r \in Requests, InsertDuplicate(r) \/ DeleteAborted(r) \/ SendRemove(r) \/ SendAdd(r)
      PROVE  IInv'
  BY <1>5, EndStep
<1> QED  BY <1>1, <1>2, <1>3, <1>4, <1>5 DEF Next

LEMMA Invariance == Spec => []IInv
BY Initially, Steps, PTL DEF Spec

\* No accepted reading is lost, whatever number of posts cull beside each
\* other and wherever a restart ends them (index.js:463-506, 714-723).
THEOREM ReadingsKept == Spec => []NothingLost
<1>1. IInv => NothingLost
  BY DEF IInv
<1> QED  BY <1>1, Invariance, PTL

\* The tables of summaries are what the triggers are to keep, for any
\* interleaving of inserts and cullings (database.js:93-160).
THEOREM SummariesRight == Spec => []SummariesFollow
<1>1. IInv => SummariesFollow
  BY DEF IInv
<1> QED  BY <1>1, Invariance, PTL

\* No step takes the latest reading away, whatever order readings come in
\* (index.js:651-666, 720-723).
THEOREM LatestReadingStays == Spec => LatestStays
<1>1. ASSUME IInv, [Next]_vars
      PROVE  [\A row \in station_data : \E later \in station_data' :
                   later.timestamp >= row.timestamp]_vars
  <2>1. \A row \in station_data : row.timestamp \in Nat
    BY <1>1 DEF IInv, TypeOK, RowType
  <2>2. CASE station_data \subseteq station_data'
    BY <2>1, <2>2
  <2>3. ASSUME NEW r \in Requests, DeleteCulled(r), NEW row \in station_data
        PROVE  \E later \in station_data' : later.timestamp >= row.timestamp
    <3> DEFINE ts == posts[r].records.last.timestamp
    <3>1. /\ ts \in Nat /\ station_data' \subseteq station_data
          /\ row.timestamp # ts => row \in station_data'
          /\ \E later \in station_data' : later.timestamp > ts
      BY <1>1, <2>3, Deletion
    <3> HIDE DEF ts
    <3>2. CASE row.timestamp # ts
      BY <2>1, <3>1, <3>2
    <3>3. CASE row.timestamp = ts
      BY <2>1, <3>1, <3>3
    <3> QED  BY <3>2, <3>3
  <2>4. ASSUME NEW r \in Requests, InsertData(r)
        PROVE  station_data \subseteq station_data'
    BY <2>4 DEF InsertData
  <2>5. \/ station_data \subseteq station_data'
        \/ \E r \in Requests : DeleteCulled(r)
    BY <1>1, <2>4 DEF Next, vars, Restart, Post, InsertDiscarded, InsertDuplicate,
        ReadLastRecords, ReadStats, InsertCulled, DeleteAborted, SendRemove, SendAdd
  <2> QED  BY <2>2, <2>3, <2>5
<1> QED  BY <1>1, Invariance, PTL DEF Spec, LatestStays

-----------------------------------------------------------------------------
(* What the pages show, which rests on IInv and changes none of it.        *)

\* A discarded reading stays with the discarded ones.
LEMMA DiscardedStays ==
  ASSUME [Next]_vars
  PROVE  discarded_data \subseteq discarded_data'
BY DEF Next, vars, Restart, Post, InsertDiscarded, InsertDuplicate, InsertData,
       ReadLastRecords, ReadStats, InsertCulled, DeleteCulled, DeleteAborted, SendRemove, SendAdd

\* One request acts, or all of them are ended.
LEMMA OneActs ==
  ASSUME IInv, [Next]_vars, ~Restart
  PROVE  \/ UNCHANGED <<posts, shown>>
         \/ \E r \in Requests : \E handler :
              /\ posts' = [posts EXCEPT ![r] = handler]
              /\ handler.at = "remove" => DeleteCulled(r)
              /\ handler.at = "done" => SendAdd(r)
              /\ UNCHANGED shown \/ SendRemove(r) \/ SendAdd(r)
<1> SUFFICES ASSUME ~UNCHANGED <<posts, shown>>
             PROVE  \E r \in Requests : \E handler :
                      /\ posts' = [posts EXCEPT ![r] = handler]
                      /\ handler.at = "remove" => DeleteCulled(r)
                      /\ handler.at = "done" => SendAdd(r)
                      /\ UNCHANGED shown \/ SendRemove(r) \/ SendAdd(r)
  OBVIOUS
<1>1. PICK r \in Requests :
        \/ Post(r) \/ InsertDiscarded(r) \/ InsertDuplicate(r) \/ InsertData(r)
        \/ ReadLastRecords(r) \/ ReadStats(r)
        \/ InsertCulled(r) \/ DeleteCulled(r) \/ DeleteAborted(r)
        \/ SendRemove(r) \/ SendAdd(r)
  BY DEF Next, vars
<1>2. ASSUME NEW at, Goes(r, at), at = "remove" => DeleteCulled(r), at = "done" => SendAdd(r),
             UNCHANGED shown \/ SendRemove(r) \/ SendAdd(r)
      PROVE  \E handler :
               /\ posts' = [posts EXCEPT ![r] = handler]
               /\ handler.at = "remove" => DeleteCulled(r)
               /\ handler.at = "done" => SendAdd(r)
               /\ UNCHANGED shown \/ SendRemove(r) \/ SendAdd(r)
  <2> DEFINE h == [posts[r] EXCEPT !.at = at]
  <2>1. posts[r] \in HandlerType
    BY DEF IInv, TypeOK
  <2>2. h.at = at
    BY <2>1 DEF HandlerType
  <2>3. posts' = [posts EXCEPT ![r] = h]
    BY <1>2 DEF Goes
  <2> HIDE DEF h
  <2> QED  BY <1>2, <2>2, <2>3
<1>3. ASSUME NEW h, Becomes(r, h), h.at \notin {"remove", "done"},
             UNCHANGED shown \/ SendRemove(r) \/ SendAdd(r)
      PROVE  \E handler :
               /\ posts' = [posts EXCEPT ![r] = handler]
               /\ handler.at = "remove" => DeleteCulled(r)
               /\ handler.at = "done" => SendAdd(r)
               /\ UNCHANGED shown \/ SendRemove(r) \/ SendAdd(r)
  BY <1>3 DEF Becomes
<1>4. CASE Post(r) \/ SendRemove(r) \/ ReadStats(r) \/ ReadLastRecords(r)
  BY <1>2, <1>3, <1>4 DEF Post, SendRemove, ReadStats, ReadLastRecords, Handler, Culling
<1>5. CASE InsertDiscarded(r) \/ InsertDuplicate(r) \/ InsertData(r) \/ InsertCulled(r)
            \/ DeleteCulled(r) \/ DeleteAborted(r) \/ SendAdd(r)
  BY <1>2, <1>5 DEF InsertDiscarded, InsertDuplicate, InsertData, InsertCulled, DeleteCulled,
     DeleteAborted, SendAdd
<1> QED  BY <1>1, <1>4, <1>5

LEMMA PagesStep ==
  ASSUME IInv, RemovedKept, StoredIsShown, [Next]_vars
  PROVE  RemovedKept' /\ StoredIsShown'
<1>1. discarded_data \subseteq discarded_data'
  BY DiscardedStays
<1>2. CASE Restart
  <2>1. ASSUME NEW r \in Requests
        PROVE  /\ posts'[r].at # "remove"
               /\ posts'[r].at = "done" => posts'[r] = posts[r]
    <3>1. posts[r] \in HandlerType /\ posts'[r] = Ended(posts[r])
      BY <1>2 DEF Restart, IInv, TypeOK
    <3>2. CASE posts[r].at \in {"waiting", "refused", "failed", "done", "lost", "stopped"}
      BY <3>1, <3>2 DEF Ended
    <3>3. CASE posts[r].at \notin {"waiting", "refused", "failed", "done", "lost", "stopped"}
      <4>1. Ended(posts[r]) \in {Handler("lost", posts[r].own), Handler("stopped", posts[r].own)}
        BY <3>3 DEF Ended
      <4> QED  BY <3>1, <4>1 DEF Handler
    <3> QED  BY <3>2, <3>3
  <2>2. UNCHANGED shown
    BY <1>2 DEF Restart
  <2> QED  BY <1>1, <2>1, <2>2 DEF RemovedKept, StoredIsShown, At
<1>3. CASE UNCHANGED <<posts, shown>>
  BY <1>1, <1>3 DEF RemovedKept, StoredIsShown, At
<1>4. ASSUME NEW r \in Requests, NEW handler,
             posts' = [posts EXCEPT ![r] = handler],
             handler.at = "remove" => DeleteCulled(r),
             handler.at = "done" => SendAdd(r),
             UNCHANGED shown \/ SendRemove(r) \/ SendAdd(r)
      PROVE  RemovedKept' /\ StoredIsShown'
  <2>1. posts \in [Requests -> HandlerType]
    BY DEF IInv, TypeOK
  <2>2. posts'[r] = handler /\ \A q \in Requests \ {r} : posts'[q] = posts[q]
    BY <1>4, <2>1
  <2>3. ASSUME DeleteCulled(r)
        PROVE  /\ posts'[r].records = posts[r].records
               /\ \E d \in discarded_data : d.row.timestamp = posts[r].records.last.timestamp
    <3>1. posts[r].at \in Judging /\ Goes(r, "remove")
      BY <2>3 DEF DeleteCulled, At, Judging
    <3> QED  BY <2>3, <3>1, Deletion, Going
  <2>4. RemovedKept'
    BY <1>1, <1>4, <2>2, <2>3 DEF RemovedKept, At
  <2>5. ASSUME NEW t, t \in shown, t \notin shown'
        PROVE  \E d \in discarded_data : d.row.timestamp = t
    <3>1. At(r, "remove") /\ shown' = shown \ {posts[r].records.last.timestamp}
      BY <1>4, <2>5 DEF SendRemove, SendAdd
    <3> QED  BY <2>5, <3>1 DEF RemovedKept
  <2>6. handler.at = "done" => posts'[r].own.timestamp \in shown'
    <3>1. ASSUME SendAdd(r)
          PROVE  posts'[r].own = posts[r].own /\ posts[r].own.timestamp \in shown'
      <4>1. posts[r] \in HandlerType /\ posts[r].at = "announce" /\ Goes(r, "done")
        BY <2>1, <3>1 DEF SendAdd, At
      <4>2. posts[r] \in [at : {"announce"}, own : Readings]
        BY <4>1 DEF HandlerType, Judging
      <4>3. posts'[r] = [posts[r] EXCEPT !.at = "done"]
        BY <2>1, <4>1 DEF Goes
      <4> QED  BY <3>1, <4>2, <4>3 DEF SendAdd
    <3> QED  BY <1>4, <3>1
  <2>7. StoredIsShown'
    BY <1>1, <2>2, <2>5, <2>6 DEF StoredIsShown, At
  <2> QED  BY <2>4, <2>7
<1> QED  BY <1>2, <1>3, <1>4, OneActs

\* A reading is on the open pages when its post has ended, unless one of its
\* second was discarded, for any number of posts and whatever Remove overtakes
\* whichever Add (index.js:533-552, 725-731).
THEOREM PagesShow == Spec => []StoredIsShown
<1>1. Init => RemovedKept /\ StoredIsShown
  BY DEF Init, RemovedKept, StoredIsShown, At, Absent
<1>2. IInv /\ RemovedKept /\ StoredIsShown /\ [Next]_vars => RemovedKept' /\ StoredIsShown'
  BY PagesStep
<1> QED  BY <1>1, <1>2, Invariance, PTL DEF Spec
==============================================================================
