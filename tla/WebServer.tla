------------------------------ MODULE WebServer ------------------------------
(***************************************************************************)
(* Posting readings of one station to the web server (web/index.js), the   *)
(* tables it keeps (web/lib/database.js) and the points the open pages     *)
(* show.  A post is a handler of several awaited statements; SQLite makes  *)
(* each statement with its triggers atomic, and the handlers of other      *)
(* posts run in between.  A table is a set of rows; an average or a        *)
(* maximum is represented by the rows it is taken over.                    *)
(*                                                                         *)
(* Left out: the columns besides the time and the wind speed, the reads    *)
(* that change nothing (the lookup of the station, the averages sent with  *)
(* a point), and the pages that do not look at the present, which ignore   *)
(* points (DataManager.js end_is_now).  Of an exception after the answer   *)
(* was sent, only that the handler ends is modelled.                       *)
(***************************************************************************)
EXTENDS Integers, FiniteSets, FiniteSetsExt

CONSTANTS Requests,     \* the posts that may be under way at the same time
          Readings,     \* what may be posted
          Stored,       \* the rows of station_data to begin with
          MaxRestarts   \* bound on restarts of the server

VARIABLES station_data,   \* rows [timestamp, windspeed]
          discarded_data, \* rows with the request that put them there: no key
          summaries,      \* rows of station_data_100 and station_data_600
          posts,          \* the handler of each request
          shown,          \* timestamps of the points on the open pages
          restarts        \* bound only

vars == <<station_data, discarded_data, summaries, posts, shown, restarts>>

Intervals == {100, 600}
defaultStatSize == 600
Near == 150

Row(reading) == [timestamp |-> reading.timestamp, windspeed |-> reading.windspeed]
Rows == {Row(reading) : reading \in Readings} \cup Stored

ASSUME ReadingsAssumption ==
    /\ Readings \subseteq [timestamp : Nat, windspeed : Nat, wind_gust : Nat]
    /\ Stored \subseteq [timestamp : Nat, windspeed : Nat]
    /\ \A s, t \in Stored : s.timestamp = t.timestamp => s = t

(***************************************************************************)
(* The triggers of station_data.                                           *)
(***************************************************************************)
\* CEIL(timestamp / interval) * interval.
PeriodEnd(interval, timestamp) ==
    ((timestamp + interval - 1) \div interval) * interval

\* The rows that a summary of the period of this timestamp is taken over.
InPeriod(data, interval, timestamp) ==
    {row \in data : /\ PeriodEnd(interval, timestamp) - interval < row.timestamp
                    /\ row.timestamp <= PeriodEnd(interval, timestamp)}

Summary(data, interval, timestamp) ==
    [interval |-> interval, timestamp |-> PeriodEnd(interval, timestamp),
     over |-> InPeriod(data, interval, timestamp)]

ResummarisedShort(table, data, timestamp) ==   \* mutant: the trigger of one table only
    {s \in table : s.timestamp # PeriodEnd(100, timestamp)}
        \cup {Summary(data, 100, timestamp)}

\* INSERT OR REPLACE, once in each of the two tables.
Resummarised(table, data, timestamp) ==
    {s \in table : s.timestamp # PeriodEnd(s.interval, timestamp)}
        \cup {Summary(data, interval, timestamp) : interval \in Intervals}

\* What the triggers are to keep: a row for each period that has readings.
AllSummaries(data) ==
    {Summary(data, interval, row.timestamp) : interval \in Intervals, row \in data}

\* Taken over no row, the averages are NULL: the columns do not allow it and
\* have no default, so that the statement which fired the trigger is aborted.
\* The trigger's own DELETE of the empty period comes too late.
Summarisable(data, timestamp) ==
    \A interval \in Intervals : InPeriod(data, interval, timestamp) # {}

(***************************************************************************)
(* The decision to cull, of checkCullInvalidWindspeed.                     *)
(***************************************************************************)
BeforeOrAfter(data, timestamp) ==   \* mutant: any other than the own reading
    {row \in data : row.timestamp # timestamp}

Before(data, timestamp) == {row \in data : row.timestamp < timestamp}

\* The two rows that the decision is about, the latest first: none when there
\* are fewer than two.
LastRecords(data, timestamp) ==
    {records \in [last : Before(data, timestamp), previous : Before(data, timestamp)] :
        /\ records.previous.timestamp < records.last.timestamp
        /\ \A row \in Before(data, timestamp) :
              \/ row.timestamp = records.last.timestamp
              \/ row.timestamp <= records.previous.timestamp}

CloseToCurrent(records, own) == records.last.timestamp > own.timestamp - Near
CloseToPrevious(records) == records.previous.timestamp > records.last.timestamp - Near

AtLeast(a, b) == IF a > b THEN a ELSE b

\* The tests that need nothing but the two rows and the post's own reading.
Suspicious(records, own) ==
    LET testSpeed == records.last.windspeed
    IN  /\ testSpeed >= 12
        /\ CloseToCurrent(records, own) => testSpeed >= own.windspeed * 4
        /\ CloseToPrevious(records) => testSpeed >= records.previous.windspeed * 4
        /\ ~CloseToPrevious(records) /\ ~CloseToCurrent(records, own) =>
             testSpeed >= AtLeast(AtLeast(records.previous.windspeed, own.windspeed), 7) * 4 + 10

\* The tests against the ten minutes up to the row before.
StandsOut(data, records) ==
    LET over == {row \in data :
                   /\ records.previous.timestamp - defaultStatSize <= row.timestamp
                   /\ row.timestamp <= records.previous.timestamp}
        total == MapThenSumSet(LAMBDA row : row.windspeed, over)
        testSpeed == records.last.windspeed
    IN  over # {} => /\ testSpeed * Cardinality(over) >= total * 4
                     /\ \A row \in over : testSpeed >= row.windspeed

(***************************************************************************)
(* The handlers.                                                           *)
(***************************************************************************)
Absent == [at |-> "waiting"]
Handler(at, own) == [at |-> at, own |-> own]
Culling(at, own, records) == [at |-> at, own |-> own, records |-> records]

Init ==
    /\ station_data = Stored
    /\ discarded_data = {}
    /\ summaries = AllSummaries(Stored)
    /\ posts = [r \in Requests |-> Absent]
    /\ shown = {row.timestamp : row \in Stored}
    /\ restarts = 0

At(r, at) == posts[r].at = at
Becomes(r, handler) == posts' = [posts EXCEPT ![r] = handler]
Goes(r, at) == posts' = [posts EXCEPT ![r].at = at]

\* POST /station/:id/data with a body that has its keys, for a known station.
Post(r) ==
    /\ At(r, "waiting")
    /\ \E reading \in Readings : Becomes(r, Handler("insert", reading))
    /\ UNCHANGED <<station_data, discarded_data, summaries, shown, restarts>>

InvalidWindspeed(reading) == reading.windspeed > 2 * (reading.wind_gust + 2)

\* A wind stronger than its gusts is kept with the discarded ones; answer 422.
InsertDiscarded(r) ==
    /\ At(r, "insert") /\ InvalidWindspeed(posts[r].own)
    /\ discarded_data' = discarded_data \cup {[row |-> Row(posts[r].own), by |-> r]}
    /\ Goes(r, "refused")
    /\ UNCHANGED <<station_data, summaries, shown, restarts>>

\* The primary key is taken: the statement fails and so does the post.
InsertDuplicate(r) ==
    /\ At(r, "insert") /\ ~InvalidWindspeed(posts[r].own)
    /\ \E row \in station_data : row.timestamp = posts[r].own.timestamp
    /\ Goes(r, "refused")
    /\ UNCHANGED <<station_data, discarded_data, summaries, shown, restarts>>

\* The insert with its triggers, and the answer 'success'.
InsertData(r) ==
    /\ At(r, "insert") /\ ~InvalidWindspeed(posts[r].own)
    /\ \A row \in station_data : row.timestamp # posts[r].own.timestamp
    /\ station_data' = station_data \cup {Row(posts[r].own)}
    /\ summaries' = Resummarised(summaries, station_data', posts[r].own.timestamp)
    /\ Goes(r, "accepted")
    /\ UNCHANGED <<discarded_data, shown, restarts>>

\* lastRecords is read, and the first tests are made on it.
ReadLastRecords(r) ==
    LET own == posts[r].own
        found == LastRecords(station_data, own.timestamp)
    IN  /\ At(r, "accepted")
        /\ \/ /\ \A records \in found : ~Suspicious(records, own)
              /\ Goes(r, "announce")
           \/ \E records \in found :
                /\ Suspicious(records, own)
                /\ Becomes(r, Culling(IF CloseToPrevious(records) THEN "compare" ELSE "discard",
                                      own, records))
        /\ UNCHANGED <<station_data, discarded_data, summaries, shown, restarts>>

ReadStats(r) ==
    /\ At(r, "compare")
    /\ IF StandsOut(station_data, posts[r].records)
         THEN Goes(r, "discard")
         ELSE Becomes(r, Handler("announce", posts[r].own))
    /\ UNCHANGED <<station_data, discarded_data, summaries, shown, restarts>>

\* The rows that the two statements of a culling find by tsToDelete.
ToDelete(r) == {row \in station_data : row.timestamp = posts[r].records.last.timestamp}

InsertNothing(r) ==   \* mutant: the row is not kept before it is deleted
    /\ At(r, "discard")
    /\ Goes(r, "delete")
    /\ UNCHANGED <<station_data, discarded_data, summaries, shown, restarts>>

InsertCulled(r) ==
    /\ At(r, "discard")
    /\ discarded_data' = discarded_data \cup {[row |-> row, by |-> r] : row \in ToDelete(r)}
    /\ Goes(r, "delete")
    /\ UNCHANGED <<station_data, summaries, shown, restarts>>

\* The row may be gone by now: the statement then does nothing.
DeleteCulled(r) ==
    LET tsToDelete == posts[r].records.last.timestamp
        kept == station_data \ ToDelete(r)
    IN  /\ At(r, "delete")
        /\ ToDelete(r) # {} => Summarisable(kept, tsToDelete)
        /\ station_data' = kept
        /\ summaries' = IF ToDelete(r) = {} THEN summaries ELSE Resummarised(summaries, kept, tsToDelete)
        /\ Goes(r, "remove")
        /\ UNCHANGED <<discarded_data, shown, restarts>>

\* Aborted by its trigger: neither Remove nor Add is sent.
DeleteAborted(r) ==
    /\ At(r, "delete")
    /\ ToDelete(r) # {}
    /\ ~Summarisable(station_data \ ToDelete(r), posts[r].records.last.timestamp)
    /\ Goes(r, "failed")
    /\ UNCHANGED <<station_data, discarded_data, summaries, shown, restarts>>

SendRemoveFrom(r) ==   \* mutant: the page takes away what comes after, too
    /\ At(r, "remove")
    /\ shown' = {t \in shown : t < posts[r].records.last.timestamp}
    /\ Becomes(r, Handler("announce", posts[r].own))
    /\ UNCHANGED <<station_data, discarded_data, summaries, restarts>>

\* The page takes the point away, and adds one, in the order of the messages.
SendRemove(r) ==
    /\ At(r, "remove")
    /\ shown' = shown \ {posts[r].records.last.timestamp}
    /\ Becomes(r, Handler("announce", posts[r].own))
    /\ UNCHANGED <<station_data, discarded_data, summaries, restarts>>

SendAdd(r) ==
    /\ At(r, "announce")
    /\ shown' = shown \cup {posts[r].own.timestamp}
    /\ Goes(r, "done")
    /\ UNCHANGED <<station_data, discarded_data, summaries, restarts>>

\* What a restart makes of a handler that is under way: "stopped" when the
\* post has been answered with success.
Ended(handler) ==
    CASE handler.at \in {"waiting", "refused", "failed", "done", "lost", "stopped"} -> handler
      [] handler.at = "insert" -> Handler("lost", handler.own)
      [] OTHER -> Handler("stopped", handler.own)

\* The server is started again: the tables are there, the handlers are not.
\* The pages connect again and keep their points.
Restart ==
    /\ restarts < MaxRestarts
    /\ restarts' = restarts + 1
    /\ posts' = [r \in Requests |-> Ended(posts[r])]
    /\ UNCHANGED <<station_data, discarded_data, summaries, shown>>

Next ==
    \/ \E r \in Requests :
         \/ Post(r) \/ InsertDiscarded(r) \/ InsertDuplicate(r) \/ InsertData(r)
         \/ ReadLastRecords(r) \/ ReadStats(r)
         \/ InsertCulled(r) \/ DeleteCulled(r) \/ DeleteAborted(r)
         \/ SendRemove(r) \/ SendAdd(r)
    \/ Restart

Spec == Init /\ [][Next]_vars

(***************************************************************************)
(* Properties.                                                             *)
(***************************************************************************)
Answered == {"accepted", "compare", "discard", "delete", "remove", "announce",
             "done", "failed", "stopped"}

\* No reading that was answered with success is ever lost: it is in
\* station_data or, culled, in discarded_data, whatever the posts beside it
\* cull and wherever a restart ends them (index.js:714-723).  Readings are told
\* apart by their second alone: one posted for the second of a row that is
\* being culled can be deleted in its place, and is excepted.
NothingLost ==
    \A r \in Requests :
        posts[r].at \in Answered =>
            \/ Row(posts[r].own) \in station_data
            \/ \E d \in discarded_data : d.row.timestamp = posts[r].own.timestamp

\* The two tables of summaries have a row for exactly the periods with
\* readings, and each is taken over exactly the readings of its period, though
\* inserts and cullings of several posts come in any order (database.js:93-160).
SummariesFollow == summaries = AllSummaries(station_data)

\* The latest reading is never taken away: a post judges only a reading before
\* its own, and its own can go only after a later one has come, even when a
\* packet brings readings out of order (index.js:651-666).
LatestStays ==
    [][\A row \in station_data : \E later \in station_data' :
            later.timestamp >= row.timestamp]_vars

\* When a post has ended in order, its reading is on the open pages, unless a
\* reading of the same second has been discarded, whichever Remove and Add
\* messages of other posts came in between (index.js:533-552, 725-731).
StoredIsShown ==
    \A r \in Requests : At(r, "done") =>
        \/ posts[r].own.timestamp \in shown
        \/ \E d \in discarded_data : d.row.timestamp = posts[r].own.timestamp
(***************************************************************************)
(* The invariant that these rest on.                                       *)
(***************************************************************************)
RowType == [timestamp : Nat, windspeed : Nat]
Judging == {"compare", "discard", "delete"}

HandlerType ==
    [at : {"waiting"}]
      \cup [at : {"insert", "refused", "accepted", "announce", "failed", "done",
                  "lost", "stopped"}, own : Readings]
      \cup [at : Judging \cup {"remove", "failed"}, own : Readings,
            records : [last : RowType, previous : RowType]]

TypeOK ==
    /\ station_data \subseteq RowType
    /\ discarded_data \subseteq [row : RowType, by : Requests]
    /\ posts \in [Requests -> HandlerType]

\* A row that is judged is still there or has been discarded; it has been by
\* the time it is deleted.
JudgedKept ==
    \A r \in Requests : posts[r].at \in Judging =>
        LET tsToDelete == posts[r].records.last.timestamp
        IN  \/ \E d \in discarded_data : d.row.timestamp = tsToDelete
            \/ posts[r].at # "delete" /\ \E row \in station_data : row.timestamp = tsToDelete

\* No post deletes the latest row, whatever the others have deleted since.
LaterStored ==
    \A r \in Requests :
        /\ posts[r].at = "accepted" =>
             \E row \in station_data : row.timestamp >= posts[r].own.timestamp
        /\ posts[r].at \in Judging =>
             \E row \in station_data : row.timestamp > posts[r].records.last.timestamp

IInv == TypeOK /\ NothingLost /\ SummariesFollow /\ JudgedKept /\ LaterStored

\* What is about to be taken from the pages has been discarded.
RemovedKept ==
    \A r \in Requests : At(r, "remove") =>
        \E d \in discarded_data : d.row.timestamp = posts[r].records.last.timestamp
==============================================================================
