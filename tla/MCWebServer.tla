----------------------------- MODULE MCWebServer -----------------------------
(* An instance of WebServer for TLC. *)
EXTENDS WebServer, TLC

\* A calm and a strong wind at each time, and one wind stronger than its gusts.
\* 120 and 180 are of one period of a hundred seconds, 230 and 270 are of the
\* next; 900 is near no other and of another period of six hundred. 120 and 270
\* are just not near each other.
SomeReadings ==
    [timestamp : {180, 230, 270, 900}, windspeed : {2, 40}, wind_gust : {40}]
        \cup {[timestamp |-> 180, windspeed |-> 40, wind_gust |-> 3]}
SomeRows == {[timestamp |-> 120, windspeed |-> 3]}
RequestsAlike == Permutations(Requests)
==============================================================================
