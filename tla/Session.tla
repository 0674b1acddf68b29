------------------------------- MODULE Session -------------------------------
(***************************************************************************)
(* What class connection promises the pool that owns it, without sockets,  *)
(* lines, timers or handlers (connection.hpp:30-50, 68-70 and 200-212,     *)
(* usenet.cc:143-267): what it is asked is answered once, about what it    *)
(* was asked; the server takes an article at most once for each            *)
(* async_post, while that post is going on; and unless the answer is a     *)
(* connection error it tells whether the server took it.                   *)
(***************************************************************************)
CONSTANTS Items,     \* articles and message ids
          None

VARIABLES use,       \* what the pool has the connection do
          asked,     \* the article or message id it was given for that
          stored,    \* the article the server took since the last async_post
          answers    \* results the pool has still to look at

vars == <<use, asked, stored, answers>>

\* The results of each operation, and what the pool makes of the connection then.
Outcome ==
  [connecting |-> [CONNECT_SUCCESS |-> "idle",
                   FATAL_CONNECT_ERROR |-> "gone",
                   INVALID_CREDENTIALS |-> "gone"],
   post       |-> [POST_SUCCESS |-> "idle",
                   POST_FAILURE |-> "idle",
                   POSTING_NOT_PERMITTED |-> "gone",
                   POST_FAILURE_CONNECTION_ERROR |-> "connecting"],
   stat       |-> [ARTICLE_EXISTS |-> "idle",
                   INVALID_ARTICLE |-> "idle",
                   CONNECTION_ERROR |-> "connecting"]]

Operations == {"connecting", "post", "stat"}

Init == use = "connecting" /\ asked = None /\ stored = None /\ answers = {}

\* The pool calls async_post or async_stat.
Give(what, item) ==
  /\ use = "idle"
  /\ use' = what
  /\ asked' = item
  /\ stored' = None
  /\ UNCHANGED answers

\* The server takes the article, perhaps after the connection gave it up.  What it
\* takes after the pool has closed the socket nobody learns.
Take ==
  /\ use = "post"
  /\ stored = None
  /\ \A a \in answers : a.result = "POST_FAILURE_CONNECTION_ERROR"
  /\ stored' = asked
  /\ UNCHANGED <<use, asked, answers>>

Reply(result) ==
  /\ use \in Operations
  /\ answers = {}
  /\ result \in DOMAIN Outcome[use]
  /\ result = "POST_SUCCESS" => stored = asked
  /\ result \in {"POST_FAILURE", "POSTING_NOT_PERMITTED"} => stored = None
  /\ answers' = {[result |-> result, item |-> asked]}
  /\ UNCHANGED <<use, asked, stored>>

\* The pool's handler runs, and reconnects or destroys the connection if it has to.
Conclude ==
  /\ use \in Operations
  /\ \E a \in answers : use' = Outcome[use][a.result]
  /\ asked' = None
  /\ answers' = {}
  /\ UNCHANGED stored

\* The pool has it disconnect.
Quit ==
  /\ use = "idle"
  /\ use' = "gone"
  /\ UNCHANGED <<asked, stored, answers>>

Next ==
  \/ \E what \in {"post", "stat"}, item \in Items : Give(what, item)
  \/ Take
  \/ \E op \in Operations : \E result \in DOMAIN Outcome[op] : Reply(result)
  \/ Conclude
  \/ Quit

Spec == Init /\ [][Next]_vars
=============================================================================
