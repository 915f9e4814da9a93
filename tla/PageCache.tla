----------------------------- MODULE PageCache -----------------------------
(***************************************************************************)
(* The snapshot the API answers the queue page from (main.py): one build   *)
(* at a time, by a thread or by the request that finds nothing; commands   *)
(* mark it stale, age does so after a few seconds, and Redis keeps a copy  *)
(* for the next process.  What a build makes of the registry, the broker   *)
(* and the database is module QueueView; here it is how much of what has   *)
(* happened it has seen.                                                   *)
(***************************************************************************)
EXTENDS Integers, FiniteSets

CONSTANTS
  Reader,       \* requests for the page
  MaxChanges,   \* bound: changes of the queues
  MaxRestarts   \* bound: restarts of the API

VARIABLES
  changes,    \* changes of the queues so far
  page,       \* _model_queue_snapshot: what it has seen, and whether it is stale
  refreshing, \* _model_queue_refreshing
  builds,     \* builds in progress: [by, at, seen]
  request,    \* each request: "none", "waiting", "woken" or "building"
  persisted,  \* what the copy in Redis has seen
  restarts,
  shown,      \* history: the most this process has shown
  marked,     \* history: changes when the page was last marked stale
  inside      \* history: that mark fell into a build that had read already

cacheVars == <<changes, page, refreshing, builds, request, persisted, restarts,
               shown, marked, inside>>

NoPage == [seen |-> 0 - 1, stale |-> TRUE]
Thread(at) == [by |-> "thread", at |-> at, seen |-> 0 - 1]

\* lifespan: the copy in Redis, as stale as can be, and a thread at once.
Init ==
  /\ changes = 0 /\ page = NoPage /\ persisted = NoPage.seen
  /\ refreshing = TRUE /\ builds = {Thread("read")}
  /\ request = [r \in Reader |-> "none"] /\ restarts = 0
  /\ shown = NoPage.seen /\ marked = 0 /\ inside = FALSE

-----------------------------------------------------------------------------
\* What the page is about changes, by workers or by the command itself.
Change ==
  /\ changes < MaxChanges /\ changes' = changes + 1
  /\ UNCHANGED <<page, refreshing, builds, request, persisted, restarts, shown, marked, inside>>

\* Defect: a mark starts a build of its own beside the one in progress.
MarkAndBuild ==
  /\ page' = [page EXCEPT !.stale = TRUE]
  /\ refreshing' = TRUE
  /\ builds' = builds \union {Thread("read")}
  /\ marked' = changes
  /\ inside' = \E b \in builds : b.at = "store"
  /\ UNCHANGED <<changes, request, persisted, restarts, shown>>

\* _mark_model_queue_snapshot_stale, after a command has changed the queues.
Mark ==
  /\ page' = [page EXCEPT !.stale = TRUE]
  /\ refreshing' = TRUE
  /\ builds' = IF refreshing THEN builds ELSE builds \union {Thread("read")}
  /\ marked' = changes
  /\ inside' = \E b \in builds : b.at = "store"
  /\ UNCHANGED <<changes, request, persisted, restarts, shown>>

\* MODEL_QUEUE_SNAPSHOT_TTL_SECONDS pass.
Ages ==
  /\ page # NoPage /\ page' = [page EXCEPT !.stale = TRUE]
  /\ UNCHANGED <<changes, refreshing, builds, request, persisted, restarts, shown, marked, inside>>

-----------------------------------------------------------------------------
Steps(b, at, seen) == builds' = (builds \ {b}) \union {[b EXCEPT !.at = at, !.seen = seen]}

\* _refresh_model_queue_snapshot: read and compute, or fail;
Read(b) ==
  /\ b.at = "read"
  /\ Steps(b, "store", changes) \/ Steps(b, "end", b.seen)
  /\ UNCHANGED <<changes, page, refreshing, request, persisted, restarts, shown, marked, inside>>

\* put the page in place;
Store(b) ==
  /\ b.at = "store"
  /\ page' = [seen |-> b.seen, stale |-> FALSE]
  /\ Steps(b, "persist", b.seen)
  /\ UNCHANGED <<changes, refreshing, request, persisted, restarts, shown, marked, inside>>

\* keep a copy, if Redis is there;
Persist(b) ==
  /\ b.at = "persist"
  /\ persisted' \in {persisted, b.seen}
  /\ Steps(b, "end", b.seen)
  /\ UNCHANGED <<changes, page, refreshing, request, restarts, shown, marked, inside>>

\* and wake who waits.  A request that built the page itself shows it, or
\* fails with the build.
End(b) ==
  /\ b.at = "end"
  /\ refreshing' = FALSE /\ builds' = builds \ {b}
  /\ request' = [r \in Reader |->
       CASE request[r] = "waiting" -> "woken"
         [] request[r] = "building" /\ b.by = r -> "none"
         [] OTHER -> request[r]]
  /\ shown' = IF b.by = "thread" \/ b.seen < shown THEN shown ELSE b.seen
  /\ UNCHANGED <<changes, page, persisted, restarts, marked, inside>>

-----------------------------------------------------------------------------
\* _cached_model_queue_snapshot: with no page yet a request waits for the build.
Waits(r) ==
  /\ request[r] = "none" /\ page = NoPage /\ refreshing
  /\ request' = [request EXCEPT ![r] = "waiting"]
  /\ UNCHANGED <<changes, page, refreshing, builds, persisted, restarts, shown, marked, inside>>

\* Five seconds are over.
GivesUp(r) ==
  /\ request[r] = "waiting" /\ request' = [request EXCEPT ![r] = "woken"]
  /\ UNCHANGED <<changes, page, refreshing, builds, persisted, restarts, shown, marked, inside>>

\* Still nothing and still a build: 503.
Refused(r) ==
  /\ request[r] = "woken" /\ page = NoPage /\ refreshing
  /\ request' = [request EXCEPT ![r] = "none"]
  /\ UNCHANGED <<changes, page, refreshing, builds, persisted, restarts, shown, marked, inside>>

Builds(r) ==
  /\ request[r] \in {"none", "woken"} /\ page = NoPage /\ ~refreshing
  /\ refreshing' = TRUE
  /\ builds' = builds \union {[by |-> r, at |-> "read", seen |-> 0 - 1]}
  /\ request' = [request EXCEPT ![r] = "building"]
  /\ UNCHANGED <<changes, page, persisted, restarts, shown, marked, inside>>

\* A stale page is shown once more while a thread builds the next.
Answers(r) ==
  /\ request[r] \in {"none", "woken"} /\ page # NoPage
  /\ shown' = page.seen
  /\ request' = [request EXCEPT ![r] = "none"]
  /\ refreshing' = (refreshing \/ page.stale)
  /\ builds' = IF page.stale /\ ~refreshing THEN builds \union {Thread("read")} ELSE builds
  /\ UNCHANGED <<changes, page, persisted, restarts, marked, inside>>

\* The API starts anew, from the copy in Redis.
Restart ==
  /\ restarts < MaxRestarts /\ restarts' = restarts + 1
  /\ page' = [seen |-> persisted, stale |-> TRUE]
  /\ refreshing' = TRUE /\ builds' = {Thread("read")}
  /\ request' = [r \in Reader |-> "none"]
  /\ shown' = NoPage.seen /\ inside' = FALSE
  /\ UNCHANGED <<changes, persisted, marked>>

Next ==
  \/ Change \/ Mark \/ Ages \/ Restart
  \/ \E b \in builds : Read(b) \/ Store(b) \/ Persist(b) \/ End(b)
  \/ \E r \in Reader : Waits(r) \/ GivesUp(r) \/ Refused(r) \/ Builds(r) \/ Answers(r)

-----------------------------------------------------------------------------
\* The page keeps up.  Exactly one build is in progress while the flag says so
\* and none otherwise, so a request that waits is woken and a page never goes
\* back behind what was shown; a page taken for fresh has seen everything up to
\* the last command that marked it, unless that command came while a build had
\* already read: its mark is then wiped out by the store (main.py,
\* _mark_model_queue_snapshot_stale and _refresh_model_queue_snapshot).
PageKeepsUp ==
  /\ Cardinality(builds) = IF refreshing THEN 1 ELSE 0
  /\ \A r \in Reader : request[r] = "waiting" => refreshing
  /\ \A r \in Reader : request[r] = "building" => \E b \in builds : b.by = r
  /\ shown <= page.seen /\ persisted <= page.seen
  /\ ~page.stale => page.seen >= marked \/ inside
=============================================================================
