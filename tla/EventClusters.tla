--------------------------- MODULE EventClusters ---------------------------
(***************************************************************************)
(* One event per story: the Go extraction handlers (jobs/extract.go), the  *)
(* synchronous scan of the Python API (services/events.py) and the mapping *)
(* task each read an event, work for long, and write the whole row back.   *)
(*                                                                         *)
(* A headline is known by how much it is like another, an asset by its     *)
(* issuer; entities are those of the members.  observed_at, as_of,         *)
(* priority and novelty are folded the way published_at is.                *)
(***************************************************************************)
EXTENDS Integers, Sequences, FiniteSets, FiniteSetsExt, Functions, Ranks

CONSTANTS
  News,
  Published,     \* [News -> Int]
  TypeOf,        \* [News -> event type the model gives it]
  NamedBy,       \* [News -> set of candidates: issuer and strength]
  EntitiesOf,    \* [News -> set of names]
  Likeness,      \* [News -> [News -> 0 .. 3]]: below .58, .78, .92, above
  Batch,         \* what a scan of the API discovers: sequences of news
  Window,        \* EventClusterWindow
  Handler,
  MaxEvents, MaxJobs   \* bounds: events, jobs taken

EventId == 1 .. MaxEvents
NoEvent == [members |-> <<>>]

VARIABLES
  clusters,     \* the rows of news_events
  handler,      \* what each handler holds
  mappings,     \* mapping tasks published: the event, whether forced
  overlapping,  \* history: news that two handlers had in hand at once
  stolen,       \* history: news whose event was overwritten without them
  jobs

vars == <<clusters, handler, mappings, overlapping, stolen, jobs>>

Idle == [kind |-> "idle", step |-> "idle", todo |-> <<>>, seen |-> <<>>,
         id |-> 0, copy |-> NoEvent]

Init ==
  /\ clusters = [e \in EventId |-> NoEvent]
  /\ handler = [h \in Handler |-> Idle]
  /\ mappings = {} /\ overlapping = {} /\ stolen = {} /\ jobs = 0

Stored(rows) == {e \in EventId : rows[e] # NoEvent}
Naming(rows, n) == {e \in Stored(rows) : n \in Range(rows[e].members)}
At(h, kind, step) == handler[h].kind \in kind /\ handler[h].step = step
Hold(h, held) == handler' = [handler EXCEPT ![h] = held]

-----------------------------------------------------------------------------
\* extractEvent: the model names a type or the keyword rules do, the master
\* data names the candidates.
Extracted(n, type) ==
  [members |-> <<n>>, type |-> type, published |-> Published[n],
   candidates |-> NamedBy[n], mapping |-> "none"]
TypesOf(n) == {TypeOf[n], "other"}

Strongest(cs) ==
  {c \in cs : \A d \in cs : d.issuer = c.issuer => d.strength <= c.strength}

\* primaryAsset: of equally strong candidates the greatest asset id in
\* Python, the first in the order of a Go map, one end or the other, in Go.
Primary(event, order) ==
  LET best == {c.issuer : c \in {d \in event.candidates :
                 \A x \in event.candidates : x.strength <= d.strength}}
  IN  IF order = "greatest" THEN Max(best) ELSE Min(best)

Entities(event) == UNION {EntitiesOf[n] : n \in Range(event.members)}

\* The headline of an event is that of its first news.
Alike(event, fresh) == Likeness[event.members[1]][fresh.members[1]]

SameStory(event, fresh, order) ==
  /\ event.type = fresh.type
  /\ event.published - fresh.published \in -Window .. Window
  /\ \/ event.candidates # {} /\ fresh.candidates # {}
        /\ Primary(event, order) = Primary(fresh, order) /\ Alike(event, fresh) >= 1
     \/ event.candidates = {} /\ fresh.candidates = {}
        /\ \/ Alike(event, fresh) = 3
           \/ Alike(event, fresh) = 2 /\ Entities(event) \intersect Entities(fresh) # {}

\* Defect: the newest headline speaks for the event.
MergeEventNewestFirst(event, fresh) ==
  [event EXCEPT !.members = fresh.members \o SelectSeq(@, LAMBDA n : n # fresh.members[1]),
                !.candidates = Strongest(@ \union fresh.candidates),
                !.published = Min({@, fresh.published})]

MergeEvent(event, fresh) ==
  [event EXCEPT !.members = IF fresh.members[1] \in Range(@) THEN @ ELSE @ \o fresh.members,
                !.candidates = Strongest(@ \union fresh.candidates),
                !.published = Min({@, fresh.published})]

\* rebuildEvent: the first member leads, the candidates are left to mapping.
RebuildEvent(event, type) ==
  [event EXCEPT !.type = type, !.candidates = {},
                !.published = Min({Published[n] : n \in Range(event.members)})]

-----------------------------------------------------------------------------
InHand(h) == Range(handler[h].todo)

\* A job of one news item; a scan of several in the API.
TakeNews(h, kind, batch) ==
  /\ handler[h] = Idle /\ jobs < MaxJobs /\ jobs' = jobs + 1
  /\ Hold(h, [Idle EXCEPT !.kind = kind, !.step = "look", !.todo = batch])
  /\ overlapping' = overlapping \union
       UNION {InHand(g) \intersect Range(batch) : g \in Handler \ {h}}
  /\ UNCHANGED <<clusters, mappings, stolen>>

\* ingestNews: an event that names the news is what there is to do.
Look(h) ==
  /\ At(h, {"news"}, "look")
  /\ LET named == Naming(clusters, handler[h].todo[1])
     IN  \/ /\ named = {}
            /\ Hold(h, [handler[h] EXCEPT !.step = "extract"])
         \/ \E e \in named :
              Hold(h, [handler[h] EXCEPT !.step = "dispatch", !.todo = <<>>,
                                         !.id = e, !.copy = clusters[e]])
  /\ UNCHANGED <<clusters, mappings, overlapping, stolen, jobs>>

\* ingest: the pool and the processed news are read once for the batch.
LookAtPool(h) ==
  /\ At(h, {"scan"}, "look")
  /\ LET known == UNION {Range(clusters[e].members) : e \in EventId}
         todo == Without(handler[h].todo, known)
     IN  Hold(h, IF todo = <<>> THEN Idle
                 ELSE [handler[h] EXCEPT !.step = "extract", !.todo = todo, !.seen = clusters])
  /\ UNCHANGED <<clusters, mappings, overlapping, stolen, jobs>>

Extract(h) ==
  /\ At(h, {"news", "scan"}, "extract")
  /\ \E type \in TypesOf(handler[h].todo[1]) :
       Hold(h, [handler[h] EXCEPT !.step = "match",
                                  !.copy = Extracted(handler[h].todo[1], type)])
  /\ UNCHANGED <<clusters, mappings, overlapping, stolen, jobs>>

\* The first of the latest events that tells the same story, or a new one.
Joins(h, rows, order) ==
  LET fresh == handler[h].copy
      same == {e \in Stored(rows) : SameStory(rows[e], fresh, order)}
  IN  \/ /\ same = {}
         /\ Hold(h, [handler[h] EXCEPT !.step = "save", !.id = 0])
      \/ \E e \in same :
           /\ \A f \in same : rows[f].published <= rows[e].published
           /\ Hold(h, [handler[h] EXCEPT !.step = "save", !.id = e,
                                         !.copy = MergeEvent(rows[e], fresh)])

FindCluster(h) ==
  /\ At(h, {"news"}, "match")
  /\ \E order \in {"greatest", "least"} : Joins(h, clusters, order)
  /\ UNCHANGED <<clusters, mappings, overlapping, stolen, jobs>>

FindInPool(h) ==
  /\ At(h, {"scan"}, "match")
  /\ Joins(h, handler[h].seen, "greatest")
  /\ UNCHANGED <<clusters, mappings, overlapping, stolen, jobs>>

\* saveEvent writes the whole row, whatever it has become meanwhile.
Writes(e, event) ==
  /\ clusters' = [clusters EXCEPT ![e] = event]
  /\ stolen' = stolen \union (Range(clusters[e].members) \ Range(event.members))

Free == {e \in EventId : clusters[e] = NoEvent}
Target(h) == IF handler[h].id = 0 THEN Min(Free) ELSE handler[h].id

SaveNews(h) ==
  /\ At(h, {"news"}, "save") /\ (handler[h].id = 0 => Free # {})
  /\ Writes(Target(h), handler[h].copy)
  /\ Hold(h, [handler[h] EXCEPT !.step = "dispatch", !.todo = <<>>, !.id = Target(h)])
  /\ UNCHANGED <<mappings, overlapping, jobs>>

\* The next item of the batch that has no event yet is matched with the pool
\* and what it became.
SaveInPool(h) ==
  /\ At(h, {"scan"}, "save") /\ (handler[h].id = 0 => Free # {})
  /\ Writes(Target(h), handler[h].copy)
  /\ LET todo == Without(Tail(handler[h].todo), {handler[h].todo[1]})
     IN  Hold(h, IF todo = <<>> THEN Idle
                 ELSE [handler[h] EXCEPT !.step = "extract", !.todo = todo, !.id = 0,
                                         !.copy = NoEvent,
                                         !.seen = [@ EXCEPT ![Target(h)] = handler[h].copy]])
  /\ UNCHANGED <<mappings, overlapping, jobs>>

\* dispatchEvent: an event without candidates is saved once more, marked,
\* and a mapping task published; one with candidates gets its report.
Dispatch(h) ==
  /\ At(h, {"news", "refresh"}, "dispatch")
  /\ LET event == handler[h].copy
         e == handler[h].id
         marks == \/ handler[h].kind = "refresh"
                  \/ event.candidates = {} /\ event.mapping \notin {"queued", "completed"}
     IN  IF marks
         THEN /\ Writes(e, [event EXCEPT !.mapping = "queued"])
              /\ mappings' = mappings \union {<<e, handler[h].kind = "refresh">>}
         ELSE UNCHANGED <<clusters, stolen, mappings>>
  /\ Hold(h, Idle)
  /\ UNCHANGED <<overlapping, jobs>>

-----------------------------------------------------------------------------
\* reextractEvent loads the event ...
TakeRefresh(h, e) ==
  /\ handler[h] = Idle /\ jobs < MaxJobs /\ jobs' = jobs + 1
  /\ clusters[e] # NoEvent
  /\ Hold(h, [Idle EXCEPT !.kind = "refresh", !.step = "extract", !.id = e, !.copy = clusters[e]])
  /\ UNCHANGED <<clusters, mappings, overlapping, stolen>>

\* ... and saves what its members say now.
Refresh(h) ==
  /\ At(h, {"refresh"}, "extract")
  /\ \E type \in TypesOf(handler[h].copy.members[1]) :
       LET event == RebuildEvent(handler[h].copy, type)
       IN  /\ Writes(handler[h].id, event)
           /\ Hold(h, [handler[h] EXCEPT !.step = "dispatch", !.copy = event])
  /\ UNCHANGED <<mappings, overlapping, jobs>>

\* resolve_event_assets: an event that has candidates is mapped again only
\* when that is forced.
TakeMapping(h, e, forced) ==
  /\ handler[h] = Idle /\ <<e, forced>> \in mappings
  /\ mappings' = mappings \ {<<e, forced>>}
  /\ Hold(h, IF ~forced /\ clusters[e].candidates # {} THEN Idle
             ELSE [Idle EXCEPT !.kind = "mapping", !.step = "mark", !.id = e, !.copy = clusters[e]])
  /\ UNCHANGED <<clusters, overlapping, stolen, jobs>>

\* It saves the event as running, and later what it found.
MarkMapping(h) ==
  /\ At(h, {"mapping"}, "mark")
  /\ Writes(handler[h].id, handler[h].copy)
  /\ Hold(h, [handler[h] EXCEPT !.step = "save"])
  /\ UNCHANGED <<mappings, overlapping, jobs>>

SaveMapping(h) ==
  /\ At(h, {"mapping"}, "save")
  /\ \E found \in {{}, UNION {NamedBy[n] : n \in Range(handler[h].copy.members)}} :
       Writes(handler[h].id, [handler[h].copy EXCEPT !.candidates = Strongest(found),
                                                    !.mapping = "completed"])
  /\ Hold(h, Idle)
  /\ UNCHANGED <<mappings, overlapping, jobs>>

\* A handler that dies leaves what it saved; its job comes back as another.
Dies(h) ==
  /\ handler[h] # Idle
  /\ Hold(h, Idle)
  /\ UNCHANGED <<clusters, mappings, overlapping, stolen, jobs>>

Next ==
  \/ \E h \in Handler, n \in News : TakeNews(h, "news", <<n>>)
  \/ \E h \in Handler, batch \in Batch : TakeNews(h, "scan", batch)
  \/ \E h \in Handler, e \in EventId : TakeRefresh(h, e)
  \/ \E h \in Handler, e \in EventId, forced \in BOOLEAN : TakeMapping(h, e, forced)
  \/ \E h \in Handler :
       \/ Look(h) \/ LookAtPool(h) \/ Extract(h) \/ FindCluster(h) \/ FindInPool(h)
       \/ SaveNews(h) \/ SaveInPool(h) \/ Dispatch(h) \/ Refresh(h)
       \/ MarkMapping(h) \/ SaveMapping(h) \/ Dies(h)

-----------------------------------------------------------------------------
\* However its row is merged, rebuilt, mapped and overwritten by handlers that
\* read it long ago, an event stays one story: every member is like the news
\* that gave it its headline, no member counts twice and it is dated by its
\* earliest; and one item is in two events only if two handlers had it at
\* once or its first event was overwritten without it (jobs/extract.go,
\* mergeEvent, findCluster; services/events.py, ingest).
ClusterIsOneStory ==
  /\ \A e \in Stored(clusters) :
       LET members == clusters[e].members
       IN  /\ \A n \in Range(members) : n # members[1] => Likeness[members[1]][n] >= 1
           /\ Cardinality(Range(members)) = Len(members)
           /\ clusters[e].published = Min({Published[n] : n \in Range(members)})
  /\ \A n \in News \ (overlapping \union stolen) : Cardinality(Naming(clusters, n)) <= 1
=============================================================================
