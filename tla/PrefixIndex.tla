----------------------------- MODULE PrefixIndex ------------------------------
(***************************************************************************)
(* The prefix index beside the route table.  A put's publication leaves an *)
(* event for the maintenance actor; a delete and a departure sweep leave a *)
(* removal.  Handlers queue them after they have released the route, so    *)
(* nothing orders two of them.                                             *)
(***************************************************************************)
EXTENDS MasterRoutes

VARIABLES prefix_index,  \* key -> version counted by the radix tree, or NoPut
          events,        \* PrimaryPut events to apply
          removals,      \* versions to remove
          indexing       \* event that passed its check, under the index lock

indexVars == <<prefix_index, events, removals, indexing>>

IInit ==
  /\ Init
  /\ prefix_index = [k \in Key |-> NoPut]
  /\ events = {}
  /\ removals = {}
  /\ indexing = NoPut

\* handle_put_done enqueues one event per published route.
PublishAndNotify(p) ==
  /\ PublishRoute(p)
  /\ events' = events \cup {p}
  /\ UNCHANGED <<prefix_index, removals, indexing>>

\* do_delete_one_kv_all_replicas spawns the removal of the deleted version.
DeleteAndNotify(k) ==
  /\ Delete(k)
  /\ removals' = removals \cup {kv_routes[k]}
  /\ UNCHANGED <<prefix_index, events, indexing>>

\* The sweep removes the versions of the routes it took out of the map.
SweepAndNotify(t) ==
  /\ SweepRemove(t)
  /\ removals' = removals \cup {kv_routes[k] : k \in {j \in Key : kv_routes'[j] # kv_routes[j]}}
  /\ UNCHANGED <<prefix_index, events, indexing>>

\* Every other step of the route table: no word to the index.
OtherStep ==
  /\ \/ \E n \in Node : Register(n) \/ MemberLeft(n)
     \/ \E t \in Tag : \/ \E k \in Key : SweepSnapshot(t, k)
                       \/ \E p \in Put : SweepRoute(t, p)
     \/ \E p \in Put : PutStep(p)
     \/ \E c \in Task : TaskStep(c)
  /\ UNCHANGED indexVars

\* The maintenance actor finds the published version still current ...
IndexCheck(p) ==
  /\ indexing = NoPut
  /\ p \in events
  /\ IF kv_routes[put_key[p]] = p /\ HasLive(p)
     THEN indexing' = p /\ UNCHANGED events
     ELSE events' = events \ {p} /\ UNCHANGED indexing
  /\ UNCHANGED <<vars, prefix_index, removals>>

\* ... and PrefixRadixTree::insert records it.
IndexInsert ==
  /\ indexing # NoPut
  /\ prefix_index' = [prefix_index EXCEPT ![put_key[indexing]] = indexing]
  /\ events' = events \ {indexing}
  /\ indexing' = NoPut
  /\ UNCHANGED <<vars, removals>>

\* Mutant of IndexRemove: the key is removed whatever its version.
IndexRemoveAnyVersion(p) ==
  /\ indexing = NoPut
  /\ p \in removals
  /\ prefix_index' = [prefix_index EXCEPT ![put_key[p]] = NoPut]
  /\ removals' = removals \ {p}
  /\ UNCHANGED <<vars, events, indexing>>

\* PrefixRadixTree::remove ignores any version but the recorded one.
IndexRemove(p) ==
  /\ indexing = NoPut
  /\ p \in removals
  /\ prefix_index' = [prefix_index EXCEPT ![put_key[p]] = IF @ = p THEN NoPut ELSE @]
  /\ removals' = removals \ {p}
  /\ UNCHANGED <<vars, events, indexing>>

INext ==
  \/ \E p \in Put : PublishAndNotify(p) \/ IndexCheck(p) \/ IndexRemove(p)
  \/ \E k \in Key : DeleteAndNotify(k)
  \/ \E t \in Tag : SweepAndNotify(t)
  \/ OtherStep
  \/ IndexInsert

ISpec == IInit /\ [][INext]_<<vars, indexVars>>

-----------------------------------------------------------------------------
\* While no node has left, the index misses nothing once the events have been
\* applied: a key with a route is counted, under its current version, however
\* overwrites, deletes and late removals of old versions were ordered.
IndexFollowsRoutes ==
  tomb = {} /\ events = {} =>
    \A k \in Key : kv_routes[k] # NoPut => prefix_index[k] = kv_routes[k]

\* With every event and every removal applied, the index holds only current
\* versions: a key without a route is not counted.
IndexIsCurrent ==
  events = {} /\ removals = {} =>
    \A k \in Key : prefix_index[k] # NoPut => kv_routes[k] = prefix_index[k]
=============================================================================
