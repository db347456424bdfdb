----------------------------- MODULE MasterRoutes -----------------------------
(***************************************************************************)
(* The master's route table: put completion, replica publication, delete,  *)
(* the departure of a node and the sweep that follows it, and the clean-up *)
(* a get does on its way.                                                  *)
(*                                                                         *)
(* Handlers and sweeps run concurrently.  An action is what one thread     *)
(* does under one lock: a DashMap entry of kv_routes, or the RwLock of one *)
(* route's node_replicas.  A tomb tag is an atomic flag that anyone may    *)
(* find set from one step to the next.                                     *)
(*                                                                         *)
(* A put id stands for the version and for the route object (the Arc) that *)
(* its publication creates.  A replica is the tag of the node generation   *)
(* that stores it: node_replicas is keyed by node, so an insertion replaces*)
(* the tag of another generation of that node.  Memory and SSD backings    *)
(* are one replica.                                                        *)
(***************************************************************************)
EXTENDS Naturals, FiniteSets

CONSTANTS Key,
          Node,
          MaxGen,   \* bound: registrations per node
          MaxLeaves, \* bound: departures
          Put,      \* put ids, each used once
          NoPut,
          Task      \* handlers of get and append operations

ASSUME RoutesAssumption == NoPut \notin Put /\ MaxGen \in Nat /\ MaxLeaves \in Nat

Tag == Node \X (1..MaxGen)   \* NodeTombTag, by identity
NoTag == <<>>

VARIABLES registered,    \* node -> its registration, 0 when it has none
          tomb,          \* tags that are set
          kv_routes,     \* key -> put id of its route, or NoPut
          node_replicas, \* put id -> tags
          put_state, put_key, put_tag,
          \* sweep of a departed tag: keys not yet snapshot, routes of the
          \* snapshot not yet visited, route found empty
          sweep_keys, sweep_todo, sweep_empty,
          \* get and append handlers: program counter, route they read, nodes
          \* they saw tombed, tag of the target they copy to
          pc, task_put, tombs, target

nodeVars == <<registered, tomb>>
putVars == <<put_state, put_key, put_tag>>
sweepVars == <<sweep_keys, sweep_todo, sweep_empty>>
taskVars == <<pc, task_put, tombs, target>>
vars == <<nodeVars, kv_routes, node_replicas, putVars, sweepVars, taskVars>>

Init ==
  /\ registered = [n \in Node |-> 0]
  /\ tomb = {}
  /\ kv_routes = [k \in Key |-> NoPut]
  /\ node_replicas = [p \in Put |-> {}]
  /\ put_state = [p \in Put |-> "new"]
  /\ put_key \in [Put -> Key]
  /\ put_tag = [p \in Put |-> NoTag]
  /\ sweep_keys = [t \in Tag |-> {}]
  /\ sweep_todo = [t \in Tag |-> {}]
  /\ sweep_empty = [t \in Tag |-> NoPut]
  /\ pc = [c \in Task |-> "idle"]
  /\ task_put = [c \in Task |-> NoPut]
  /\ tombs = [c \in Task |-> {}]
  /\ target = [c \in Task |-> NoTag]

\* node_generation_is_current_live
CurrentLive(t) == t \in Tag /\ registered[t[1]] = t[2] /\ t \notin tomb

HasLive(p) == \E t \in node_replicas[p] : t \notin tomb

-----------------------------------------------------------------------------
(* Membership. *)

\* Mutant of Register: a live registration is replaced, its tag left clear.
RegisterOverLive(n) ==
  /\ registered[n] < MaxGen
  /\ registered' = [registered EXCEPT ![n] = @ + 1]
  /\ UNCHANGED <<tomb, kv_routes, node_replicas, putVars, sweepVars, taskVars>>

\* A registration creates a fresh tag; a live one is never replaced.
Register(n) ==
  /\ registered[n] < MaxGen
  /\ registered[n] = 0 \/ <<n, registered[n]>> \in tomb
  /\ registered' = [registered EXCEPT ![n] = @ + 1]
  /\ UNCHANGED <<tomb, kv_routes, node_replicas, putVars, sweepVars, taskVars>>

\* begin_departed_generation_cleanup sets the tag and spawns the sweep.  (A
\* repeated leave of the same generation would only restart the sweep.)
MemberLeft(n) ==
  LET t == <<n, registered[n]>>
  IN  /\ Cardinality(tomb) < MaxLeaves
      /\ CurrentLive(t)
      /\ tomb' = tomb \cup {t}
      /\ sweep_keys' = [sweep_keys EXCEPT ![t] = Key]
      /\ UNCHANGED <<registered, kv_routes, node_replicas, putVars, sweep_todo, sweep_empty,
                     taskVars>>

\* The snapshot walks the shards of kv_routes one after the other.
SweepSnapshot(t, k) ==
  /\ k \in sweep_keys[t]
  /\ sweep_keys' = [sweep_keys EXCEPT ![t] = @ \ {k}]
  /\ sweep_todo' = [sweep_todo EXCEPT ![t] = @ \cup ({kv_routes[k]} \ {NoPut})]
  /\ UNCHANGED <<nodeVars, kv_routes, node_replicas, putVars, sweep_empty, taskVars>>

\* Mutant of SweepRoute: the replica is recognised by its node alone.
SweepRouteByNode(t, p) ==
  LET left == {s \in node_replicas[p] : s[1] # t[1]}
  IN  /\ sweep_keys[t] = {}
      /\ sweep_empty[t] = NoPut
      /\ p \in sweep_todo[t]
      /\ sweep_todo' = [sweep_todo EXCEPT ![t] = @ \ {p}]
      /\ node_replicas' = [node_replicas EXCEPT ![p] = left]
      /\ sweep_empty' = [sweep_empty EXCEPT ![t] = IF left = {} THEN p ELSE NoPut]
      /\ UNCHANGED <<nodeVars, kv_routes, putVars, sweep_keys, taskVars>>

\* remove_departed_generation_from_route, under the route's write lock: only a
\* replica of exactly the departed generation goes.
SweepRoute(t, p) ==
  /\ sweep_keys[t] = {}
  /\ sweep_empty[t] = NoPut
  /\ p \in sweep_todo[t]
  /\ sweep_todo' = [sweep_todo EXCEPT ![t] = @ \ {p}]
  /\ node_replicas' = [node_replicas EXCEPT ![p] = @ \ {t}]
  /\ sweep_empty' = [sweep_empty EXCEPT ![t] = IF node_replicas[p] = {t} THEN p ELSE NoPut]
  /\ UNCHANGED <<nodeVars, kv_routes, putVars, sweep_keys, taskVars>>

\* The route was empty: take it out of the map if it is still there and still
\* empty.
SweepRemove(t) ==
  LET p == sweep_empty[t]
      k == put_key[p]
  IN  /\ p # NoPut
      /\ sweep_empty' = [sweep_empty EXCEPT ![t] = NoPut]
      /\ IF kv_routes[k] = p /\ node_replicas[p] = {}
         THEN kv_routes' = [kv_routes EXCEPT ![k] = NoPut]
         ELSE UNCHANGED kv_routes
      /\ UNCHANGED <<nodeVars, node_replicas, putVars, sweep_keys, sweep_todo, taskVars>>

-----------------------------------------------------------------------------
(* Puts. *)

\* Mutant of PutStart: the put is not bound to a generation.
PutStartUnbound(p, n) ==
  /\ put_state[p] = "new"
  /\ CurrentLive(<<n, registered[n]>>)
  /\ put_state' = [put_state EXCEPT ![p] = "inflight"]
  /\ UNCHANGED <<nodeVars, kv_routes, node_replicas, put_key, put_tag, sweepVars, taskVars>>

\* handle_put_start binds the put to the target's current generation.
PutStart(p, n) ==
  /\ put_state[p] = "new"
  /\ CurrentLive(<<n, registered[n]>>)
  /\ put_state' = [put_state EXCEPT ![p] = "inflight"]
  /\ put_tag' = [put_tag EXCEPT ![p] = <<n, registered[n]>>]
  /\ UNCHANGED <<nodeVars, kv_routes, node_replicas, put_key, sweepVars, taskVars>>

SetPutState(p, s) ==
  /\ put_state' = [put_state EXCEPT ![p] = s]
  /\ UNCHANGED <<nodeVars, put_key, put_tag, sweepVars, taskVars>>

\* handle_put_revoke, or the inflight entry times out.
PutRevoke(p) ==
  /\ put_state[p] = "inflight"
  /\ SetPutState(p, "failed")
  /\ UNCHANGED <<kv_routes, node_replicas>>

\* handle_put_done takes the inflight entry and checks the generation.
PutDone(p) ==
  /\ put_state[p] = "inflight"
  /\ SetPutState(p, IF CurrentLive(put_tag[p]) THEN "checked" ELSE "failed")
  /\ UNCHANGED <<kv_routes, node_replicas>>

\* prepare_route_state fails (capacity, lease), or the tag is set on entry to
\* publish_primary_route_tomb_fenced.
PutRejected(p) ==
  /\ put_state[p] = "checked"
  /\ SetPutState(p, "failed")
  /\ UNCHANGED <<kv_routes, node_replicas>>

\* The first tag check of publish_primary_route_tomb_fenced.
PublishEnter(p) ==
  /\ put_state[p] = "checked"
  /\ put_tag[p] \notin tomb
  /\ SetPutState(p, "entered")
  /\ UNCHANGED <<kv_routes, node_replicas>>

\* Mutant of PublishRoute: no second look at the tag.
PublishRouteUnfenced(p) ==
  /\ put_state[p] = "entered"
  /\ kv_routes' = [kv_routes EXCEPT ![put_key[p]] = p]
  /\ node_replicas' = [node_replicas EXCEPT ![p] = {put_tag[p]}]
  /\ put_state' = [put_state EXCEPT ![p] = "acked"]
  /\ UNCHANGED <<nodeVars, put_key, put_tag, sweepVars, taskVars>>

\* Under the entry guard: install the route; the tag is still clear.
PublishRoute(p) ==
  LET k == put_key[p]
      old == kv_routes[k]
  IN  /\ put_state[p] = "entered"
      /\ put_tag[p] \notin tomb
      /\ kv_routes' = [kv_routes EXCEPT ![k] = p]
      /\ node_replicas' = [node_replicas EXCEPT ![p] = {put_tag[p]}]
      /\ put_state' = [q \in Put |-> IF q = p THEN "acked"
                                     ELSE IF q = old /\ put_state[q] = "acked" THEN "replaced"
                                     ELSE put_state[q]]
      /\ UNCHANGED <<nodeVars, put_key, put_tag, sweepVars, taskVars>>

\* Under the entry guard: the tag is found set, the previous route is put back.
PublishRestored(p) ==
  /\ put_state[p] = "entered"
  /\ put_tag[p] \in tomb
  /\ kv_routes[put_key[p]] # NoPut
  /\ SetPutState(p, "failed")
  /\ UNCHANGED <<kv_routes, node_replicas>>

\* The tag is found set and there is no previous route: the guard is dropped
\* with the tombed route in the map ...
PublishLate(p) ==
  /\ put_state[p] = "entered"
  /\ put_tag[p] \in tomb
  /\ kv_routes[put_key[p]] = NoPut
  /\ kv_routes' = [kv_routes EXCEPT ![put_key[p]] = p]
  /\ node_replicas' = [node_replicas EXCEPT ![p] = {put_tag[p]}]
  /\ SetPutState(p, "late")

\* Mutant of PublishRollback: the failed route stays.
PublishRollbackSkipped(p) ==
  /\ put_state[p] = "late"
  /\ SetPutState(p, "failed")
  /\ UNCHANGED <<kv_routes, node_replicas>>

\* ... and remove_if takes out exactly that route.
PublishRollback(p) ==
  /\ put_state[p] = "late"
  /\ kv_routes' = [kv_routes EXCEPT ![put_key[p]] = IF @ = p THEN NoPut ELSE @]
  /\ SetPutState(p, "failed")
  /\ UNCHANGED node_replicas

\* do_delete_one_kv_all_replicas: by key, whatever the version.
Delete(k) ==
  LET p == kv_routes[k]
  IN  /\ p # NoPut
      /\ kv_routes' = [kv_routes EXCEPT ![k] = NoPut]
      /\ put_state' = [put_state EXCEPT ![p] = IF @ = "acked" THEN "deleted" ELSE @]
      /\ UNCHANGED <<nodeVars, node_replicas, put_key, put_tag, sweepVars, taskVars>>

-----------------------------------------------------------------------------
(* Gets and appends: both copy a routed version to another node and publish *)
(* the copy as a replica.                                                    *)

\* handle_get_start reads the route.  It may find no live source, or fail to
\* get a target: then only the clean-up is left to do.
GetStart(c, k, n) ==
  LET p == kv_routes[k]
      t == <<n, registered[n]>>
  IN  /\ pc[c] = "idle"
      /\ p # NoPut
      /\ pc' = [pc EXCEPT ![c] = "clean"]
      /\ task_put' = [task_put EXCEPT ![c] = p]
      /\ tombs' = [tombs EXCEPT ![c] = {s[1] : s \in node_replicas[p] \cap tomb}]
      /\ \/ UNCHANGED target
         \/ /\ HasLive(p) /\ CurrentLive(t)
            /\ target' = [target EXCEPT ![c] = t]
      /\ UNCHANGED <<nodeVars, kv_routes, node_replicas, putVars, sweepVars>>

\* handle_put_append_start for the source node m: no clean-up, and nothing to
\* do if another node than the source has a live replica.
AppendStart(c, k, n) ==
  LET p == kv_routes[k]
      t == <<n, registered[n]>>
  IN  /\ pc[c] = "idle"
      /\ p # NoPut
      /\ CurrentLive(t)
      /\ \E m \in Node \ {n} : \A s \in node_replicas[p] \ tomb : s[1] = m
      /\ pc' = [pc EXCEPT ![c] = "inflight"]
      /\ task_put' = [task_put EXCEPT ![c] = p]
      /\ target' = [target EXCEPT ![c] = t]
      /\ UNCHANGED <<nodeVars, kv_routes, node_replicas, putVars, sweepVars, tombs>>

Finish(c) ==
  /\ pc' = [pc EXCEPT ![c] = "idle"]
  /\ task_put' = [task_put EXCEPT ![c] = NoPut]
  /\ tombs' = [tombs EXCEPT ![c] = {}]
  /\ target' = [target EXCEPT ![c] = NoTag]

\* The clean-up is over: the copy goes on if it has a target.
AfterClean(c) ==
  IF target[c] = NoTag THEN Finish(c)
  ELSE /\ pc' = [pc EXCEPT ![c] = "inflight"]
       /\ tombs' = [tombs EXCEPT ![c] = {}]
       /\ UNCHANGED <<task_put, target>>

\* What is left of a set of replicas when the tombed ones on the nodes that
\* were seen tombed are dropped.
WithoutTombs(replicas, nodes) == {t \in replicas : t[1] \notin nodes \/ t \notin tomb}

\* clean_up_tombs, first part: clean the key's route if it is the version that
\* was read, and look whether the key's route is empty.
GetClean(c) ==
  LET p == task_put[c]
      current == kv_routes[put_key[p]]
      left == IF current = p THEN WithoutTombs(node_replicas[p], tombs[c])
              ELSE IF current = NoPut THEN {} ELSE node_replicas[current]
  IN  /\ pc[c] = "clean"
      /\ node_replicas' = IF current = p THEN [node_replicas EXCEPT ![p] = left]
                          ELSE node_replicas
      /\ IF current # NoPut /\ left = {}
         THEN pc' = [pc EXCEPT ![c] = "remove"] /\ UNCHANGED <<task_put, tombs, target>>
         ELSE AfterClean(c)
      /\ UNCHANGED <<nodeVars, kv_routes, putVars, sweepVars>>

\* clean_up_tombs, second part: remove_if compares the version only.
GetRemove(c) ==
  LET k == put_key[task_put[c]]
  IN  /\ pc[c] = "remove"
      /\ kv_routes' = [kv_routes EXCEPT ![k] = IF @ = task_put[c] THEN NoPut ELSE @]
      /\ AfterClean(c)
      /\ UNCHANGED <<nodeVars, node_replicas, putVars, sweepVars>>

\* handle_get_revoke, handle_put_append_revoke, or the inflight entry times out.
CopyRevoke(c) ==
  /\ pc[c] = "inflight"
  /\ Finish(c)
  /\ UNCHANGED <<nodeVars, kv_routes, node_replicas, putVars, sweepVars>>

\* The completion finds the target's generation and the version current, and
\* takes a reference to the route.  (An append keeps the entry guard from here
\* to the publication; a durable get does not.)
CopyDone(c) ==
  LET p == task_put[c]
  IN  /\ pc[c] = "inflight"
      /\ IF CurrentLive(target[c]) /\ kv_routes[put_key[p]] = p
         THEN pc' = [pc EXCEPT ![c] = "publish"] /\ UNCHANGED <<task_put, tombs, target>>
         ELSE Finish(c)
      /\ UNCHANGED <<nodeVars, kv_routes, node_replicas, putVars, sweepVars>>

\* publish_route_replica_tomb_fenced, under the route's write lock: a set tag
\* or a live replica on that node means no publication.
CopyPublish(c) ==
  LET p == task_put[c]
      t == target[c]
      here == {s \in node_replicas[p] : s[1] = t[1]}
  IN  /\ pc[c] = "publish"
      /\ node_replicas' = IF t \notin tomb /\ here \subseteq tomb
                          THEN [node_replicas EXCEPT ![p] = (@ \ here) \cup {t}]
                          ELSE node_replicas
      /\ Finish(c)
      /\ UNCHANGED <<nodeVars, kv_routes, putVars, sweepVars>>

-----------------------------------------------------------------------------
SweepStep(t) ==
  (\E k \in Key : SweepSnapshot(t, k)) \/ (\E p \in Put : SweepRoute(t, p)) \/ SweepRemove(t)

\* The steps of a put that install no route the prefix index hears of.
PutStep(p) ==
  \/ \E n \in Node : PutStart(p, n)
  \/ PutRevoke(p) \/ PutDone(p) \/ PutRejected(p) \/ PublishEnter(p)
  \/ PublishRestored(p) \/ PublishLate(p) \/ PublishRollback(p)

TaskStep(c) ==
  \/ \E k \in Key, n \in Node : GetStart(c, k, n) \/ AppendStart(c, k, n)
  \/ GetClean(c) \/ GetRemove(c) \/ CopyRevoke(c) \/ CopyDone(c) \/ CopyPublish(c)

Next ==
  \/ \E n \in Node : Register(n) \/ MemberLeft(n)
  \/ \E t \in Tag : SweepStep(t)
  \/ \E p \in Put : PutStep(p) \/ PublishRoute(p)
  \/ \E k \in Key : Delete(k)
  \/ \E c \in Task : TaskStep(c)

Spec == Init /\ [][Next]_vars

\* A spawned sweep runs to its end, and so does a handler past its last await.
FairSpec ==
  /\ Spec
  /\ \A t \in Tag : WF_vars(SweepStep(t))
  /\ \A p \in Put : WF_vars(PublishRollback(p))

-----------------------------------------------------------------------------
(* Properties. *)

Published == {"late", "acked", "replaced", "deleted", "failed"}
PutStates == Published \cup {"new", "inflight", "checked", "entered"}

\* Types.  node_replicas is a map by node; the route of a key is one of the
\* key's own versions.
NodeType ==
  /\ registered \in [Node -> 0..MaxGen]
  /\ tomb \subseteq Tag

RouteType ==
  /\ kv_routes \in [Key -> Put \cup {NoPut}]
  /\ \A k \in Key : kv_routes[k] \in Put => put_key[kv_routes[k]] = k
  /\ node_replicas \in [Put -> SUBSET Tag]
  /\ \A p \in Put : \A s, t \in node_replicas[p] : s[1] = t[1] => s = t

PutType ==
  /\ put_state \in [Put -> PutStates]
  /\ put_key \in [Put -> Key]
  /\ put_tag \in [Put -> Tag \cup {NoTag}]
  /\ \A p \in Put : put_state[p] # "new" => put_tag[p] \in Tag

SweepType ==
  /\ sweep_keys \in [Tag -> SUBSET Key]
  /\ sweep_todo \in [Tag -> SUBSET Put]
  /\ sweep_empty \in [Tag -> Put \cup {NoPut}]

TaskType ==
  /\ pc \in [Task -> {"idle", "clean", "remove", "inflight", "publish"}]
  /\ task_put \in [Task -> Put \cup {NoPut}]
  /\ tombs \in [Task -> SUBSET Node]
  /\ target \in [Task -> Tag \cup {NoTag}]
  /\ \A c \in Task : pc[c] # "idle" => task_put[c] \in Put
  /\ \A c \in Task : pc[c] \in {"inflight", "publish"} => target[c] \in Tag

\* The type invariant of the route table, its handlers and its sweeps.
TypeOK == NodeType /\ RouteType /\ PutType /\ SweepType /\ TaskType

\* No publication slips past a departure: a replica of a departed generation
\* on a key's route is one the sweep of that generation will still reach (the
\* key is not snapshot yet, or its route is waiting in the snapshot), or the
\* publisher itself is about to roll the route back.  This is what the two tag
\* checks of publish_primary_route_tomb_fenced and the check under the lock in
\* publish_route_replica_tomb_fenced are for.
DepartedCovered ==
  \A t \in tomb, k \in Key :
    LET p == kv_routes[k]
    IN  p \in Put /\ t \in node_replicas[p] =>
          k \in sweep_keys[t] \/ p \in sweep_todo[t] \/ put_state[p] = "late"

\* A put that was acknowledged, and neither replaced nor deleted since, stays
\* readable as long as its node stays: its key still routes to it and its
\* replica is on the route, whatever sweeps, clean-ups, rollbacks and copies
\* did meanwhile.
AckedPutRouted ==
  \A p \in Put :
    put_state[p] = "acked" /\ put_tag[p] \notin tomb =>
      kv_routes[put_key[p]] = p /\ put_tag[p] \in node_replicas[p]

\* A live replica belongs to the registration its node has now: a node that
\* comes back under the same name never inherits a replica of its former
\* memory ("registration replacement tombs the old tag first").
LiveReplicaIsCurrent ==
  \A p \in Put : \A t \in node_replicas[p] : t \in tomb \/ CurrentLive(t)

\* The replicas of a departed generation disappear from the routes for good.
DepartedRoutesVanish ==
  \A t \in Tag :
    <>[](t \in tomb => \A k \in Key : kv_routes[k] # NoPut => t \notin node_replicas[kv_routes[k]])

\* What a client can know of a put: its answer, and whether its version shows on
\* the key although the put will fail.
Outcome(state) ==
  CASE state \in {"new", "inflight", "checked", "entered"} -> "open"
    [] state = "late" -> "shown"
    [] state \in {"acked", "replaced", "deleted"} -> "acked"
    [] state = "failed" -> "failed"

\* What RouteTable sees of the puts.
Table == INSTANCE RouteTable WITH outcome <- [p \in Put |-> Outcome(put_state[p])]

\* The route table implements RouteTable: a put is acknowledged when its version
\* becomes the route of its key, a put that fails takes no route away, and no
\* publication, rollback, sweep or clean-up brings a former version back.
ImplementsRouteTable == Table!Spec

\* A key that has a live replica loses its route only to a delete.
CleanupSparesLive ==
  [][\A k \in Key :
       LET p == kv_routes[k]
       IN  p # NoPut /\ HasLive(p) /\ kv_routes'[k] = NoPut => put_state'[p] = "deleted"]_vars
=============================================================================
