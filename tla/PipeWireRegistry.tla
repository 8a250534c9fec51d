--------------------------- MODULE PipeWireRegistry ---------------------------
(***************************************************************************)
(* What the Linux backend knows of the daemon: the registry and `default`  *)
(* metadata mirrors of pw_thread_main, read by the discovery queries, and  *)
(* of watch_thread_main, reported to the handler of a DeviceWatcher        *)
(* (src/audio/linux/thread.rs).  Both learn of the daemon only through a   *)
(* stream of events, and settle it with sync/done roundtrips that give up  *)
(* after a time limit; a done that comes after its roundtrip gave up is    *)
(* still on its way.                                                       *)
(*                                                                         *)
(* The daemon is the environment.  A global id stands for the node's       *)
(* object.serial too, and is not used twice.                               *)
(***************************************************************************)
EXTENDS Naturals, Sequences, FiniteSetsExt

CONSTANTS
  Names,       \* node names, and application names
  Pids,        \* process ids
  MaxDump,     \* bound of the model: objects there when the thread connects
  MaxGlobal,   \* bound of the model: global ids
  MaxChanges   \* bound of the model: times the daemon's objects or default change

VARIABLES
  live,       \* the daemon's objects by global id
  default,    \* the node name the metadata holds for default.audio.sink
  used,       \* the highest global id used so far
  changes,    \* bound: changes so far
  hears,      \* the daemon's clients of the metadata: the id they are bound to
  requests,   \* client to daemon
  events,     \* daemon to client
  task,       \* what the thread is for: "watch", or the query it answers
  pc,         \* where the thread is
  devices,    \* devices by global id
  apps,       \* applications by global id
  metaId,     \* pending_default_meta_id
  bound,      \* default_metadata: the id of the bound proxy
  defaultName,\* RegistrySnapshot::default
  awaited,    \* sequence number of the latest sync
  done,       \* its done has come
  picked,     \* the name snapshot_default returned, before the devices are asked for
  answer,     \* what the query was answered
  told,       \* history: devices the handler believes in
  toldDefault,\* history: the default the handler was told of last
  window,     \* history: since the daemon served the latest sync, the objects that
              \* were there all the time and at any time, and the defaults; and the
              \* objects that were there since the connection
  heir,       \* history: devices there since the default was set to their name
  gaveUp      \* history: the roundtrips of the last query that gave up

daemonVars == <<live, default, used, changes, hears, window, heir>>
mirrorVars == <<devices, apps, metaId, bound, defaultName, told, toldDefault>>
queryVars == <<task, picked, answer>>
registryVars == <<daemonVars, requests, events, pc, mirrorVars, awaited, done, queryVars, gaveUp>>

None == "none"

ASSUME RegistryAssumption ==
  /\ {MaxDump, MaxGlobal, MaxChanges} \subseteq Nat /\ MaxDump <= MaxGlobal
  /\ None \notin Names

NoId == 0
Device(n) == [class |-> "device", name |-> n, pid |-> None]
App(p, n) == [class |-> "app", name |-> n, pid |-> p]
Metadata == [class |-> "meta", name |-> None, pid |-> None]
Objects ==
  {Device(n) : n \in Names} \union {App(p, n) : p \in Pids, n \in Names} \union {Metadata}

Resolve ==
  {[by |-> "device", key |-> n] : n \in Names}
    \union {[by |-> "pid", key |-> p] : p \in Pids}
    \union {[by |-> "name", key |-> n] : n \in Names}

Whole(t) == [by |-> t, key |-> None]
Tasks == Resolve \union {Whole(t) : t \in {"devices", "apps", "default", "watch"}}

(* HashMap::insert: the entry of an id is added, or overwritten.           *)
With(map, g, object) ==
  [h \in DOMAIN map \union {g} |-> IF h = g THEN object ELSE map[h]]

InClass(objects, class) == {g \in DOMAIN objects : objects[g].class = class}

-----------------------------------------------------------------------------
(* The daemon: it announces objects, removes them, keeps the default, and  *)
(* serves requests in order.  A session manager that restarts removes the  *)
(* metadata object and announces another.                                  *)

Emit(e) == events' = events \o e
Change == pc # "over" /\ changes < MaxChanges /\ changes' = changes + 1
Known == DOMAIN live
DevicesNamed(n) == {g \in Known : live[g] = Device(n)}
clientSide == <<requests, pc, mirrorVars, awaited, done, queryVars, gaveUp>>

Announce(g, object) ==
  /\ Change
  /\ g = used + 1 /\ used' = g
  /\ object = Metadata => InClass(live, "meta") = {}
  /\ \A h \in Known : object.class = "device" => live[h] # object
  /\ live' = With(live, g, object)
  /\ window' = [window EXCEPT !.ever = @ \union {g}]
  /\ Emit(<<[kind |-> "global", id |-> g, object |-> object]>>)
  /\ UNCHANGED <<default, hears, heir, clientSide>>

Withdraw(g) ==
  /\ Change
  /\ live' = [h \in Known \ {g} |-> live[h]]
  /\ hears' = IF hears = g THEN NoId ELSE hears
  /\ window' = [window EXCEPT !.always = @ \ {g}, !.first = @ \ {g}]
  /\ heir' = heir \ {g}
  /\ Emit(<<[kind |-> "remove", id |-> g]>>)
  /\ UNCHANGED <<default, used, clientSide>>

Property(name) == [kind |-> "property", name |-> name]

SetDefault(name) ==
  /\ Change
  /\ InClass(live, "meta") # {} /\ default # name
  /\ default' = name
  /\ window' = [window EXCEPT !.names = @ \union {name}]
  /\ heir' = DevicesNamed(name)
  /\ Emit(IF hears = NoId THEN <<>> ELSE <<Property(name)>>)
  /\ UNCHANGED <<live, used, hears, clientSide>>

(* A bound proxy is sent the properties the object already has.            *)
Serve ==
  /\ requests # <<>> /\ requests' = Tail(requests)
  /\ LET r == Head(requests) IN
       \/ /\ r.kind = "sync"
          /\ Emit(<<[kind |-> "done", seq |-> r.seq]>>)
          /\ window' = [window EXCEPT !.always = Known, !.ever = Known, !.names = {default}]
          /\ UNCHANGED hears
       \/ /\ r.kind = "bind"
          /\ hears' = IF r.id \in Known THEN r.id ELSE NoId
          /\ Emit(IF r.id \in Known /\ default # None THEN <<Property(default)>> ELSE <<>>)
          /\ UNCHANGED window
  /\ UNCHANGED <<live, default, used, changes, heir, pc, mirrorVars, awaited, done, queryVars, gaveUp>>

Daemon ==
  \/ \E g \in 1 .. MaxGlobal, object \in Objects : Announce(g, object)
  \/ \E g \in Known : Withdraw(g)
  \/ \E n \in Names : SetDefault(n)
  \/ Serve

-----------------------------------------------------------------------------
(* The callbacks of the thread, run by iterate().                          *)

(* registry global.  Streams without a process id are skipped.  The        *)
(* watcher reports a device the first time its id is seen.                 *)
Global(e) ==
  /\ devices' = IF e.object.class = "device" THEN With(devices, e.id, e.object) ELSE devices
  /\ apps' = IF e.object.class = "app" THEN With(apps, e.id, e.object) ELSE apps
  /\ metaId' = IF e.object.class = "meta" THEN e.id ELSE metaId
  /\ told' = IF task.by = "watch" /\ e.object.class = "device" THEN told \union {e.id} ELSE told
  /\ UNCHANGED <<bound, defaultName, toldDefault>>

(* Fault: a removal is reported only for the device that was the default.  *)
GlobalRemove_Unreported(e) ==
  /\ devices' = [g \in DOMAIN devices \ {e.id} |-> devices[g]]
  /\ apps' = [g \in DOMAIN apps \ {e.id} |-> apps[g]]
  /\ told' = IF toldDefault = e.id THEN told \ {e.id} ELSE told
  /\ UNCHANGED <<metaId, bound, defaultName, toldDefault>>

(* registry global_remove.  Nothing is done about the metadata object.     *)
GlobalRemove(e) ==
  /\ devices' = [g \in DOMAIN devices \ {e.id} |-> devices[g]]
  /\ apps' = [g \in DOMAIN apps \ {e.id} |-> apps[g]]
  /\ told' = told \ {e.id}
  /\ UNCHANGED <<metaId, bound, defaultName, toldDefault>>

Named(n) == {g \in DOMAIN devices : devices[g].name = n}

(* metadata property.  The watcher resolves the name among the devices it  *)
(* tracks and says nothing of one it has not seen.                         *)
PropertyChanged(e) ==
  /\ defaultName' = e.name
  /\ toldDefault' = IF task.by = "watch" /\ Named(e.name) # {} THEN Min(Named(e.name))
                    ELSE toldDefault
  /\ UNCHANGED <<devices, apps, metaId, bound, told>>

(* iterate(): one event, or several, also ones behind the awaited done.  A *)
(* done counts only if it answers the latest sync.                         *)
Pumping == pc \in {"pump1", "pump2", "live"}

SyncDone(e) ==
  /\ done' = (done \/ e.seq >= awaited)
  /\ UNCHANGED mirrorVars

Deliver ==
  /\ Pumping
  /\ events # <<>> /\ events' = Tail(events)
  /\ LET e == Head(events) IN
       \/ e.kind = "global" /\ Global(e) /\ UNCHANGED done
       \/ e.kind = "remove" /\ GlobalRemove(e) /\ UNCHANGED done
       \/ e.kind = "property" /\ PropertyChanged(e) /\ UNCHANGED done
       \/ e.kind = "done" /\ SyncDone(e)
  /\ UNCHANGED <<daemonVars, requests, pc, awaited, queryVars, gaveUp>>

(* pump_sync: send, iterate until the done, or give up.                    *)
Sync(from, to) ==
  /\ pc = from /\ pc' = to
  /\ awaited' = awaited + 1 /\ done' = FALSE
  /\ requests' = Append(requests, [kind |-> "sync", seq |-> awaited + 1])
  /\ UNCHANGED <<daemonVars, events, mirrorVars, queryVars, gaveUp>>

Pumped(at, to) ==
  /\ pc = at /\ pc' = to
  /\ done /\ gaveUp' = gaveUp \ {at}
  /\ UNCHANGED <<daemonVars, requests, events, mirrorVars, awaited, done, queryVars>>

GiveUp(at, to) ==
  /\ pc = at /\ pc' = to
  /\ ~done /\ gaveUp' = gaveUp \union {at}
  /\ UNCHANGED <<daemonVars, requests, events, mirrorVars, awaited, done, queryVars>>

BindTo(id) ==
  IF bound = NoId /\ id # NoId
  THEN bound' = id /\ requests' = Append(requests, [kind |-> "bind", id |-> id])
  ELSE UNCHANGED <<bound, requests>>

(* Fault: the proxy is bound after the second roundtrip, not before it.    *)
Bind_TooLate ==
  /\ pc = "bind" /\ pc' = "sync2"
  /\ IF awaited > 1 THEN BindTo(metaId) ELSE UNCHANGED <<bound, requests>>
  /\ UNCHANGED <<daemonVars, events, devices, apps, metaId, defaultName, told,
                 toldDefault, awaited, done, queryVars, gaveUp>>

(* Bound once, if the metadata object was announced by then.               *)
Bind ==
  /\ pc = "bind" /\ pc' = "sync2"
  /\ BindTo(metaId)
  /\ UNCHANGED <<daemonVars, events, devices, apps, metaId, defaultName, told,
                 toldDefault, awaited, done, queryVars, gaveUp>>

-----------------------------------------------------------------------------
(* The answers.                                                            *)

(* The first node of each process.                                         *)
Deduplicated == {g \in DOMAIN apps : \A h \in DOMAIN apps : apps[h].pid = apps[g].pid => g <= h}

First(found) == IF found = {} THEN NoId ELSE Min(found)

(* Fault: an application that is not found is given the first device.      *)
Resolved_Falls(query) ==
  LET found == CASE query.by = "device" -> Named(query.key)
                 [] query.by = "pid" -> {g \in Deduplicated : apps[g].pid = query.key}
                 [] query.by = "name" -> {g \in Deduplicated : apps[g].name = query.key}
  IN IF found # {} THEN Min(found) ELSE First(DOMAIN devices)

(* resolve_target_from_snapshot.                                           *)
Resolved(query) ==
  First(CASE query.by = "device" -> Named(query.key)
          [] query.by = "pid" -> {g \in Deduplicated : apps[g].pid = query.key}
          [] query.by = "name" -> {g \in Deduplicated : apps[g].name = query.key})

(* get_pipewire_default_device_native: the default among the devices, else *)
(* the first one.                                                          *)
DefaultDevice(name, ids) ==
  IF \E g \in ids : devices[g].name = name
  THEN Min({g \in ids : devices[g].name = name}) ELSE First(ids)

(* snapshot_default and snapshot_devices are two commands, each with its   *)
(* own roundtrips.                                                         *)
PickDefault ==
  /\ pc = "answer" /\ task.by = "default" /\ picked = "unasked"
  /\ picked' = defaultName /\ pc' = "sync1"
  /\ UNCHANGED <<daemonVars, requests, events, mirrorVars, awaited, done, task, answer, gaveUp>>

AnswerQuery ==
  /\ pc = "answer" /\ task.by # "watch" /\ (task.by = "default" => picked # "unasked")
  /\ pc' = "over"
  /\ answer' = CASE task.by = "devices" -> DOMAIN devices
                 [] task.by = "apps" -> Deduplicated
                 [] task.by = "default" -> DefaultDevice(picked, DOMAIN devices)
                 [] OTHER -> Resolved(task)
  /\ UNCHANGED <<daemonVars, requests, events, mirrorVars, awaited, done, task, picked, gaveUp>>

(* The watcher goes live after the same two roundtrips, and ends when its  *)
(* owner drops it.                                                         *)
WatchLive ==
  /\ pc = "answer" /\ task.by = "watch" /\ pc' = "live"
  /\ UNCHANGED <<daemonVars, requests, events, mirrorVars, awaited, done, queryVars, gaveUp>>

WatchDropped ==
  /\ pc = "live" /\ pc' = "over"
  /\ UNCHANGED <<daemonVars, requests, events, mirrorVars, awaited, done, queryVars, gaveUp>>

Thread ==
  \/ Sync("sync1", "pump1") \/ Pumped("pump1", "bind") \/ GiveUp("pump1", "bind")
  \/ Bind
  \/ Sync("sync2", "pump2") \/ Pumped("pump2", "answer") \/ GiveUp("pump2", "answer")
  \/ Deliver \/ PickDefault \/ AnswerQuery \/ WatchLive \/ WatchDropped

(* The objects there at the start, announced in the order of their ids.    *)
Dump(objects) ==
  [i \in DOMAIN objects |-> [kind |-> "global", id |-> i, object |-> objects[i]]]

(* The connection starts with that dump.                                   *)
RegistryInit ==
  /\ used \in 0 .. MaxDump /\ live \in [1 .. used -> Objects]
  /\ \A g, h \in Known : g # h /\ live[g] = live[h] => live[g].class = "app"
  /\ default \in Names \union {None}
  /\ changes = 0 /\ hears = NoId /\ heir = DevicesNamed(default)
  /\ window = [always |-> {}, ever |-> {}, names |-> {}, first |-> Known]
  /\ requests = <<>> /\ events = Dump(live)
  /\ task \in Tasks
  /\ pc = "sync1" /\ devices = <<>> /\ apps = <<>>
  /\ metaId = NoId /\ bound = NoId /\ defaultName = None
  /\ told = {} /\ toldDefault = NoId
  /\ awaited = 0 /\ done = FALSE /\ picked = "unasked" /\ answer = NoId /\ gaveUp = {}

Ended == pc = "over" /\ UNCHANGED registryVars

RegistryNext == Daemon \/ Thread \/ Ended

RegistrySpec == RegistryInit /\ [][RegistryNext]_registryVars
-----------------------------------------------------------------------------
(* Type invariant.                                                         *)
RegistryTypeOK ==
  /\ used \in 0 .. MaxGlobal /\ Known \subseteq 1 .. used /\ Range(live) \subseteq Objects
  /\ default \in Names \union {None} /\ defaultName \in Names \union {None}
  /\ DOMAIN devices \subseteq 1 .. MaxGlobal /\ DOMAIN apps \subseteq 1 .. MaxGlobal
  /\ metaId \in 0 .. MaxGlobal /\ bound \in 0 .. MaxGlobal
  /\ gaveUp \subseteq {"pump1", "pump2"}
  /\ pc \in {"sync1", "pump1", "bind", "sync2", "pump2", "answer", "live", "over"}

(* "The real device set, never a racy empty snapshot": what is read after  *)
(* a roundtrip that did not give up, whatever earlier ones did, holds      *)
(* every object that was there since the daemon served it and none that    *)
(* was gone by then; and after two of them the default is one the daemon   *)
(* had since, if there is a metadata object that was there from the start. *)
SnapshotIsRecent ==
  pc = "answer" /\ "pump2" \notin gaveUp =>
    /\ window.always \ InClass(live, "meta") \subseteq DOMAIN devices \union DOMAIN apps
    /\ DOMAIN devices \union DOMAIN apps \subseteq window.ever
    /\ gaveUp = {} /\ InClass(live, "meta") \intersect window.first # {} =>
         defaultName \in window.names

(* A resolved target matches what was asked for, and only a settled       *)
(* registry without any match answers None; but an application hidden      *)
(* behind another name of its process is found by its pid alone.           *)
Matches(g, query) ==
  CASE query.by = "device" -> devices[g].name = query.key
    [] query.by = "pid" -> apps[g].pid = query.key
    [] query.by = "name" -> apps[g].name = query.key
Candidates(query) == IF query.by = "device" THEN DOMAIN devices ELSE DOMAIN apps
Resolves ==
  pc = "over" /\ task \in Resolve =>
    IF answer = NoId THEN task.by = "name" \/ \A g \in Candidates(task) : ~Matches(g, task)
    ELSE answer \in Candidates(task) /\ Matches(answer, task)

(* Discovery answers out of a recent registry, and answers what was asked. *)
DiscoveryIsTrue == SnapshotIsRecent /\ Resolves

(* The handler of a watcher is not left with a wrong picture: once every   *)
(* event was delivered, the devices it was told of are the daemon's, the   *)
(* initial dump and what happened during it included; and the default it   *)
(* was told of last is the daemon's, as long as the metadata object is the *)
(* one that was bound and the device was there when it became the default. *)
WatchFollows ==
  pc = "live" /\ events = <<>> /\ requests = <<>> =>
    /\ told = InClass(live, "device")
    /\ bound \in Known /\ heir # {} => toldDefault \in heir
=============================================================================
