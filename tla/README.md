# A verification project for the Axon 7 device tree

The repository holds the device-specific parts of Android for the ZTE Axon 7:
mostly configuration, and some 70 000 lines of code that runs on the phone. This
directory models the parts of that code that have state over several steps,
checks them with TLC and proves the main results with TLAPS.

    tlc -workers 2 -config MCUpstream.cfg MCUpstream      # any run of PROJECT.json
    tlapm AgpsStateMachine_proofs.tla                     # any module of theorems

`PROJECT.json` lists the runs, what every definition translates (`map`), the
hazards of the code with the properties that cover them, and for each property
a mutant of the model that breaks it.

## The system

### GNSS (src/gps)

A location client (`LocationAPI`, called by the HIDL service in `gps/android`)
posts messages to `GnssAdapter`. One `MsgTask` thread runs them in order, keeps
the sessions of all clients and drives the modem through `LocApiBase`. The modem
calls back from its own threads: positions, SSR (a restart of the modem),
network initiated requests (NI) and requests for data connections (AGPS). NI
requests wait for the user on a thread of their own; AGPS requests go to state
machines that ask the Java framework for the connection; emergency requests go
through a data service with timed retries.

| part | state | what is hard | what makes it correct |
|---|---|---|---|
| client API (location) | interfaces a client is in, request queues, dictionaries of ids | answers carry a session, not a request; libraries may be missing; a client may be destroyed at any time | an answer reaches its request; whatever was started can be stopped |
| tracking sessions (GnssAdapter) | options per session, the engine | clients share one engine; calls fail; the modem restarts while messages are queued | the engine serves the fastest session |
| NI (GnssAdapter) | two sessions, a thread per request | MsgTask and the waiting threads share fields with different locks | each request is answered once |
| AGPS (Agps.cpp) | state and list of subscribers | reports of the framework come late and name no request | connections have an owner, requests an answer |
| AGPS emergency (Agps.cpp) | the same, with retries and timers | retries, fallback and releases cross | the same |
| message task (utils) | linked list, thread, shared delegate | destruction at any time, by owner or by its thread | messages once and in order; everything freed once |
| timers (LocTimer) | heap, timerfd, epoll set | client, MsgTask and poll threads | every started timer is stopped or calls back |

### IPACM (src/data-ipa-cfg-mgr)

IPACM configures the IPA hardware, which forwards the traffic of tethered
clients without the CPU. Netlink, conntrack, driver and HAL threads post events
to two queues; one thread takes them out, the internal queue first, and
`IPACM_EvtDispatcher` hands each to the registered listeners: one object per
interface (`Lan`, `Wlan`, `Wan`), the neighbour cache, the bridge, the
conntrack listener. Rules go to the kernel by ioctl, to the modem by QMI or,
for NAT, through the user space driver `ipanat`.

| part | state | what is hard | what makes it correct |
|---|---|---|---|
| offload manager, HAL | cache of calls, upstream | calls come on another thread and before their device is ready | the upstream ends as the framework asked |
| upstream (`Wan`) | routes, headers, gateway, `wan_up` | links, addresses, gateways and routes come and go in any order | a route leads to the gateway in force; the others are told what is true |
| downlink filters (`Wan`) | the modem's table, the station's rules | one table of several WANs, resent as a whole; counters of shared rules | the table is what WANs, file and switch ask for, and the modem has it |
| uplink filters (`Lan`, `Wlan`) | rules per family, counters | the flag and the event of the WAN disagree | rules follow the WAN and nothing is left |
| private subnets | one table for all interfaces | an interface takes entries by value | rules agree with the table |
| clients (`Lan`, `Wlan`, `Wan`) | tables of clients with handles | entries move; the radio changes mode; clients sleep; rules are refused | the driver has the rules the table counts |
| neighbours | cache with recycling | bridge and device report in any order | entries of connected clients are kept |
| Ethernet bridge (`LanToLan`) | lists of interfaces, clients, peers, tunnels | both sides of a pair come and go while others change mode | the driver has the rules the lists ask for |
| NAT offload (ConntrackListener, NatApp) | rule cache, temporary entries, address lists | connections, clients, power save and WAN events in any order; a full cache | the hardware holds what the cache says and only open connections |
| ipanat | hash tables with expansion chains, index table | the hardware walks the chains while they change | chains are sound after every write; the table is a set of rules |

### The rest

`audio_amplifier` is a small program with a thread of its own: the audio HAL
leaves a state behind, the thread follows it, retrying without the lock.
`light` and `doze` keep little state, and `recovery`, `init`, `lineagehw`,
overlays, SELinux policies, property files and the build keep none.

## Modules

| module | translates | how |
|---|---|---|
| `GnssTracking` | sessions of `GnssAdapter.cpp`, SSR handling of `LocApiBase.cpp` | clients post, `ProcStep` runs the head of the queue as one action; the modem fails calls and restarts, up to a bound |
| `GnssNi` | NI of `GnssAdapter.cpp` | the response handler and the waiting threads, cut where they take and release locks |
| `AtlService` | what the modem sees of a connection handle | abstract: idle, opening, open, closing |
| `AgpsStateMachine` | class `AgpsStateMachine` | each handler is one action; commands to the framework and its reports are under way in two sequences |
| `AgpsEmergency` | `DSStateMachine`, `AgpsManager` | handlers as actions; the data service is external; `AtlService` stands for the regular state machine it falls back to |
| `LocationApi` | `LocationAPI.cpp`, the sessions of `GnssAdapter` as its clients see them | the interfaces a client is in, its calls, an interface's thread serving them |
| `LocationClient` | `LocationAPIClientBase.cpp`: sessions, NI | request queues, the dictionary of batching sessions, answers through a callback under way |
| `GeofenceClient`, `ControlClient` | the same file: geofences; the control client with the adapter's commands | |
| `MsgTask` | `MsgTask.cpp`, `msg_q.c`, `LocThread.cpp` | one action per critical section of the queue and of the teardown |
| `LocTimer` | `LocTimer.cpp` | clients, MsgTask and poll thread; the heap as a set and its soonest elements |
| `Amplifier` | `audio_amplifier.c` | one action per critical section of the thread; the calls are atomic under its lock |
| `OffloadManager` | `HAL.cpp`, `IPACM_OffloadManager.cpp` | calls on the HAL's thread, in two steps where the cache is searched in between |
| `Upstream` | the upstream half of `IPACM_Wan.cpp` | an action per event; extends `OffloadManager` |
| `WanState`, `WanSignal` | what `Wan` promises the tethered interfaces | abstract: flags and tether events of one WAN |
| `WanFilters`, `StaFilters` | the filter half of `IPACM_Wan.cpp` | the modem's table with what the modem has; the station's rules in the driver, in their order |
| `LanUplink` | uplink rules of `IPACM_Lan.cpp`, `IPACM_Wlan.cpp`, `IPACM_Iface.cpp` | the internal queue stands between WAN and interface |
| `PrivateSubnets` | the subnets of `IPACM_Lan.cpp`, `IPACM_Config.h` | several interfaces share the table |
| `ClientTable`, `LanClients`, `WlanClients`, `TetherClients` | the clients of `IPACM_Lan.cpp`, `IPACM_Wlan.cpp`, `IPACM_Wan.cpp` | common operations; the clients of USB and Ethernet, and of the radio as access point or station; what holds of them all |
| `Neighbor` | `IPACM_Neighbor.cpp` | an action per event; the posted event is part of the state |
| `BridgeIface`, `EthBridge` | `IPACM_LanToLan.cpp`, its operations in `IPACM_Lan.cpp` | operators for one interface's rules; the events of all of them |
| `NatApp` | `IPACM_Conntrack_NATApp.cpp`, `IPACM_ConntrackListener.cpp` | one action per event; a connection is a client and a port |
| `NatTable`, `RuleStore` | `ipa_nat_drvi.c` | one action per memory write or DMA command, the checksum differences; the abstract set of rules |
| `*_proofs` | | theorems, see below |
| `MC*` | | the small instances of the runs |

How they compose:

* `AgpsStateMachine` implements `AtlService` (`ImplementsService`, proved), and
  `AgpsEmergency` instantiates `AtlService` in its place.
* `Upstream` is shown to post only what `WanSignal` allows (`Signals`); `LanUplink`
  lives under a WAN that does what `WanState` allows, which both use.
* `NatTable` implements `RuleStore` (`ImplementsStore`, proved), which is what `NatApp`
  takes the driver for.
* `Upstream` extends `OffloadManager`: the cache is searched by its events.
* `Neighbor` posts the address events that `LanClients` and `NatApp` start from.
* A run whose MC module has a `part` or a `kind` checks components that share a
  question side by side, in behaviours of their own, not their product.

### Correspondence

*GnssTracking.* `sessions` is `mTrackingSessions`, `clients` is `mClientData` with
whether a tracking callback is set, `engine` and `modem` are what the modem runs
and whether our handle to it is open. `startTrackingCommand` and its siblings
post; the `Proc...` definitions are the bodies of their messages, including the
multiplexing. A modem restart is noticed in two posts, the reopening of the
handle and the restart of the sessions, which client messages can come between
(`notifying`).

*GnssNi.* `rawRequest`, `reqID`, `resp`, `respRecvd` are the fields of the two
`NiSession`s. `thread[i]` is the thread started for the i-th request; `handling`
is how far `MsgGnssNiResponse::proc` has come. `given` and `settled` are history.

*AgpsStateMachine.* `subs` merges the list of subscribers with their two flags.
`told` is what the modem was last told, `conn` the framework's connection, which
the network may take away (`FrameworkDrop`). `overlapped` is history.

*AgpsEmergency.* `list` keeps the order of the subscribers, since retries and
fallback take the first active one. `timers` counts the retry timers running.

*The client API.* `cbs` and `known` are the client's entry in `gData.clientData`
and what each interface was told of it; `work` holds the calls an interface has
not served. `queues` is `mRequestQueues`; `dict` and `fdict` the dictionaries of
sessions and fences. `answer` is a request whose `onResponse` runs. A call is one
action, since it holds `mMutex`; but a session may be taken out of the dictionary in
the middle of it, which is an action of its own (`Overtaken`). `cut` are the
interfaces earlier callbacks called for and the present ones do not. The
interfaces answer as `GnssAdapter` does (no answer for a session it does not
know); the batching and geofence libraries are not in the repository.

*MsgTask.* `worker` and `owner` are program counters. The thread may be detached
or joinable; `refs` is the count of the shared delegate.

*LocTimer.* `delegates` are numbered in the order of creation; `due` is their
time. `armed` is the timerfd, `polled` its place in the epoll set. The poll
thread disarms, removes and reports in three steps, as the code does without a
lock against MsgTask.

*Amplifier.* `state` is what the calls leave, `rstate` the thread's copy, the two
semaphores are counters, `pc` says where the thread is outside its critical
section: `sleeping`, `again` and `changed` are the retry loop of
`tfa9890_set_amp_state`. `skipped` notes that only the bypass mode, which does
not set the device, was shown a change of it.

*OffloadManager, Upstream.* `om` holds `default_gw_index`, the upstream's families
and the event cache, where an entry is valid or not; `ext` the queue the calls
post to. `inst` is one `IPACM_Wan` per device: addresses, gateway, header, and
per family whether its route is active or partial. `said` is the last tether
event of each family. The framework's calls are serial; netlink events come at
any moment in between.

*WanFilters, StaFilters.* `table` is `flt_rule_v4/v6` with its count, `modem` what
was accepted last by QMI, `count` the modem PDNs. The file and the switch of
software routing change at once and their events come later. The driver of a
station gets rules one by one and `held` is their order.

*LanUplink, PrivateSubnets.* `flt` is the record of filter rules of a family with
their handles, `live` or `stale`; `up` and `down` are `is_upstream_set` and
`is_downstream_set`. `base` are the groups of base rules that are in: the address
is taken whichever of them the driver refuses. The oddities of a life (`odd`) are forgotten when it ends with
every rule accounted for. `tether` has, per interface, the subnet its rules are for.

*Clients.* `tbl` is the array of clients; a client's `r4`, `r6` are handles, which
are rules in the driver while they are in `rules`. `alt` are those that lead to
the other pipe of the radio. A rule refused in the middle of a client's
addresses is a choice of the action, and the handles of what was put in before it
are not followed: when a place of theirs is used, it may hold the handle of any rule.

*Neighbor.* `cache` and `circular` are `neighbor_client` and `circular_index`;
`posted` is the event the last step posted.

*EthBridge.* `s` is the state of `IPACM_LanToLan`: interfaces with their clients,
peers and rules, cached clients, tunnels; `net` is what the Lan objects are, and
`queue` the internal queue. `s.odd` names what the properties except.

*NatApp.* A rule is a connection and what stands for its private address: the
client's, or (a dummy rule, `via` the public address) that of the WAN. `cache`
and `temp` are the used slots of the two arrays, `nat` and `nonnat` the lists of
client addresses. `save` may hold any addresses at first and `pre` any public
address, because the constructor sets neither. The driver may refuse to add or to
delete a rule; `lost` are the rules it did not delete although their entry, with
the handle, was cleared.

*NatTable.* `rule` and `index` are the two tables, base and expansion, with their
links; `op` is what the driver is in the middle of, so that the hardware, which
follows the links, is looked at between any two of its writes.

## Runs

| run | bounds | what it shows |
|---|---|---|
| `tracking` | 2 clients, 2 intervals, 2 session ids, 1 queued client message, 1 failing call, 1 restart | the engine runs at the interval of the fastest session whenever the modem is up and its restart has been handled, unless the modem refused that restart and took no call since; sessions outlive their client only after a refused stop; after the last restart the engine serves the sessions for good, with the same exception |
| `agps` | 3 handles, 4 commands and reports under way, 2 drops; emergency: 1 handle with 2 retries or 2 with 1, 1 timer | each connection has its owner; each request is answered; the abstract service is implemented |
| `location` | one client of each kind, 3 to 5 calls, 2 sessions or 3 fences; 3 configurations of 4 items; 2 NI requests | answers reach their requests; tracking, sessions and fences can be stopped, clients leave, the control client's vote and configuration settle and the modem keeps to `mGps_conf`; NI payloads are settled once and in the end |
| `utils` | 3 messages; 2 timers, 3 starts, clock to 3; 4 devices, 3 calls, 2 refusals | messages once and in order, the delegate freed by the last user, no update of the amplifier lost, nothing waits for ever |
| `natapp` | 1 client behind NAT, 1 not, 2 public addresses, 2 rules, 1 temporary entry; driver: 4 rules that collide, tables for 4 or 15 | cache, hardware and temporary entries agree; only open connections are offloaded; chains are sound after every write and the table is a set of rules |
| `upstream` | 2 WANs, 1 tethered device, setups of up to 4 calls or links, one cached call beyond | routes lead to the gateway in force; the upstream is the one asked for; the others are told what `WanSignal` allows |
| `wan_filters` | 2 modem WANs or one with eMBMS, 4 firewall files, up to 3 changes; or a station | the table is exact, the modem has it, the station's rules too |
| `lan_uplink` | 1 interface, either family, up to 2 lives, a second one after a first in which nothing odd happened; any base rules refused, half of software routing refused on an IPv4 device; 3 interfaces and subnets with 2 entries | uplink rules follow the WAN, nothing is left, rules stay counted, subnets agree; a WAN that is up is seen |
| `clients` | 2 clients, 2 addresses of each family, 1 refusal or old handle; 3 neighbours in 2 entries | the driver's rules are those the table counts and lead where clients can be reached; the neighbour cache keeps connected clients apart |
| `eth_bridge` | 3 interfaces, 2 clients, 1 cached client, 1 tunnel, up to 5 driver events | the driver has the rules of the lists, the lists are those of the network, rules follow the mode, tunnels are served |
| `ni_answer_is_own`, `loctimer_early` | 2 requests; 2 timers | violated: see below |

Why the bounds are enough: the code treats all clients, handles, messages and
addresses alike, so two of a kind show any pairwise interference (a stop of the
fastest of two sessions, a request that overtakes the close of another, an entry
that moves up when another leaves), and three handles are what a subscriber that
waits behind a second closing needs. Limits of the code (cache sizes, retries,
address and rule tables) are constants, set so low that they are reached. Bounds
of the model alone stop the environment, never the component, and are marked in
the modules; where several oddities of the code would hide one another, a bound
lets one of them happen per behaviour (`OneOddity`, and `odd = {}` in `ClientTable`).
The setups of the MC modules are the shapes of an environment (which devices
there are, how many calls) that are explored one by one, not in one product.
`agps` checks two emergency handles for safety only, since a pending call of the
second may be left to nobody (see below).

Deadlock is checked in `eth_bridge` and `clients`; all other systems may stop when
their bounds are used up, or when what they model is destroyed or closed.

Fairness. MsgTask, the poll thread, the waiting threads, the amplifier's thread
and the command-queue thread are threads that nothing blocks for good: their
steps are weakly fair. So are the framework and the data service of AGPS, but
only for answers to what they were asked (a call taken away is not owed), the
modem's return from a restart, and time. Clients, users, the network and the
modem's requests owe nothing.

## Disagreements with comments

Runs with `expect: violation`, each quoting the comment in `PROJECT.json`:

* `ni_answer_is_own`: a response stored after the waiting thread has timed out is
  given as the answer to the next request (GnssAdapter.cpp:1746).
* `loctimer_early`: an expire message handled late expires the next timer of the
  heap before its time (LocTimer.cpp:370).

Met while modelling, without a run. The models do what the code does, and where a
property would say otherwise it names the exception.

GNSS and audio:

* With equal intervals the engine may run with options of a session that is gone:
  a strict comparison (GnssAdapter.cpp:1626) against the comment at 1384. That is
  why `EngineServesFastest` compares intervals only.
* An IGNORE stored for a pending NI request when an emergency request is accepted
  is overwritten by a response that follows before the thread wakes
  (GnssAdapter.cpp:1754, comment at 1751).
* The comment at GnssAdapter.cpp:2253 expects a modem restart to clear the NI
  request; nothing does. `AgpsManager::handleModemSSR` (Agps.cpp:887), which would
  drop the subscribers, has no caller.
* After the last close with a subscriber waiting, PENDING does not mean that a call
  was requested: the result of `requestOrReleaseDataConn` is ignored (Agps.cpp:232,
  comment at 93).
* An emergency subscriber whose call was closed may stay in the list (Agps.cpp:121,
  comment at Agps.h:134). With two handles a request can stay unanswered, since
  only the first subscriber is retried and falls back. An attempt at the call that
  fails with an unknown error (645), or whose timer does not start (629), leaves the
  request in a released machine with neither retry nor fallback (`abandoned`).
* A message task may be deleted while `destroy()` still works on it (MsgTask.cpp:66,
  comment at MsgTask.h:50); a thread stopped before it ran leaks its runnable
  (LocThread.cpp:181, comment at LocThread.h:75).
* Request queues of the client API are never reset: a second stop or update before
  an answer leaves a request behind that takes a later answer. A change of mode
  that is refused is not undone in the dictionary; a start that fails leaves
  `mTracking` set. NI ids can equal ids of tracking sessions. A client that gives
  fewer callbacks stays in an interface its destructor no longer asks (`cut`).
* Neither `beforeBatchingStatusCb` nor `removeSession` takes `mMutex`
  (LocationAPIClientBase.cpp:825, 884). A session that ends between the reading of
  its entry and the request of a stop or update leaves a request behind, which
  takes a later answer; between that and the new entry, it is entered again though
  it is gone; before the entry is read, the id stays, with session 0, since
  `getExtById` makes an entry (LocationAPIClientBase.h:340). `Overtaken` takes
  each of these steps.
  `removeAllGeofences` passes sessions where ids are expected, a modification
  after an unknown id uses another fence's options, and a fence id added again
  hides the first fence. A configuration equal to the last is swallowed, and an
  item equal to `mGps_conf` is not sent, even when the modem declined it; the answer
  is SUCCESS (GnssAdapter.cpp:673, 751).
* `enableds` of the amplifier has no place for the last device (audio_amplifier.c:52,
  loop at 256), so it never comes on for it (`Asked`). A change of device shown to
  the bypass mode only is lost when another mode follows (`skipped`). `tfa9890_dev`
  stays set after closing, so the device cannot be opened again.

IPACM:

* *Uplink filters.* The address is taken whatever became of the base rules (IPACM_Lan.cpp:1324, 1416);
  when the interface goes, a rule that never was ends the removal or is counted down.
  Half of software routing stays (IPACM_Iface.cpp:177): `odd`, `left`.
* *Upstream.* A route may stay partial (comments at IPACM_Wan.cpp:1907 and 810) or be
  partial for good (1900). Deleting the IPv4 route clears `is_default_gateway` of a
  device whose IPv6 route stays (4731), which leaves `wan_up_v6` set. A cached
  upstream outlives a later `setUpstream` (IPACM_OffloadManager.cpp:410), until
  `stopAllOffload` clears the cache (562); `setUpstream(NULL)` takes cached
  downstreams with it; a call on a full cache is dropped; NAT interfaces are
  counted before there is room for them.
* *Downlink filters.* A firewall file too large for the table leaves the modem's old
  rules. The rule of software routing keeps an old mux id and outlives the last
  PDN; default TCP rules of IPv6 outlive their route. On a station a fragment rule
  may leak, defaults are added twice after a refusal, and the switch of the radio's
  channels misses the rules of IPv6 clients (5852 against 6140).
* *Subnets.* `DelPrivateSubnet` takes an entry by value and so that of an equal
  subnet (IPACM_Config.h:321); an entry stays after its rule was refused.
* *Clients.* When the channel mode of the radio changes, "modify ipv6 routing rule"
  (IPACM_Wlan.cpp:2110) takes the clients whose rules are no fewer than their
  addresses (2121) and of them the addresses from the first number to the second: no
  IPv6 rule is moved. Deleting an IPv6 address that has no rule (IPACM_Lan.cpp:1127)
  goes through the handle left in its place, which is never cleared and may be that
  of a live rule of any client. When a client of the radio leaves, the entries move
  up without `power_save_set` (IPACM_Wlan.cpp:1665), so that one that sleeps can be
  taken for awake, and the reverse. `odd` remembers each.
* *Neighbours.* A recycled entry gets no address (IPACM_Neighbor.cpp:289 against 266),
  and leaving a bridge stores an old one (200).
* *Bridge.* Cached clients may be added for an interface that is gone, LAN clients
  stay until their interface is down, tunnel handles and a pointer to a mapping
  outlive what they name, a client seen before its mapping is taken for a plain
  one, and the context of a tunnel leaks (`s.odd`).
* *NAT.* A dummy rule for a client of another interface is not found when the
  connection ends after the address lists or the WAN have changed, and stays in the
  table (IPACM_ConntrackListener.cpp:742, against IPACM_Conntrack_NATApp.cpp:263):
  `OnlyOpenConnections` is stated for clients behind NAT, where it holds. `AddTable`
  puts back the rules of sleeping clients, against the comment in `AddEntry`. In the
  driver a failed DMA command leaves a free entry linked, which the next collision
  links to itself (`broken`). When the driver refuses to delete the rule of a
  connection that ends, `DeleteEntry` clears the entry all the same
  (IPACM_Conntrack_NATApp.cpp:284-297): the rule stays in the table, without a
  handle, until the WAN changes (`lost`, which both properties except). A client that
  goes to sleep or leaves keeps the entries whose deletion was refused enabled (643,
  872), so that cache and table still agree.

## Assumptions of the models

*Client API.* Interfaces answer as `GnssAdapter` does; the geofence interface answers
each call once, in order. The sessions of a dictionary are on one interface, each
kind of client is alone, the control client is not destroyed, and the sessions of a
client that is removed are stopped successfully. Answers to calls that still wait
when a client is destroyed are dropped, although an interface that took the callbacks
before may call them in what is left of it. A client of a dictionary sets the
callbacks that `BatchingAPIClient` sets (BatchingAPIClient.cpp:58): the batching one,
which a client `GnssBatching::init` made without a callback lacks, and none of the
satellite, NMEA and measurement callbacks, with which a session by fixes could go to
another interface than the batching (`SessionsAssumption`). The id of a notification
is not 0, since the adapter counts up before it gives one out (GnssAdapter.cpp:2326).
The configuration that is set is the valid part of what gps.conf has (`ItemsAssumption`);
the C2K server, which has no copy in the adapter, an invalid server name and the
sending again after a restart of the modem (GnssAdapter.cpp:1099) are left out.

*Amplifier.* The library refuses at most `MaxFail` times, calls are serial, and a
stream ends only after it began.

*Upstream.* Deleting one's own routes succeeds; at most one rule is refused in a
behaviour. A second IPv6 address brings the global prefix; the neighbour of the
gateway has both headers. HAL calls are serial. `IPA_WAN_MSG_IPv6_ADDR_GW_LEN` is
taken to be defined (it comes from the kernel's headers, which are not here).

*Downlink filters.* The modem accepts tables that fit. A driver refuses at most one
route of an address and one default route, accepts firewall rules and defaults, and
deletes what it has; the rule of software routing of a station is never refused half-way
(IPACM_Iface.cpp:177). Only a cradle changes mode. One upstream device at a time;
eMBMS gets no address. Station and modem WANs are in separate behaviours. Events of
other devices are heard in the shape of a firewall event only.

*Uplink filters and subnets.* Built for Android; an access point comes up once;
the rules of one call come in together or not at all (the dummies of the subnets are
one call); a rule that is in can be deleted;
modifying one's own rules succeeds; a change of configuration only adds families the
device tethers.

*Clients.* An interface has both families. Deleting through a handle whose rule is
gone does nothing; a rule for a header that is gone is refused. A header left by a
refusal of the second is not followed. One property of the transmit side stands for
all of a family. For a station `nat` is the listener's list of clients. The index of
an interface in the kernel stays as it is.

*Bridge.* The build with `FEATURE_ETH_BRIDGE_LE` and `FEATURE_L2TP`
(`IPACM_LanToLan.cpp` is used by IPACM_Main.cpp:857 but not listed in Android.mk). The
driver accepts rules, except for a table or a context that is missing, and every
interface that comes up has transmit and receive properties and one of the known
types of header. One ODU
interface carries all VLANs, and only its object posts clients of tunnels. The memory
of a freed object is used again for the same interface only.

*NAT.* Built for Android, which has one public address at a time
(`modify_pdn` is not used) and no offset of the table. A WAN down event names the
address that is up, and a client list counts an address once. Rules added are
distinct. The DMA ioctl is synchronous, and a delete whose ioctl fails changes
nothing; deleting the table succeeds. After `broken` only that is followed.

## Proofs

For every value of the constants that the named assumptions allow; the bounds of
the model only appear as natural numbers. A module of theorems extends the module
of the run that checks the same properties on its small instance.

* `GnssTracking_proofs`: `TypeCorrect`, `NeverIdleFix`, `EngineAlwaysServesFastest`,
  `OrphansWereRefused`. The third is not inductive: a start that overwrote a running
  session, or a handle that was reopened without a restart of the sessions, would
  break it. `IInv` adds `StartsFresh` (ids never repeat) and `RestartAfterReopen`
  (the order of the two posts in the queue). Messages that stop or slow down a
  session need that a finite set of intervals has a least one, which the module
  proves first.
* `AgpsStateMachine_proofs`: `TypeCorrect`, `StateAlwaysMatches`, `ToldAlwaysAgrees`,
  `NeverWaitsForNothing`, `ServiceImplemented`, `ConnectionsAlwaysOwned`. The first
  four are inductive together; one lemma per handler gives the invariant and the
  step of the abstract service (`Step`), so that they carry the refinement. The last
  adds what is under way: in the regular machine, until a request overtakes an
  exchange, commands and reports are those of the state's one exchange (`InOrder`);
  in the emergency machine a call is reported closed once and after it has gone
  (`ClosedOnce`), else a report left over could close the next call.
* `Location_proofs`: `ControlAlwaysSettles`, `ClientAlwaysLeaves`,
  `TrackingAlwaysStops`, `FencesAlwaysRemovable`. Each says what holds once an
  interface has nothing to do, so each invariant says what the waiting calls will
  make of it. `ControlIInv`: the votes that wait alternate, and the last of them,
  or else the modem's vote, is what the client believes. `LeaveInv`: who is known
  to an interface, or will be, has callbacks for it, was cut down from it, or has a
  remove waiting.
  `TrackInv`: a session that runs or will run is the client's present one or has a
  stop waiting behind its start. `FenceInv`: an id of the fence dictionary leads
  to the last session it was given to; a fence that is watched or will be is in
  the dictionary or has its removal waiting behind it; and of the calls waiting
  about a fence the last that sets its mask, or else the mask it is watched with,
  is what the client knows. It is proved of the dictionary as an arbitrary call
  may change it (`MayAsk`), and of each call that it does no more.
  `AnswersAlwaysOwn`, `SessionsAlwaysAgree`: an answer carries the id of a session
  only, and gets the request at the head of a queue. `AskInv` says that no answer in
  between is lost or unasked for: the requests of the queue are, one for one and in
  order, those of the calls about its sessions that still wait (`Match`, counted
  along the waiting calls by a function, since a filter of a sequence cannot be
  expanded). That needs to know which interface will answer at all: for the tracking
  client at most one runs the session of the queue or will (`TrackAsked`), for the
  batching client one interface has all the sessions (`Talker`) and the other is
  only told to stop and update what it does not run (`Silent`). For the dictionary
  `Talk` adds what each session is up to: named and running in the mode that is
  remembered, or with the one call or answer under way that will make it so, or not
  named and with its stop waiting. Nothing is claimed after a call that the code
  itself cannot keep apart (`astray`: a second request about a session while one is
  under way, a change to a mode no library serves, a change the interface refuses
  after the dictionary took it, a notification with the id of a session, a session
  that ends in the middle of a call about it).
  The same module
  has the NI requests: `NiTypes`, `PayloadSettledOnce`, `SessionHasOneWaiter`.
  `NiIInv` says where the one right to settle a payload is: in the session with
  the thread that waits (`Owned`), with that thread once it took the payload
  (`Carried`), or in the one message it sent (`Informed`).
* `Utils_proofs`, message task: `TypeCorrect`, `HandledExactlyOnceInOrder`,
  `DelegateDeletedByTheLast`, `NothingHandledAfterJoin`. `IInv` adds `Counted` (the
  reference count is the number of users left) and `Placed` (where owner and thread
  may be at the same time). Amplifier: `AmpTypeCorrect`, `NoUpdateEverLost`; the
  invariant adds `CopyCurrent` (with nothing posted the thread's copy is what was
  asked), `Trying` (a refused attempt is one that the copy asks for) and what the
  amplifier was set to. The property alone does not carry through a retry that takes
  a post and gives it back.
* `Nat_proofs`: `HwAlwaysMatches`, `OnlyOpenOffloaded`, `TempOnlyWaits`. `IInv` adds
  `OnlyOpenWait`: whatever waits in the cache or in temp for a client behind NAT is
  the rule of an open connection, since entries come back long after they were
  cached. `TempInv` adds which dummy entries a refusal has made. `IpCksumExact`,
  `TcpUdpCksumExact`: the differences that the driver writes into a rule, added by
  the hardware in one's complement, give the checksum of the translated packet, for
  all addresses and ports of 16-bit words.
  The driver's table: `TableInv`, `TableChainsSound`, `TableImplementsStore`, for
  every size that may be asked for and any rules, however they collide. `TInv` says
  that between two operations a table is `Clean`: its chains do not meet, go back the
  way they came and end (`Wired`); an index and its rule point at each other
  (`IndicesOK`); handles name entries (`HandlesOK`). In the middle of an operation
  it is what that operation has made of a clean table so far: of an addition the
  rule, or the rule and its index, that is not enabled yet (`InIndex`, `InEnable`);
  of a deletion one of the `Stage`s of its batch, relative to the table before it.
  So a chain that is half unlinked is never described by itself, only by the
  commands that led to it. That `Chain`, a recursive function, is the least set that
  follows the links (`ChainIs`) is shown with a largest set among those it would be
  wrong of, which a finite table has, and every later lemma uses the least set only.
  Once an addition was left half-way (`broken`) nothing is claimed but that the
  hardware still finds rules one at a time.
* `Clients_proofs`: `TableAlwaysCounts`, `RulesAlwaysReachClients`. `TableInv`: no
  two clients hold the same handle and what they hold is in the driver (`HeldIn`), a
  handle is of a rule for the address beside it (`ClientOK`), and who sleeps holds
  none (`Quiet`); each as long as the oddity that ends it has not happened (`Known`,
  `Own`, `Sound`, `Moved`), and only an interface of USB or Ethernet deletes single
  addresses. The handlers are shown on one client's record first, the table is put
  together from those. `NeighborsAlwaysKept`: every neighbour has
  one entry at most, with the address and device it was last seen with.
* `Uplink_proofs`: `UplinkAlwaysFollowsWan`, `RulesAlwaysAccounted`. Every operation
  on the rules of a family keeps their balance with `FltRuleCount` or leaves its
  oddity behind (`Kept`). `UlInv` adds that the one event under way is true of the
  WAN, that there are rules only for a family with an address, and that a refusal is
  noted where an address lacks one of its base rules, which is what makes
  `handle_down_evt` stop half-way. A base rule that never was may be counted down all
  the same (`NeverWas`), and half of software routing stays without a handle. `SubnetsAlwaysAgree`: the table has no entry twice, at most one change is
  on its way, and the interface it comes from has its rules from the table already.

Only model-checked: all liveness properties (TLAPS has no fairness or ENABLED); the
refinement `Signals`; `RoutesOfGateway` and `AsAsked` of `Upstream`;
and `WanFilters`, `StaFilters` and `EthBridge`, which keep tables and rules in step
through folds, whose values TLAPS cannot compute for every input.

## Not modelled

Components with no module, with the reasons in `PROJECT.json`: the HIDL service of
GNSS; configuration, ULP, NMEA and aiding data of `GnssAdapter` (each message writes
one setting through); `LocApiBase` and its siblings (fan-out to a fixed list);
`SystemStatus` and its observer; `LocHeap` (below the set of `LocTimer`); utilities;
`Netlink`, `ConntrackClient` and `Main` (sockets, whose messages are the inputs of the
modules); `Config`, `Xml` and `Log`; the relays, logs and statistics of the tethering
HAL; `doze`, `light`; recovery, `init`, `lineagehw` and the build.

Within the modelled components: the second AGPS state machine (internet) and its
configuration; failures of `pthread_create` and `malloc`; the second timer
container, the tree inside `LocHeap` and the C wrapper of the timers; in NAT offload
STA mode, LAN to LAN connections, passthrough, ALG ports and the device's own
connections, and the thread that updates timestamps; XLAT and the non-Android events
of the WAN; quota and statistics; file descriptors; the list of listeners of the event
dispatcher, which a listener may change while an event walks it
(IPACM_EvtDispatcher.cpp:124). Reports (positions, NMEA, satellites) are formatted and
passed on.

What could follow: the dispatcher's list with `IfaceManager`; `SystemStatusOsObserver`
with its two maps of clients; `NatApp` in STA mode; proofs about `Upstream` and the
timers.
