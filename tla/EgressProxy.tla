---------------------------- MODULE EgressProxy ----------------------------
(***************************************************************************)
(* app/runtime/proxy.py: how the gateway, each time it starts, brings up   *)
(* the sbx-net network and the squid proxy, both of which outlive it, and  *)
(* what the sandboxes it then creates are attached to (docker_runtime.py:  *)
(* 159-173).                                                               *)
(***************************************************************************)
EXTENDS Allowlist

CONSTANTS
    Labels,     \* what names are made of
    Settings,   \* values of settings.egress_allowlist
    Hosts,      \* names that a sandbox may ask the proxy for
    NoList,
    Hazards     \* "fault": a call to Docker or to the file system may fail;
                \* "crash": the gateway may be killed;
                \* "redeploy": the allowlist may change between two starts;
                \* "stop": the proxy may stop, start again or be removed

Forms == {"host", "dot", "star", "blank"}

\* No host is under ".invalid" (RFC 2606).
ASSUME EgressEnvironment ==
    /\ Settings \subseteq Seq([form : Forms, name : Seq(Labels)])
    /\ NoList \notin Settings
    /\ Hosts \subseteq Seq(Labels)
    /\ \A h \in Hosts : ~Covers(NeverAllowed, h)
    /\ Hazards \subseteq {"fault", "crash", "redeploy", "stop"}

VARIABLES
    pc,             \* where start() is; "down" and "serving" around it
    allowlist,      \* settings.egress_allowlist of this process
    network_ready,
    proxy_ready,
    network,        \* whether the engine has sbx-net
    proxy,          \* the engine's container of the proxy's name
    squidConf,      \* the domains in squid.conf on the host
    sandboxes       \* how the sandboxes of this process are connected

vars == <<pc, allowlist, network_ready, proxy_ready, network, proxy, squidConf, sandboxes>>

Starting == {"network", "proxy", "wipe", "config", "run", "connect"}

\* No file, or one whose write has been cut short: squid cannot parse it.
NoConf == {}
Confs == {Render(Entries(s)) : s \in Settings} \cup {NoConf}

\* conf: the domains squid has read when it was started last; connected: it is
\* also on sbx-net; by (history): the allowlist of the process that created it.
TypeOK ==
    /\ pc \in {"down", "serving"} \cup Starting
    /\ allowlist \in Settings \cup {NoList}
    /\ network_ready \in BOOLEAN
    /\ proxy_ready \in BOOLEAN
    /\ network \in BOOLEAN
    /\ proxy \in [state : {"absent", "stopped", "running"}, conf : Confs,
                  connected : BOOLEAN, by : Settings \cup {NoList}]
    /\ squidConf \in Confs
    /\ sandboxes \subseteq [net : {"sbx-net", "bridge"}, http_proxy : BOOLEAN]

NoProxy == [state |-> "absent", conf |-> NoConf, connected |-> FALSE, by |-> NoList]

-----------------------------------------------------------------------------
\* A call raises: start() catches it, logs it and returns.
SoftFail ==
    /\ pc' = "serving"
    /\ UNCHANGED <<allowlist, network_ready, proxy_ready, network, sandboxes>>

\* The lifespan starts; the settings are read once per process.
Boot ==
    /\ pc = "down"
    /\ pc' = "network"
    /\ allowlist' \in IF "redeploy" \in Hazards \/ allowlist = NoList THEN Settings
                                                                   ELSE {allowlist}
    /\ UNCHANGED <<network_ready, proxy_ready, network, proxy, squidConf, sandboxes>>

EnsureNetwork ==
    /\ pc = "network"
    /\ network' = TRUE
    /\ network_ready' = TRUE
    /\ pc' = "proxy"
    /\ UNCHANGED <<allowlist, proxy_ready, proxy, squidConf, sandboxes>>

\* No sbx-net, or no client to make it with: then there is not even an
\* EgressProxy (main.py:36-46), which the runtime takes for the same.
NetworkFails ==
    /\ "fault" \in Hazards
    /\ pc = "network"
    /\ SoftFail
    /\ UNCHANGED <<proxy, squidConf>>

\* A proxy that runs is left alone, with the configuration it has read.
AdoptProxy ==
    /\ pc = "proxy"
    /\ proxy.state = "running"
    /\ proxy_ready' = TRUE
    /\ pc' = "serving"
    /\ UNCHANGED <<allowlist, network_ready, network, proxy, squidConf, sandboxes>>

\* Mutant: a running proxy is replaced too.
ReplacesAny ==
    /\ pc = "proxy"
    /\ pc' = "wipe"
    /\ UNCHANGED <<allowlist, network_ready, proxy_ready, network, proxy, squidConf, sandboxes>>

\* Reloaded, its status is not "running".
ProxyNotRunning ==
    /\ pc = "proxy"
    /\ proxy.state # "running"
    /\ pc' = "wipe"
    /\ UNCHANGED <<allowlist, network_ready, proxy_ready, network, proxy, squidConf, sandboxes>>

\* remove(force=True), whatever has become of it since, if it is still there.
WipeProxy ==
    /\ pc = "wipe"
    /\ proxy' = NoProxy
    /\ pc' = "config"
    /\ UNCHANGED <<allowlist, network_ready, proxy_ready, network, squidConf, sandboxes>>

\* Mutant: a file that is there is good enough.
WriteIfAbsent ==
    IF squidConf = NoConf THEN Render(Entries(allowlist)) ELSE squidConf

\* The file is written from scratch each time.
Rendered == Render(Entries(allowlist))

WriteConfig ==
    /\ pc = "config"
    /\ squidConf' = Rendered
    /\ pc' = "run"
    /\ UNCHANGED <<allowlist, network_ready, proxy_ready, network, proxy, sandboxes>>

\* containers.run(): create, then start.
Created == [state |-> "stopped", conf |-> NoConf, connected |-> FALSE, by |-> allowlist]
Started == [Created EXCEPT !.state = "running", !.conf = squidConf]

RunProxy ==
    /\ pc = "run"
    /\ proxy' = Started
    /\ pc' = "connect"
    /\ UNCHANGED <<allowlist, network_ready, proxy_ready, network, squidConf, sandboxes>>

\* A container is connected whether it runs or not.
ConnectProxy ==
    /\ pc = "connect"
    /\ proxy.state # "absent"
    /\ proxy' = [proxy EXCEPT !.connected = TRUE]
    /\ proxy_ready' = TRUE
    /\ pc' = "serving"
    /\ UNCHANGED <<allowlist, network_ready, network, squidConf, sandboxes>>

\* Looking for the old container, removing it, or connecting the new one, which
\* may be gone.
EnsureProxyFails ==
    /\ \/ "fault" \in Hazards /\ pc \in {"proxy", "wipe", "connect"}
       \/ pc = "connect" /\ proxy.state = "absent"
    /\ SoftFail
    /\ UNCHANGED <<proxy, squidConf>>

\* The old file is still there, or nothing of the new one is.
WriteConfigFails ==
    /\ "fault" \in Hazards
    /\ pc = "config"
    /\ SoftFail
    /\ squidConf' \in {squidConf, NoConf}
    /\ UNCHANGED proxy

\* The container was not created, or created and not started.
RunProxyFails ==
    /\ "fault" \in Hazards
    /\ pc = "run"
    /\ SoftFail
    /\ proxy' \in {NoProxy, Created}
    /\ UNCHANGED squidConf

-----------------------------------------------------------------------------
\* Mutant: without a proxy the sandbox goes to the default bridge.
CreateSandboxOnBridge ==
    /\ pc = "serving"
    /\ sandboxes' = sandboxes \cup
            {[net |-> IF proxy_ready THEN "sbx-net" ELSE "bridge",
              http_proxy |-> proxy_ready]}
    /\ UNCHANGED <<pc, allowlist, network_ready, proxy_ready, network, proxy, squidConf>>

\* Mutant: the fallback is the network of the host.
CreateSandboxOnHost ==
    /\ pc = "serving"
    /\ sandboxes' = sandboxes \cup
            {[net |-> IF network_ready THEN "sbx-net" ELSE "host",
              http_proxy |-> proxy_ready]}
    /\ UNCHANGED <<pc, allowlist, network_ready, proxy_ready, network, proxy, squidConf>>

\* DockerRuntime.create.
CreateSandbox ==
    /\ pc = "serving"
    /\ sandboxes' = sandboxes \cup
            {[net |-> IF network_ready THEN "sbx-net" ELSE "bridge",
              http_proxy |-> proxy_ready]}
    /\ UNCHANGED <<pc, allowlist, network_ready, proxy_ready, network, proxy, squidConf>>

\* stop() leaves the network and the proxy as they are.
ProcessEnds ==
    /\ pc' = "down"
    /\ network_ready' = FALSE
    /\ proxy_ready' = FALSE
    /\ sandboxes' = {}
    /\ UNCHANGED <<allowlist, network>>

Exit == pc = "serving" /\ ProcessEnds /\ UNCHANGED <<proxy, squidConf>>

\* The process may be killed while it writes the file, or between the two calls
\* of containers.run().
Crash ==
    /\ "crash" \in Hazards
    /\ pc # "down"
    /\ ProcessEnds
    /\ squidConf' \in {squidConf} \cup (IF pc = "config" THEN {NoConf} ELSE {})
    /\ proxy' \in {proxy} \cup (IF pc = "run" THEN {Created} ELSE {})

\* At any time squid dies, the host reboots, or the operator stops or removes
\* the container (README.md:97-98) (external).
ProxyStops ==
    /\ "stop" \in Hazards
    /\ proxy.state = "running"
    /\ proxy' \in {[proxy EXCEPT !.state = "stopped"], NoProxy}
    /\ UNCHANGED <<pc, allowlist, network_ready, proxy_ready, network, squidConf, sandboxes>>

\* restart_policy "unless-stopped", or the operator: squid starts again, and
\* reads the file as it is by now (external).
ProxyRestarts ==
    /\ "stop" \in Hazards
    /\ proxy.state = "stopped"
    /\ proxy' = [proxy EXCEPT !.state = "running", !.conf = squidConf]
    /\ UNCHANGED <<pc, allowlist, network_ready, proxy_ready, network, squidConf, sandboxes>>

\* The operator wants a clean slate (README.md:97-99) (external).
TearDown ==
    /\ "stop" \in Hazards
    /\ pc = "down"
    /\ network
    /\ network' = FALSE
    /\ proxy' = NoProxy
    /\ UNCHANGED <<pc, allowlist, network_ready, proxy_ready, squidConf, sandboxes>>

-----------------------------------------------------------------------------
Init ==
    /\ pc = "down"
    /\ allowlist = NoList
    /\ network_ready = FALSE
    /\ proxy_ready = FALSE
    /\ network = FALSE
    /\ proxy = NoProxy
    /\ squidConf = NoConf
    /\ sandboxes = {}

StartStep ==
    \/ EnsureNetwork \/ NetworkFails
    \/ AdoptProxy \/ ProxyNotRunning \/ WipeProxy \/ WriteConfig \/ RunProxy \/ ConnectProxy
    \/ EnsureProxyFails \/ WriteConfigFails \/ RunProxyFails

Next ==
    \/ Boot \/ StartStep \/ CreateSandbox \/ Exit \/ Crash
    \/ ProxyStops \/ ProxyRestarts \/ TearDown

Spec == Init /\ [][Next]_vars

-----------------------------------------------------------------------------
\* A setting allows the names of its entries, and what is under them.
Allows(setting, h) ==
    \E i \in DOMAIN setting :
        setting[i].form # "blank" /\ IsSuffix(setting[i].name, h)

\* The default bridge leads everywhere, and sbx-net (no masquerading) to what a
\* proxy lets through that runs and is on it.
Reaches(s, h) ==
    \/ s.net = "bridge"
    \/ proxy.state = "running" /\ proxy.connected /\ Matches(proxy.conf, h)

\* Once this process has set sbx-net up, its sandboxes reach nothing that the
\* allowlist the proxy was created with does not allow: whatever call has failed,
\* whatever was cut off before, and whenever the proxy stops and restarts.  A
\* sandbox that is on the default bridge, because sbx-net could not be set up,
\* is not told of a proxy (proxy.py:105-113).
SafeFailureMode ==
    \A s \in sandboxes :
        /\ s.net = "bridge" => ~network_ready /\ ~s.http_proxy
        /\ network_ready => \A h \in Hosts : Reaches(s, h) => Allows(proxy.by, h)

\* Starting, failing, stopping or killing the gateway never takes down a proxy
\* that runs, and never sets out to: other sandboxes use it (proxy.py:138-140).
\* One that was not running when start() looked, and that Docker restarts before
\* it is removed, is an exception.
RunningProxyIsKept ==
    [][proxy.state = "running" /\ pc' # pc /\ pc # "wipe" =>
          proxy'.state = "running" /\ proxy'.conf = proxy.conf /\ pc' # "wipe"]_vars

\* squid starts only from a configuration that it can parse: with at least one
\* domain, and none listed next to one that covers it (proxy.py:51, 69), even
\* after a start that was killed or failed while it wrote the file, and also
\* when Docker restarts it.
SquidParses ==
    proxy.state = "running" =>
        /\ proxy.conf # NoConf
        /\ \A d, e \in proxy.conf : Covers(d, e) => d = e

\* A proxy lets through exactly the hosts that the allowlist of the process
\* that created it names, each with all that is under it: neither the merging
\* of its entries nor the file of another deployment changes that, and a
\* restart by Docker, which reads the file again, does not either.
ProxyServesItsAllowlist ==
    proxy.state = "running" =>
        \A h \in Hosts : Matches(proxy.conf, h) <=> Allows(proxy.by, h)

=============================================================================
