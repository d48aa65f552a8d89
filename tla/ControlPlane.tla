---------------------------- MODULE ControlPlane ----------------------------
(***************************************************************************)
(* What administrators configure while the program runs, and what it makes *)
(* of it at once and after a restart: the server of MCP tools (app/mcp),   *)
(* the custom tools (app/tool/custom.py), the model (app/agent/model/      *)
(* api.py).  Each is a key of the configuration center                     *)
(* (app/configcenter/service.py), written first, and then brought into the *)
(* tool registry or the gateway of this process, which live in memory.     *)
(*                                                                         *)
(* One MCP server, known by its url, and two custom tools stand for the    *)
(* lists.  Every transaction and every answer of the server is a step, so  *)
(* that requests of several administrators interleave.                     *)
(***************************************************************************)
EXTENDS Naturals, Sequences, FiniteSets

CONSTANTS
  Admins,         \* requests in flight at once
  Urls,           \* addresses of the MCP server, and of the model's provider
  Offered,        \* names of the tools that the server lists, in its order
  Allowed,        \* white lists of tools; the empty one allows all
  CustomRefs,     \* names that custom tools are given
  Definitions,    \* their definitions, pairs of a code and a risk level
  BadCodes,       \* codes that the sandbox does not accept
  Builtins,       \* names of built-in tools
  EnvServer,      \* the server of settings.mcp_servers, or Unset
  MaxChanges,     \* bound on requests, and
  MaxRestarts,    \* on restarts
  Unset           \* nothing: no value, or None in the code

Servers == [on : BOOLEAN, url : Urls, only : Allowed]
Models == [url : Urls, key : {"", "key"}]
Owner == [by : {"builtin"}, of : {Unset}] \union [by : {"server"}, of : Urls]
         \union [by : {"custom"}, of : Definitions]
Code(body) == body[1]
Codes == {Code(body) : body \in Definitions}
ServerRefs == {Offered[i] : i \in DOMAIN Offered}
Startup == "startup"
ASSUME ControlAssumption ==
  /\ {MaxChanges, MaxRestarts} \subseteq Nat
  /\ Urls # {} /\ Allowed # {} /\ Startup \notin Admins
  /\ EnvServer \in Servers \union {Unset}
  /\ Unset \notin Servers \union Urls \union Models \union Definitions \union Codes \union Owner
  /\ \A s \in SUBSET ServerRefs : s # Unset

VARIABLES
  config,     \* config[k]: the newest version of key k, and its value
  policies,   \* tools the seed tenant is allowed (policies are rows)
  registry,   \* registry[r]: whose tool is called r
  client,     \* McpManager.clients: the url of the open client
  tools,      \* McpManager.server_tools: the refs registered for the server
  custom,     \* CustomToolManager.registered: the code of each ref
  live,       \* what the gateway uses for the model
  task,       \* where each administrator's request stands, and the start-up
  changes, restarts,
  calm        \* since the start no request overlapped another, failed, or
              \* used a name that was another's

memory == <<registry, client, tools, custom, live>>
controlVars == <<config, policies, memory, task, changes, restarts, calm>>

Refs == Builtins \union ServerRefs \union CustomRefs
Defs == [CustomRefs -> Definitions \union {Unset}]
NoDefs == [r \in CustomRefs |-> Unset]
Values == [servers |-> Servers \union {Unset}, defs |-> Defs, model |-> Models \union {Unset}]
Settings == DOMAIN Values
By(r) == IF registry[r] = Unset THEN "nobody" ELSE registry[r].by

Changers == Admins \union {Startup}
NoTask == [pc |-> "idle", key |-> "model", value |-> Unset, then |-> "over",
           n |-> 0, refs |-> {}]
Pcs == {"idle", "get", "read", "insert", "align", "connect", "list", "policy",
        "define", "drop", "start model", "start servers", "start defs"}
Quiet == \A a \in Changers : task[a] = NoTask
At(a, pc, key) == task[a].pc = pc /\ task[a].key = key
Value(a) == task[a].value

\* McpManager.unregister of the server, as an update of the registry.
\* Fault: the list of its refs is read, not popped.
UnregisterKeepsList ==
  /\ registry' = [r \in Refs |-> IF tools # Unset /\ r \in tools THEN Unset ELSE registry[r]]
  /\ client' = Unset /\ UNCHANGED tools
Unregister ==
  /\ registry' = [r \in Refs |-> IF tools # Unset /\ r \in tools THEN Unset ELSE registry[r]]
  /\ client' = Unset /\ tools' = Unset

FreshRegistry == [r \in Refs |-> IF r \in Builtins THEN [by |-> "builtin", of |-> Unset] ELSE Unset]

ControlInit ==
  /\ config = [k \in Settings |-> [version |-> 0, value |-> IF k = "defs" THEN NoDefs ELSE Unset]]
  /\ policies = {}
  /\ registry = FreshRegistry
  /\ client = Unset /\ tools = Unset /\ custom = NoDefs /\ live = Unset
  /\ task = [a \in Changers |-> NoTask]
  /\ changes = 0 /\ restarts = 0 /\ calm = TRUE

-----------------------------------------------------------------------------
(* Requests and their way through the configuration center *)

Goes(a, pc) == task' = [task EXCEPT ![a].pc = pc]
Over(a) == task' = [task EXCEPT ![a] =
  IF a = Startup /\ @.key = "servers" THEN [NoTask EXCEPT !.pc = "start defs"] ELSE NoTask]
Fails(a) == Over(a) /\ calm' = FALSE

Begin(a, pc, key, value, then) ==
  /\ task[a] = NoTask /\ task[Startup] = NoTask
  /\ changes < MaxChanges /\ changes' = changes + 1
  /\ calm' = (calm /\ Quiet)
  /\ task' = [task EXCEPT ![a] =
       [NoTask EXCEPT !.pc = pc, !.key = key, !.value = value, !.then = then]]
  /\ UNCHANGED <<config, policies, registry, client, tools, custom, restarts>>

\* The whole list is saved and brought in; of one server that is deleted an
\* empty list remains.
PutServers(a, v) == Begin(a, "read", "servers", v, "align") /\ UNCHANGED live
DeleteServer(a) == Begin(a, "read", "servers", Unset, "drop") /\ UNCHANGED live
PutDefs(a, v) == Begin(a, "read", "defs", v, "align") /\ UNCHANGED live
DeleteDef(a, r) == /\ Begin(a, "get", "defs", r, "drop") /\ UNCHANGED live

\* The gateway is configured before anything is saved; an empty key leaves
\* the key as it is.
Configured(m) == IF m.key = "" /\ live # Unset THEN [m EXCEPT !.key = live.key] ELSE m

\* Fault: what is saved has the empty key.
SetModelAsSent(a, m) ==
  /\ Begin(a, "read", "model", m, "over")
  /\ live' = Configured(m)
SetModel(a, m) ==
  /\ Begin(a, IF m.key = "" THEN "get" ELSE "read", "model", m, "over")
  /\ live' = Configured(m)

\* Fault: a model that was never saved has no key at all.
SavedKeyOrNone(saved) == IF saved = Unset THEN Unset ELSE saved.key
SavedKey(saved) == IF saved = Unset THEN "" ELSE saved.key

\* ConfigService.get, for what is written is made of what is there.
GetSaved(a) ==
  /\ task[a].pc = "get"
  /\ LET r == task[a]
         saved == config[r.key].value
     IN task' = [task EXCEPT ![a] = IF r.key = "defs"
          THEN [r EXCEPT !.pc = "read", !.value = [saved EXCEPT ![r.value] = Unset],
                         !.refs = {r.value}]
          ELSE [r EXCEPT !.pc = "read",
                         !.value.key = SavedKey(saved)]]
  /\ UNCHANGED <<config, policies, memory, changes, restarts, calm>>

\* ConfigService.set: the newest version is read, and the next one inserted.
ReadVersion(a) ==
  /\ task[a].pc = "read"
  /\ task' = [task EXCEPT ![a].pc = "insert",
                                ![a].n = config[task[a].key].version + 1]
  /\ UNCHANGED <<config, policies, memory, changes, restarts, calm>>

\* uq_config_ver refuses a version that is there.
InsertVersion(a) ==
  /\ task[a].pc = "insert"
  /\ LET r == task[a] IN
     \/ /\ config[r.key].version < r.n
        /\ config' = [config EXCEPT ![r.key] = [version |-> r.n, value |-> r.value]]
        /\ IF r.then = "over" THEN Over(a) ELSE Goes(a, r.then)
        /\ UNCHANGED calm
     \/ config[r.key].version >= r.n /\ Fails(a) /\ UNCHANGED config
  /\ UNCHANGED <<policies, memory, changes, restarts>>

-----------------------------------------------------------------------------
(* The MCP server: McpManager *)

On(v) == v # Unset /\ v.on
Wanted(v) == IF v.only = {} THEN ServerRefs ELSE v.only \intersect ServerRefs

\* reconcile, up to its first wait: the tools of a server that is gone or
\* switched off are removed; one whose client has this url is unchanged.
\* Fault: any client that is open will do.
AlignIfClosed(a) ==
  /\ At(a, "align", "servers")
  /\ LET v == Value(a) IN
     \/ ~On(v) /\ tools # Unset /\ Unregister /\ Over(a)
     \/ ~On(v) /\ tools = Unset /\ Over(a) /\ UNCHANGED <<registry, client, tools>>
     \/ On(v) /\ client # Unset /\ Over(a) /\ UNCHANGED <<registry, client, tools>>
     \/ On(v) /\ client = Unset /\ Unregister /\ Goes(a, "connect")
  /\ UNCHANGED <<config, policies, custom, live, changes, restarts, calm>>
AlignServers(a) ==
  /\ At(a, "align", "servers")
  /\ LET v == Value(a) IN
     \/ ~On(v) /\ tools # Unset /\ Unregister /\ Over(a)
     \/ ~On(v) /\ tools = Unset /\ Over(a) /\ UNCHANGED <<registry, client, tools>>
     \/ On(v) /\ client = v.url /\ Over(a) /\ UNCHANGED <<registry, client, tools>>
     \/ On(v) /\ client # v.url /\ Unregister /\ Goes(a, "connect")
  /\ UNCHANGED <<config, policies, custom, live, changes, restarts, calm>>

\* The server lists its tools a first time, which shows that it is there.
Connect(a) ==
  /\ task[a].pc = "connect"
  /\ \/ client' = Value(a).url /\ Goes(a, "list") /\ UNCHANGED calm
     \/ Fails(a) /\ UNCHANGED client
  /\ UNCHANGED <<config, policies, registry, tools, custom, live, changes, restarts>>

\* register_mcp_tools: it lists them again, and those that are wanted are
\* registered in that order until one has a name that is taken.
ListTools(a) ==
  LET v == Value(a)
      place(r) == CHOOSE i \in DOMAIN Offered : Offered[i] = r
      taken == {r \in Wanted(v) : registry[r] # Unset}
      free == {r \in Wanted(v) : \A t \in taken : place(r) < place(t)}
  IN /\ task[a].pc = "list"
     /\ \/ Fails(a) /\ UNCHANGED <<registry, tools>>
        \/ /\ registry' = [r \in Refs |-> IF r \in free THEN [by |-> "server", of |-> v.url]
                                          ELSE registry[r]]
           /\ \/ taken # {} /\ Fails(a) /\ UNCHANGED tools
              \/ /\ taken = {} /\ tools' = free /\ UNCHANGED calm
                 /\ task' = [task EXCEPT ![a].pc = "policy", ![a].refs = free]
     /\ UNCHANGED <<config, policies, client, custom, live, changes, restarts>>

\* _ensure_allow_policies; nothing ever removes such a policy.
EnsureAllowPolicies(a) ==
  /\ At(a, "policy", "servers")
  /\ policies' = policies \union task[a].refs
  /\ Over(a)
  /\ UNCHANGED <<config, memory, changes, restarts, calm>>

DropServer(a) ==
  /\ At(a, "drop", "servers")
  /\ Unregister /\ Over(a)
  /\ UNCHANGED <<config, policies, custom, live, changes, restarts, calm>>

-----------------------------------------------------------------------------
(* The custom tools: CustomToolManager *)

CodeOf(v, r) == IF v[r] = Unset THEN Unset ELSE Code(v[r])

\* reconcile removes first what is not defined any more.
AlignDefs(a) ==
  /\ At(a, "align", "defs")
  /\ LET gone == {r \in CustomRefs : custom[r] # Unset /\ Value(a)[r] = Unset} IN
     /\ custom' = [r \in CustomRefs |-> IF r \in gone THEN Unset ELSE custom[r]]
     /\ registry' = [r \in Refs |-> IF r \in gone THEN Unset ELSE registry[r]]
  /\ task' = [task EXCEPT ![a].pc = "define",
                   ![a].refs = {r \in CustomRefs : Value(a)[r] # Unset}]
  /\ UNCHANGED <<config, policies, client, tools, live, changes, restarts, calm>>

\* Then the definitions one by one, in the order of the list: the same code
\* is the same tool; another replaces it, if the sandbox accepts the code
\* and nobody has the name.
Define(a, r) ==
  LET code == CodeOf(Value(a), r)
      free == custom[r] # Unset \/ registry[r] = Unset
  IN /\ At(a, "define", "defs") /\ r \in task[a].refs
     /\ \/ /\ custom[r] = code
           /\ task' = [task EXCEPT ![a].refs = @ \ {r}]
           /\ UNCHANGED <<custom, registry, calm>>
        \/ /\ custom[r] # code /\ free /\ code \notin BadCodes
           /\ custom' = [custom EXCEPT ![r] = code]
           /\ registry' = [registry EXCEPT ![r] = [by |-> "custom", of |-> Value(a)[r]]]
           /\ task' = [task EXCEPT ![a].pc = "policy", ![a].value = [@ EXCEPT ![r] = Unset]]
           /\ UNCHANGED calm
        \/ /\ custom[r] # code /\ (~free \/ code \in BadCodes)
           /\ registry' = IF custom[r] # Unset THEN [registry EXCEPT ![r] = Unset] ELSE registry
           /\ custom' = [custom EXCEPT ![r] = Unset]
           /\ calm' = FALSE
           /\ task' = [task EXCEPT ![a].refs = @ \ {r}]
     /\ UNCHANGED <<config, policies, client, tools, live, changes, restarts>>

\* _ensure_allow_policy of the definition that was just registered, which
\* Define has taken from the list.
EnsureAllowPolicy(a) ==
  /\ At(a, "policy", "defs")
  /\ LET left == {r \in task[a].refs : Value(a)[r] # Unset} IN
     /\ policies' = policies \union (task[a].refs \ left)
     /\ task' = [task EXCEPT ![a].pc = "define", ![a].refs = left]
  /\ UNCHANGED <<config, memory, changes, restarts, calm>>

Defined(a) ==
  /\ At(a, "define", "defs") /\ task[a].refs = {} /\ Over(a)
  /\ UNCHANGED <<config, policies, memory, changes, restarts, calm>>

\* unregister(ref) takes the name out of the registry whoever has it.
DropDef(a) ==
  /\ At(a, "drop", "defs")
  /\ \E r \in task[a].refs :
       /\ custom' = [custom EXCEPT ![r] = Unset]
       /\ registry' = [registry EXCEPT ![r] = Unset]
       /\ calm' = (calm /\ By(r) \in {"custom", "nobody"})
  /\ Over(a)
  /\ UNCHANGED <<config, policies, client, tools, live, changes, restarts>>

-----------------------------------------------------------------------------
(* A restart, and the start-up in its order (lifespan) *)

Restart ==
  /\ restarts < MaxRestarts /\ restarts' = restarts + 1
  /\ registry' = FreshRegistry
  /\ client' = Unset /\ tools' = Unset /\ custom' = NoDefs /\ live' = Unset
  /\ task' = [a \in Changers |->
       IF a = Startup THEN [NoTask EXCEPT !.pc = "start model"] ELSE NoTask]
  /\ calm' = TRUE
  /\ UNCHANGED <<config, policies, changes>>

StartModel ==
  /\ task[Startup].pc = "start model"
  /\ live' = config["model"].value
  /\ Goes(Startup, "start servers")
  /\ UNCHANGED <<config, policies, registry, client, tools, custom, changes, restarts, calm>>

\* Without a saved server that of the environment is used.
\* Fault: the saved servers wait for the next save.
StartServersLater ==
  /\ task[Startup].pc = "start servers"
  /\ Goes(Startup, "start defs")
  /\ UNCHANGED <<config, policies, memory, changes, restarts, calm>>
StartServers ==
  /\ task[Startup].pc = "start servers"
  /\ LET saved == config["servers"].value
         v == IF saved = Unset THEN EnvServer ELSE saved
     IN task' = [task EXCEPT ![Startup] = IF v = Unset
          THEN [@ EXCEPT !.pc = "start defs"]
          ELSE [@ EXCEPT !.pc = "align", !.key = "servers", !.value = v]]
  /\ UNCHANGED <<config, policies, memory, changes, restarts, calm>>
StartDefs ==
  /\ task[Startup].pc = "start defs"
  /\ task' = [task EXCEPT ![Startup] =
       [@ EXCEPT !.pc = "align", !.key = "defs", !.value = config["defs"].value]]
  /\ UNCHANGED <<config, policies, memory, changes, restarts, calm>>

-----------------------------------------------------------------------------
\* Of the servers that are switched off one is as good as another.
Off == CHOOSE v \in Servers : ~v.on
AskChange(a) ==
  \/ \E v \in {s \in Servers : s.on} \union {Off, Unset} : PutServers(a, v)
  \/ \E v \in Defs : PutDefs(a, v)
  \/ \E r \in CustomRefs : DeleteDef(a, r)
  \/ \E m \in Models : SetModel(a, m)
  \/ DeleteServer(a)
Step(a) ==
  \/ GetSaved(a) \/ ReadVersion(a) \/ InsertVersion(a)
  \/ AlignServers(a) \/ Connect(a) \/ ListTools(a) \/ EnsureAllowPolicies(a) \/ DropServer(a)
  \/ AlignDefs(a) \/ (\E r \in CustomRefs : Define(a, r)) \/ EnsureAllowPolicy(a)
  \/ Defined(a) \/ DropDef(a)
ControlNext ==
  \/ \E a \in Admins : AskChange(a)
  \/ \E a \in Changers : Step(a)
  \/ Restart \/ StartModel \/ StartServers \/ StartDefs
  \/ Quiet /\ UNCHANGED controlVars

ControlSpec == ControlInit /\ [][ControlNext]_controlVars

-----------------------------------------------------------------------------
(* Properties *)

\* Every variable has its type; a ref that is listed for a request is there.
ControlTypeOK ==
  /\ config \in [Settings -> [version : Nat, value : UNION {Values[k] : k \in Settings}]]
  /\ \A k \in Settings : config[k].value \in Values[k]
  /\ policies \subseteq Refs
  /\ registry \in [Refs -> Owner \union {Unset}]
  /\ client \in Urls \union {Unset}
  /\ tools \in (SUBSET ServerRefs) \union {Unset}
  /\ custom \in [CustomRefs -> Codes \union {Unset}]
  /\ live \in Models \union {Unset}
  /\ \A a \in Changers :
       /\ task[a].pc \in Pcs /\ task[a].key \in Settings
       /\ task[a].n \in Nat /\ task[a].refs \subseteq Refs
  /\ changes \in 0 .. MaxChanges /\ restarts \in 0 .. MaxRestarts /\ calm \in BOOLEAN

\* What is configured is what is used, by the requests that save it and by
\* the start-up alike: when requests came one at a time, nothing failed and
\* no name was used twice since the start, the registry has the tools of the
\* saved server, at its url, and of the saved definitions, with their code,
\* and no others; they are allowed; the gateway has the saved model and key.
Aligned ==
  calm /\ Quiet =>
    LET server == config["servers"].value
        defs == config["defs"].value
        model == config["model"].value
    IN /\ {r \in Refs : By(r) = "server"} = (IF tools = Unset THEN {} ELSE tools)
       /\ IF On(server)
          THEN tools # Unset /\ \A r \in tools : registry[r].of = server.url
          ELSE tools = Unset
       /\ \A r \in CustomRefs : custom[r] = CodeOf(defs, r)
       /\ \A r \in CustomRefs :
            IF defs[r] = Unset THEN By(r) # "custom"
            ELSE By(r) = "custom" /\ Code(registry[r].of) = Code(defs[r])
       /\ {r \in Refs : By(r) \in {"server", "custom"}} \subseteq policies
       /\ model # Unset => live = model

\* The tools listed for the server can be called (McpManager.list reports
\* them as registered), whatever requests overlap, fail or are cut by a
\* restart; only a custom tool of that name can take one away.
ToolsAreRegistered ==
  tools # Unset => \A r \in tools \ CustomRefs : By(r) = "server"

\* Documents promise more, and the code does not keep it.
\* custom_api.py:5: a deletion takes back the tool, not a built-in one.
BuiltinsStay == \A r \in Builtins : By(r) = "builtin"
\* mcp/api.py:4: a changed server is registered anew; a changed white list is.
AllowTakesEffect ==
  calm /\ Quiet /\ On(config["servers"].value) => tools = Wanted(config["servers"].value)
\* custom_api.py:4: a changed definition is registered anew, its risk too.
RiskTakesEffect ==
  calm /\ Quiet => \A r \in CustomRefs :
    config["defs"].value[r] # Unset => registry[r].of = config["defs"].value[r]
\* mcp/api.py:5: a deleted server's tools are unregistered, also when two
\* saves overlapped.
NoStrayTool ==
  Quiet => {r \in Refs : By(r) = "server"} \subseteq (IF tools = Unset THEN {} ELSE tools)
\* A deleted server stays deleted: the environment's is back at the start.
RemovedStaysRemoved ==
  Quiet /\ config["servers"].version > 0 /\ ~On(config["servers"].value) /\ calm => tools = Unset
=============================================================================
