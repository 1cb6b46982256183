------------------------------ MODULE Plugins ------------------------------
(***************************************************************************)
(* Plugins (plugins/loader.py, registry.py, lifecycle.py): a loader finds  *)
(* them in the modules of a directory, the registry knows them by name and *)
(* by type, and the lifecycle initializes and shuts down those registered. *)
(***************************************************************************)
EXTENDS Integers, Sequences, FiniteSets, SequencesExt

CONSTANTS
    PluginSet,      \* plugins, as objects
    Directories,    \* sequences of modules, see DirectoryAssumption
    MaxPluginCalls  \* bound on the calls

\* A module cannot be run, or has classes, in the order of their names: the plugin
\* that is made of each, none if it is without a name, or "raises" for a class
\* that cannot be made, as the interfaces cannot that a plugin's module imports.
ASSUME DirectoryAssumption ==
    /\ \A p \in PluginSet : p.raises \in BOOLEAN
    /\ \A d \in Directories :
        d \in Seq([runs : BOOLEAN,
                  classes : Seq([kind : {"plugin", "nameless", "raises"}, plugin : PluginSet])])

VARIABLES
    plugin_calls,
    loaded,             \* PluginLoader._loaded: by name
    load_result,        \* of the last load: what it returned, or that it raised
    by_name, by_type,   \* PluginRegistry
    initialized,        \* PluginLifecycle._initialized: names
    live,               \* plugins whose initialize returned and whose shutdown was not called
    displaced,          \* those of them that were replaced or unregistered since
    replacements        \* how many registrations took a name that was in use

pluginVars == <<plugin_calls, loaded, load_result, by_name, by_type, initialized, live,
                displaced, replacements>>
registryVars == <<by_name, by_type, replacements>>

Nothing == [raised |-> FALSE, plugins |-> <<>>]
PluginsEmpty ==
    /\ loaded = <<>> /\ load_result = Nothing /\ by_name = <<>> /\ by_type = <<>>
    /\ initialized = {} /\ live = {} /\ displaced = {} /\ replacements = 0
PluginsInit == plugin_calls = 0 /\ PluginsEmpty
PluginsOff == plugin_calls = MaxPluginCalls /\ PluginsEmpty

CalledOnce == plugin_calls < MaxPluginCalls /\ plugin_calls' = plugin_calls + 1
Named(table, p) == [n \in DOMAIN table \union {p.name} |-> IF n = p.name THEN p ELSE table[n]]
Names(table) == {table[n] : n \in DOMAIN table}

-----------------------------------------------------------------------------
(* PluginLoader.load_from_path: modules in order, up to one that fails *)

Fails(module) == ~module.runs \/ \E k \in DOMAIN module.classes : module.classes[k].kind = "raises"
Made(classes) ==
    FoldLeft(LAMBDA list, c : IF c.kind = "plugin" THEN Append(list, c.plugin) ELSE list, <<>>, classes)
Extracted(module) ==
    LET bad   == {k \in DOMAIN module.classes : module.classes[k].kind = "raises"}
        read  == IF ~module.runs THEN <<>>
                 ELSE IF bad = {} THEN module.classes ELSE SubSeq(module.classes, 1, Min(bad) - 1)
    IN  Made(read)

LoadFromPath(directory) ==
    LET bad  == {m \in DOMAIN directory : Fails(directory[m])}
        upto == IF bad = {} THEN Len(directory) ELSE Min(bad)
        all  == FlattenSeq([m \in 1..upto |-> Extracted(directory[m])])
    IN  /\ CalledOnce
        /\ loaded' = FoldLeft(Named, loaded, all)
        /\ load_result' = [raised |-> bad # {}, plugins |-> IF bad = {} THEN all ELSE <<>>]
        /\ UNCHANGED <<registryVars, initialized, live, displaced>>

-----------------------------------------------------------------------------
(* PluginRegistry *)

OfKind(type) == IF type \in DOMAIN by_type THEN by_type[type] ELSE <<>>
Typed(type, list) == [t \in DOMAIN by_type \union {type} |-> IF t = type THEN list ELSE by_type[t]]
Old(name) == IF name \in DOMAIN by_name THEN {by_name[name]} ELSE {}

\* A plugin that is replaced by name stays by type.
Register(p) ==
    /\ CalledOnce
    /\ by_name' = Named(by_name, p)
    /\ by_type' = Typed(p.type, Append(OfKind(p.type), p))
    /\ displaced' = displaced \union ((Old(p.name) \ {p}) \intersect live)
    /\ replacements' = replacements + Cardinality(Old(p.name))
    /\ UNCHANGED <<loaded, load_result, initialized, live>>

Unregister(name) ==
    /\ CalledOnce
    /\ by_name' = [n \in DOMAIN by_name \ {name} |-> by_name[n]]
    /\ by_type' = IF Old(name) = {} THEN by_type
                  ELSE Typed(by_name[name].type, RemoveFirst(OfKind(by_name[name].type), by_name[name]))
    /\ displaced' = displaced \union (Old(name) \intersect live)
    /\ UNCHANGED <<replacements, loaded, load_result, initialized, live>>

-----------------------------------------------------------------------------
(* PluginLifecycle *)

\* Those whose initialize raises are told; a name that was initialized stays so.
InitializeAll ==
    /\ CalledOnce
    /\ LET ready == {p \in Names(by_name) : ~p.raises}
       IN  initialized' = initialized \union {p.name : p \in ready} /\ live' = live \union ready
    /\ UNCHANGED <<loaded, load_result, registryVars, displaced>>

\* By name: what is registered under the name by now is shut down.
ShutdownAll ==
    /\ CalledOnce
    /\ LET down == {by_name[n] : n \in initialized \intersect DOMAIN by_name}
       IN  live' = live \ down /\ displaced' = displaced \ down
    /\ initialized' = {}
    /\ UNCHANGED <<loaded, load_result, registryVars>>

PluginsNext ==
    \/ \E d \in Directories : LoadFromPath(d)
    \/ \E p \in PluginSet : Register(p) \/ Unregister(p.name)
    \/ InitializeAll \/ ShutdownAll

PluginsSpec == PluginsInit /\ [][PluginsNext]_pluginVars

-----------------------------------------------------------------------------
(* Properties *)

\* Types; a plugin is known by its own name and under its own type.
PluginsTypeOK ==
    /\ plugin_calls \in 0..MaxPluginCalls
    /\ \A n \in DOMAIN by_name : by_name[n].name = n
    /\ \A t \in DOMAIN by_type : \A i \in DOMAIN by_type[t] : by_type[t][i].type = t
    /\ \A n \in DOMAIN loaded : loaded[n].name = n

\* Every plugin with a name is found by its type; a type has others only for as
\* many registrations as took the name of another.
FoundByType ==
    /\ \A p \in Names(by_name) : p \in ToSet(OfKind(p.type))
    /\ FoldSet(LAMBDA t, n : n + Len(by_type[t]), 0, DOMAIN by_type)
            = Cardinality(DOMAIN by_name) + replacements

\* A plugin is live only while it is registered and initialized by name, unless it
\* was displaced; after shutdown_all only displaced ones are live, for good.
ShutDownRight ==
    /\ \A p \in live \ displaced : p \in Names(by_name) /\ p.name \in initialized
    /\ initialized = {} => live \subseteq displaced

\* What a load returns is loaded, and what it loaded before it raised stays so.
LoadRight ==
    /\ load_result.raised => load_result.plugins = <<>>
    /\ \A i \in DOMAIN load_result.plugins :
        \E j \in DOMAIN load_result.plugins :
            /\ load_result.plugins[j].name = load_result.plugins[i].name
            /\ loaded[load_result.plugins[i].name] = load_result.plugins[j]

\* What loader, registry and lifecycle keep of the plugins.  It does not say that
\* shutdown_all reaches every plugin that was initialized: not the displaced.
PluginsRight == FoundByType /\ ShutDownRight /\ LoadRight
=============================================================================
