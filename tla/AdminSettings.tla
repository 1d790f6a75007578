----------------------------- MODULE AdminSettings -----------------------------
(***************************************************************************)
(* The administrator's AI settings: the rows of system_settings written by *)
(* routes/admin.ts, the copies of them that engines.ts and llm-provider.ts *)
(* keep for a minute in every Node process, and the two pages that show    *)
(* and change them (LlmProviderAdminPage, EnginesAdminPage).               *)
(*                                                                         *)
(* The local LLM's address stands for what the caches hold: both pages     *)
(* edit that one row.  The API process and a worker process of its own     *)
(* (WORKER_INLINE=false) have a cache each; a route clears its own only.   *)
(***************************************************************************)
EXTENDS LlmProviders, FiniteSets

CONSTANTS
    Page,           \* per open tab: the page it shows, "llm" or "engines"
    Urls,           \* addresses an operator may type
    Offered,        \* the routing policies the operators choose among
    Pinned,         \* the processes whose provider they choose
    Choices,        \* the providers they choose for them
    Loaders,        \* reads of a cached setting under way at one time
    EnvKey,         \* is ANTHROPIC_API_KEY set in the environment?
    Ttl,            \* a cached copy is used while younger than this
    MaxChanges,     \* bound: requests that change a setting, and those of them that die
    LoadsStraddle   \* may the API read the address while a request changes it?

Tabs == DOMAIN Page
Nodes == {"api", "worker"}

ASSUME AdminAssumption ==
    /\ Page \in [Tabs -> {"llm", "engines"}] /\ Unset \notin Urls
    /\ Offered \subseteq Policy /\ Pinned \subseteq Process
    /\ Choices \subseteq {"default"} \cup ProviderId
    /\ EnvKey \in BOOLEAN /\ Ttl \in Nat \ {0}
    /\ MaxChanges \in Nat /\ LoadsStraddle \in BOOLEAN

VARIABLES
    setting,    \* system_settings: policy, provider of each process, key, address
    engine,     \* the engine configuration the API process keeps
    provider,   \* the local provider each process keeps
    load,       \* reads under way
    tab,        \* per tab: its request, and what the page shows
    blind,      \* history: the pins and the policy ("policy") set to Anthropic while there was no key
    half,       \* history: has a key clearing died half way?
    changes

settingsVars == <<setting, engine, provider, load, tab, blind, half, changes>>

Address == Urls \cup {Unset}
NoCopy == [there |-> FALSE, url |-> Unset, age |-> 0]
NoLoad == [pc |-> "idle", node |-> "api", what |-> "engine", url |-> Unset]
NoRequest == [kind |-> "none", value |-> Unset, proc |-> "none"]
Shown == [url |-> setting.url, policy |-> resolveProviderPolicy(setting), key |-> setting.key]

SettingsInit ==
    /\ setting = [policy |-> Unset, provider |-> [p \in Pinned |-> "default"],
                  key |-> FALSE, url |-> Unset]
    /\ engine = NoCopy /\ provider = [n \in Nodes |-> NoCopy]
    /\ load = [l \in Loaders |-> NoLoad]
    /\ tab = [t \in Tabs |-> [pc |-> "rest", request |-> NoRequest, seen |-> Shown, read |-> Unset,
                              todo |-> {}, current |-> FALSE]]
    /\ blind = {} /\ half = FALSE /\ changes = 0

-----------------------------------------------------------------------------
(* The copies.                                                             *)

\* Mutant form: a copy is used for as long as nobody drops it.
FreshForever(copy) == copy.there

Fresh(copy) == copy.there /\ copy.age < Ttl

\* Another read has filled the slot meanwhile: the copy is new, its age is not.
StoredEngine(url) ==
    [there |-> TRUE, url |-> url, age |-> IF Fresh(engine) THEN engine.age ELSE 0]

StoredProvider(url) == [there |-> TRUE, url |-> url, age |-> 0]

\* A hit leaves the copy as old as it is.
Hit(copy) == copy

Changing == \E t \in Tabs : tab[t].pc \in {"write", "drop"} /\ tab[t].request.kind = "url"
Reading == \/ \E l \in Loaders : load[l].pc = "read" /\ load[l].node = "api"
           \/ \E t \in Tabs : tab[t].pc \in {"cfgRead", "listRead"}

\* health.ts, the OCR of a worker, the check payees: a copy is used, or read anew.
UseEngine(l) ==
    /\ load[l].pc = "idle"
    /\ IF Fresh(engine) THEN engine' = Hit(engine) /\ UNCHANGED load
       ELSE /\ LoadsStraddle \/ ~Changing
            /\ load' = [load EXCEPT ![l] = [pc |-> "read", node |-> "api", what |-> "engine",
                                            url |-> setting.url]]
            /\ UNCHANGED engine
    /\ UNCHANGED <<setting, provider, tab, blind, half, changes>>

buildProviderForId(l, n) ==
    /\ load[l].pc = "idle"
    /\ IF Fresh(provider[n]) THEN provider' = [provider EXCEPT ![n] = Hit(@)] /\ UNCHANGED load
       ELSE /\ n = "api" => LoadsStraddle \/ ~Changing
            /\ load' = [load EXCEPT ![l] = [pc |-> "read", node |-> n, what |-> "provider",
                                            url |-> setting.url]]
            /\ UNCHANGED provider
    /\ UNCHANGED <<setting, engine, tab, blind, half, changes>>

Loaded(l) ==
    /\ load[l].pc = "read"
    /\ IF load[l].what = "engine"
       THEN engine' = StoredEngine(load[l].url) /\ UNCHANGED provider
       ELSE provider' = [provider EXCEPT ![load[l].node] = StoredProvider(load[l].url)]
            /\ UNCHANGED engine
    /\ load' = [load EXCEPT ![l] = NoLoad]
    /\ UNCHANGED <<setting, tab, blind, half, changes>>

AgeEngine ==
    /\ engine.there /\ engine.age < Ttl /\ engine' = [engine EXCEPT !.age = @ + 1]
    /\ UNCHANGED <<setting, provider, load, tab, blind, half, changes>>

AgeProvider(n) ==
    /\ provider[n].there /\ provider[n].age < Ttl /\ provider' = [provider EXCEPT ![n].age = @ + 1]
    /\ UNCHANGED <<setting, engine, load, tab, blind, half, changes>>

-----------------------------------------------------------------------------
(* A tab sends one request and waits for its answer and for what the page  *)
(* then fetches again.                                                     *)

Send(t, request) ==
    /\ tab[t].pc = "rest" /\ changes < MaxChanges
    /\ tab' = [tab EXCEPT ![t].pc = IF request.kind = "clear" THEN "clear" ELSE "write",
                          ![t].request = request, ![t].current = FALSE]
    /\ changes' = changes + 1
    /\ UNCHANGED <<setting, engine, provider, load, blind, half>>

Ask(kind, value, proc) == [kind |-> kind, value |-> value, proc |-> proc]

\* The radios of a policy that uses Anthropic wait for a key, by what the page
\* last fetched; the route does not ask.
switchPolicy(t, policy) ==
    /\ Page[t] = "llm" /\ policy # tab[t].seen.policy
    /\ policy # "local-only" => tab[t].seen.key
    /\ Send(t, Ask("policy", policy, "none"))

setAiSetting(t, p, choice) ==
    Page[t] = "llm" /\ choice # setting.provider[p] /\ Send(t, Ask("pin", choice, p))

onSetKey(t) == Page[t] = "llm" /\ Send(t, Ask("key", Unset, "none"))

\* The button is there while the page knows of a stored key.
onClearKey(t) == Page[t] = "llm" /\ tab[t].seen.key /\ Send(t, Ask("clear", Unset, "none"))

onSaveOllama(t, url) == Page[t] = "llm" /\ Send(t, Ask("url", url, "none"))

onSaveEngine(t, url) == Page[t] = "engines" /\ url # Unset /\ Send(t, Ask("url", url, "none"))

\* A blank field and Reset to environment are the same row deleted.
onResetEngine(t) == Page[t] = "engines" /\ Send(t, Ask("url", Unset, "none"))

\* The page is opened anew, or its query is older than thirty seconds.
Reload(t) ==
    /\ tab[t].pc = "rest"
    /\ tab' = [tab EXCEPT ![t].pc = "fetch", ![t].current = ~Changing]
    /\ UNCHANGED <<setting, engine, provider, load, blind, half, changes>>

-----------------------------------------------------------------------------
(* The routes.                                                             *)

Advance(t, pc) == tab' = [tab EXCEPT ![t].pc = pc]

Changed(request) ==
    CASE request.kind = "policy" -> [setting EXCEPT !.policy = request.value]
      [] request.kind = "pin" -> [setting EXCEPT !.provider[request.proc] = request.value]
      [] request.kind = "key" -> [setting EXCEPT !.key = TRUE]
      [] OTHER -> [setting EXCEPT !.url = request.value]

\* What a request decides, and whether it decides for Anthropic.
Subject(request) ==
    CASE request.kind = "policy" -> {"policy"}
      [] request.kind = "pin" -> {request.proc}
      [] OTHER -> {}

NamesAnthropic(request) ==
    CASE request.kind = "policy" -> providerOrderFor(request.value).primary = "anthropic"
      [] request.kind = "pin" -> request.value = "anthropic"
      [] OTHER -> FALSE

\* The upsert or DELETE.  What any page fetched or is fetching of the address
\* is no longer current.
Write(t) ==
    /\ tab[t].pc = "write"
    /\ tab[t].request.kind = "url" => LoadsStraddle \/ ~Reading
    /\ setting' = Changed(tab[t].request)
    /\ tab' = [s \in Tabs |->
           [tab[s] EXCEPT !.pc = IF s = t THEN "drop" ELSE @,
                          !.current = @ /\ tab[t].request.kind # "url"]]
    /\ blind' = IF ~setting.key /\ NamesAnthropic(tab[t].request)
                THEN blind \cup Subject(tab[t].request) ELSE blind \ Subject(tab[t].request)
    /\ UNCHANGED <<engine, provider, load, half, changes>>

\* Mutant form: the LLM page's route leaves the engine's copy alone.
DropsEngineOnly(t) == tab[t].request.kind = "url" /\ Page[t] = "engines"

\* The row is the engine's URL too: its copy must go as well.
DropsEngine(t) == tab[t].request.kind = "url"

\* invalidateProviderCache and invalidateEngineCache, of the process they run in.
Drop(t) ==
    /\ tab[t].pc = "drop"
    /\ provider' = [provider EXCEPT !["api"] = NoCopy]
    /\ engine' = IF DropsEngine(t) THEN NoCopy ELSE engine
    /\ tab' = [tab EXCEPT ![t].pc = IF Page[t] = "engines" THEN "config" ELSE "fetch",
                          ![t].current = TRUE]
    /\ UNCHANGED <<setting, load, blind, half, changes>>

\* setEngineConfig and clearEngineConfig answer with getEngineConfig.
AnswerConfig(t) ==
    /\ \/ /\ tab[t].pc = "config" /\ Fresh(engine)
          /\ Advance(t, "fetch") /\ engine' = Hit(engine)
       \/ /\ tab[t].pc = "config" /\ ~Fresh(engine) /\ (LoadsStraddle \/ ~Changing)
          /\ tab' = [tab EXCEPT ![t].pc = "cfgRead", ![t].read = setting.url] /\ UNCHANGED engine
       \/ /\ tab[t].pc = "cfgRead"
          /\ tab' = [tab EXCEPT ![t].pc = "fetch", ![t].read = Unset]
          /\ engine' = StoredEngine(tab[t].read)
    /\ UNCHANGED <<setting, provider, load, blind, half, changes>>

\* The request dies, in its audit row at the latest: the page shows an error
\* and fetches nothing.
Die(t) ==
    /\ changes < MaxChanges /\ changes' = changes + 1
    /\ tab[t].request # NoRequest /\ tab[t].pc \notin {"write", "drop", "clear", "listRead"}
    /\ tab' = [tab EXCEPT ![t].pc = "rest", ![t].request = NoRequest, ![t].todo = {},
                          ![t].read = Unset, ![t].current = FALSE]
    /\ half' = (half \/ tab[t].request.kind = "clear")
    /\ UNCHANGED <<setting, engine, provider, load, blind>>

-----------------------------------------------------------------------------
(* DELETE /llm-provider/anthropic-key, await by await.                     *)

ClearKey(t) ==
    /\ tab[t].pc = "clear"
    /\ setting' = [setting EXCEPT !.key = FALSE]
    /\ provider' = [provider EXCEPT !["api"] = NoCopy]
    /\ Advance(t, IF EnvKey THEN "fetch" ELSE "policy")
    /\ UNCHANGED <<engine, load, blind, half, changes>>

\* Mutant form: the policy with a fallback is left alone.
LocalOnlyIfHard(policy) == IF policy = "anthropic-only" THEN "local-only" ELSE policy

WithoutAnthropic(policy) ==
    IF policy \in {"anthropic-only", "anthropic-first"} THEN "local-only" ELSE policy

ResetPolicy(t) ==
    /\ tab[t].pc = "policy"
    /\ LET from == resolveProviderPolicy(setting) IN
       IF WithoutAnthropic(from) = from
       THEN tab' = [tab EXCEPT ![t].pc = "pins", ![t].todo = Pinned]
       ELSE tab' = [tab EXCEPT ![t].pc = "setPolicy"]
    /\ UNCHANGED <<setting, engine, provider, load, blind, half, changes>>

SetPolicy(t) ==
    /\ tab[t].pc = "setPolicy"
    /\ setting' = [setting EXCEPT !.policy = "local-only"]
    /\ blind' = blind \ {"policy"}
    /\ tab' = [tab EXCEPT ![t].pc = "pins", ![t].todo = Pinned]
    /\ UNCHANGED <<engine, provider, load, half, changes>>

\* One process: its row is read and, if it names Anthropic, deleted.
ResetPin(t, p) ==
    /\ tab[t].pc = "pins" /\ p \in tab[t].todo
    /\ setting' = [setting EXCEPT !.provider[p] = IF @ = "anthropic" THEN "default" ELSE @]
    /\ blind' = blind \ {p}
    /\ tab' = [tab EXCEPT ![t].todo = @ \ {p}]
    /\ UNCHANGED <<engine, provider, load, half, changes>>

EndClear(t) ==
    /\ tab[t].pc = "pins" /\ tab[t].todo = {}
    /\ provider' = [provider EXCEPT !["api"] = NoCopy]
    /\ Advance(t, "fetch")
    /\ UNCHANGED <<setting, engine, load, blind, half, changes>>

-----------------------------------------------------------------------------
(* What the pages fetch.                                                   *)

Show(t, seen) == tab' = [tab EXCEPT ![t].pc = "rest", ![t].request = NoRequest,
                                    ![t].read = Unset, ![t].seen = seen]

\* GET /llm-provider reads the rows themselves.
FetchProvider(t) ==
    /\ Page[t] = "llm" /\ tab[t].pc = "fetch" /\ Show(t, Shown)
    /\ UNCHANGED <<setting, engine, provider, load, blind, half, changes>>

\* GET /engines goes through the copy.
FetchEngines(t) ==
    /\ Page[t] = "engines"
    /\ \/ /\ tab[t].pc = "fetch" /\ Fresh(engine)
          /\ Show(t, [tab[t].seen EXCEPT !.url = engine.url]) /\ engine' = Hit(engine)
       \/ /\ tab[t].pc = "fetch" /\ ~Fresh(engine) /\ (LoadsStraddle \/ ~Changing)
          /\ tab' = [tab EXCEPT ![t].pc = "listRead", ![t].read = setting.url] /\ UNCHANGED engine
       \/ /\ tab[t].pc = "listRead"
          /\ Show(t, [tab[t].seen EXCEPT !.url = tab[t].read])
          /\ engine' = StoredEngine(tab[t].read)
    /\ UNCHANGED <<setting, provider, load, blind, half, changes>>

-----------------------------------------------------------------------------
Click(t) ==
    \/ \E policy \in Offered : switchPolicy(t, policy)
    \/ \E p \in Pinned, choice \in Choices : setAiSetting(t, p, choice)
    \/ \E url \in Address : onSaveOllama(t, url) \/ onSaveEngine(t, url)
    \/ onSetKey(t) \/ onClearKey(t) \/ onResetEngine(t) \/ Reload(t)

Handle(t) ==
    \/ Write(t) \/ Drop(t) \/ AnswerConfig(t)
    \/ ClearKey(t) \/ ResetPolicy(t) \/ SetPolicy(t) \/ EndClear(t)
    \/ \E p \in Pinned : ResetPin(t, p)
    \/ FetchProvider(t) \/ FetchEngines(t)

SettingsNext ==
    \/ \E t \in Tabs : Click(t) \/ Handle(t) \/ Die(t)
    \/ \E l \in Loaders : UseEngine(l) \/ Loaded(l) \/ \E n \in Nodes : buildProviderForId(l, n)
    \/ AgeEngine \/ \E n \in Nodes : AgeProvider(n)

\* A request and a read end, and time passes; nobody has to click or to read.
Fairness ==
    /\ \A t \in Tabs : WF_settingsVars(Handle(t))
    /\ \A l \in Loaders : WF_settingsVars(Loaded(l))
    /\ WF_settingsVars(AgeEngine) /\ \A n \in Nodes : WF_settingsVars(AgeProvider(n))

SettingsSpec == SettingsInit /\ [][SettingsNext]_settingsVars /\ Fairness

-----------------------------------------------------------------------------
(* Properties.                                                             *)

Clearing == \E t \in Tabs : tab[t].request.kind = "clear" /\ tab[t].pc # "fetch"

\* Without a key nothing is routed to Anthropic first, once a clearing is
\* over, but for what an operator set to it by hand while there was none,
\* from a page that did not know yet: "Route back to local instead of leaving
\* extraction/enrichment broken" (routes/admin.ts:717).
RoutingFollowsKey ==
    ~setting.key /\ ~EnvKey /\ ~Clearing /\ ~half =>
        /\ \/ providerOrderFor(resolveProviderPolicy(setting)).primary = "local"
           \/ "policy" \in blind
        /\ \A p \in Pinned : setting.provider[p] = "anthropic" => p \in blind

\* A page that has fetched the address shows the one stored, if it was not
\* changed after; the Engines page reads a copy, which the LLM page's route
\* must drop as well: "Same key as the llm-gateway engine URL, so the engine
\* cache must drop it too" (routes/admin.ts:543).
FetchedIsStored ==
    \A t \in Tabs : tab[t].pc = "rest" /\ tab[t].current => tab[t].seen.url = setting.url

\* Settings that depend on one another agree.
SettingsAgree == RoutingFollowsKey /\ FetchedIsStored

\* When the operators have stopped changing settings, every process comes to
\* use the last of them: the worker too, whose copy nobody can drop, and
\* whatever reads raced with the changes.
ChangesReachAll ==
    <>[](/\ Fresh(engine) => engine.url = setting.url
         /\ \A n \in Nodes : Fresh(provider[n]) => provider[n].url = setting.url)

===============================================================================
