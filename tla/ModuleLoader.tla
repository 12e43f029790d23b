---------------------------- MODULE ModuleLoader ----------------------------
(***************************************************************************)
(* ModuleLoaderService and ModuleRegistryService: what a boot of the API   *)
(* does for the business modules of modules.config.ts.  Rows survive the   *)
(* process, what is registered does not.  Every failure ends the process,  *)
(* which its supervisor starts again.                                      *)
(***************************************************************************)
EXTENDS Naturals, Sequences, FiniteSets, Functions, PlatformFaults

CONSTANTS
  MODULES,         \* the modules, in their order
  CodesOf,         \* the permissions a module registers
  DefaultRoles,    \* defaultRoles of a permission
  SeededRoles,     \* roles that BootstrapService seeds
  Defaults,        \* rows the providers of a module ensure: settings, categories
  DefaultsOf,      \* and of which module they are
  LastBoot         \* bound: processes that are started

\* Modules have names of their own, and permissions those of their modules.
ASSUME ModuleAssumption ==
  /\ MODULES \in Seq(Range(MODULES))
  /\ \A i, j \in DOMAIN MODULES :
       i # j => MODULES[i] # MODULES[j] /\ CodesOf[MODULES[i]] \cap CodesOf[MODULES[j]] = {}
  /\ LastBoot \in Nat \ {0}

VARIABLES
  permissions,  \* codes with a row
  links,        \* role_permissions: pairs of a role and a code
  roleRows,     \* roles with a row
  installed,    \* modules_installed
  ensured,      \* those of Defaults that have a row
  enabled,      \* the modules that are enabled in this process
  boots,        \* processes started so far
  loading,      \* where onApplicationBootstrap is; "down" when there is no process
  module,       \* the position in MODULES it is at
  code,         \* the permission it is at
  merged,       \* codes this process has merged
  seen,         \* roles there were when it began to
  registered,   \* modules whose notification types and payment purposes it has merged
  booted,       \* modules whose onBoot has run in it
  installs,     \* times onInstall of a module was called
  cut,          \* times the process ended after that and before the row
  completed     \* modules whose onInstall has returned

stored == <<permissions, links, roleRows, installed, ensured>>
memory == <<enabled, boots, merged, seen, registered, booted>>
ghosts == <<installs, cut, completed>>
place == <<module, code>>
loaderVars == <<stored, memory, ghosts, loading, place, faults>>

\* "fail": a hook throws, or a statement fails; "die": the process dies; "flag": modules are
\* enabled and disabled between boots; "grant": an operator adds roles.
LoaderFaults == {"fail", "die", "flag", "grant"}
-----------------------------------------------------------------------------
Modules == Range(MODULES)
Codes == UNION {CodesOf[m] : m \in Modules}
RoleNames == SeededRoles \cup UNION {DefaultRoles[c] : c \in Codes}
Stages == {"down", "roles", "register", "merge", "link", "find", "install", "stamp", "boot",
           "providers", "serving"}

LoaderTypeOK ==
  /\ permissions \subseteq Codes /\ links \subseteq RoleNames \X Codes
  /\ roleRows \subseteq RoleNames /\ installed \subseteq Modules /\ ensured \subseteq Defaults
  /\ enabled \subseteq Modules /\ boots \in 1 .. LastBoot
  /\ loading \in Stages /\ module \in 1 .. Len(MODULES) + 1 /\ code \in Codes \cup {None}
  /\ merged \subseteq Codes /\ seen \subseteq RoleNames
  /\ registered \subseteq Modules /\ booted \subseteq Modules
  /\ installs \in [Modules -> 0 .. LastBoot] /\ cut \in [Modules -> 0 .. LastBoot]
  /\ completed \subseteq Modules

LoaderInit ==
  /\ permissions = {} /\ links = {} /\ roleRows = {} /\ installed = {} /\ ensured = {}
  /\ enabled \in SUBSET Modules /\ boots = 1
  /\ loading = "roles" /\ module = 1 /\ code = None
  /\ merged = {} /\ seen = {} /\ registered = {} /\ booted = {}
  /\ installs = [m \in Modules |-> 0] /\ cut = installs
  /\ completed = {}
  /\ faults \in FaultSets

getEnabledModules == enabled

\* The first enabled module at i or after, or none.
EnabledFrom(i) ==
  IF \E j \in i .. Len(MODULES) : MODULES[j] \in getEnabledModules
  THEN CHOOSE j \in i .. Len(MODULES) :
         /\ MODULES[j] \in getEnabledModules
         /\ \A k \in i .. j - 1 : MODULES[k] \notin getEnabledModules
  ELSE Len(MODULES) + 1
-----------------------------------------------------------------------------
(* The permissions *)

\* BootstrapService, whose module is initialised first.
SeedRoles ==
  /\ loading = "roles" /\ loading' = "register"
  /\ roleRows' = roleRows \cup SeededRoles
  /\ UNCHANGED <<permissions, links, installed, ensured, memory, ghosts, place, faults>>

\* Every module is registered, the disabled ones too.
RegisterModules ==
  /\ loading = "register" /\ loading' = "merge"
  /\ seen' = roleRows
  /\ UNCHANGED <<stored, enabled, boots, merged, registered, booted, ghosts, place, faults>>

ToMerge == (UNION {CodesOf[m] : m \in getEnabledModules}) \ merged

\* The row of a permission, in any order.
UpsertPermission(c) ==
  /\ loading = "merge" /\ c \in ToMerge
  /\ permissions' = permissions \cup {c}
  /\ merged' = merged \cup {c}
  /\ loading' = "link" /\ code' = c
  /\ UNCHANGED <<links, roleRows, installed, ensured, enabled, boots, seen, registered, booted,
                 ghosts, module, faults>>

\* Mutation of LinkRoles: a code that is linked to a role is left alone.
LinkRolesOnce ==
  /\ loading = "link" /\ loading' = "merge"
  /\ links' = IF \E r \in roleRows : <<r, code>> \in links THEN links
              ELSE links \cup {<<r, code>> : r \in DefaultRoles[code] \cap roleRows}
  /\ UNCHANGED <<permissions, roleRows, installed, ensured, memory, ghosts, place, faults>>

\* upsertPermission goes on: those of the default roles that have a row are linked.
LinkRoles ==
  /\ loading = "link" /\ loading' = "merge"
  /\ links' = links \cup {<<r, code>> : r \in DefaultRoles[code] \cap roleRows}
  /\ UNCHANGED <<permissions, roleRows, installed, ensured, memory, ghosts, place, faults>>
-----------------------------------------------------------------------------
(* The hooks *)

\* The hooks of the module at position i come next, or what the modules' own providers do.
GoTo(i) ==
  /\ module' = i
  /\ loading' = IF i \in DOMAIN MODULES THEN "find" ELSE "providers"

\* mergeNotificationTypes and mergePaymentPurposes, which do not wait for anything.
RegisterTypes ==
  /\ loading = "merge" /\ ToMerge = {}
  /\ registered' = getEnabledModules
  /\ GoTo(EnabledFrom(1))
  /\ UNCHANGED <<stored, enabled, boots, merged, seen, booted, ghosts, code, faults>>

\* Mutation of FindInstall: the row is not looked for.
InstallEachBoot(m) ==
  /\ loading = "find"
  /\ loading' = "install"
  /\ UNCHANGED <<stored, memory, ghosts, place, faults>>

FindInstall(m) ==
  /\ loading = "find"
  /\ loading' = IF m \in installed THEN "boot" ELSE "install"
  /\ UNCHANGED <<stored, memory, ghosts, place, faults>>

OnInstall(m) ==
  /\ loading = "install" /\ loading' = "stamp"
  /\ installs' = [installs EXCEPT ![m] = @ + 1]
  /\ completed' = completed \cup {m}
  /\ UNCHANGED <<stored, memory, cut, place, faults>>

StampInstall(m) ==
  /\ loading = "stamp" /\ loading' = "boot"
  /\ m \notin installed
  /\ installed' = installed \cup {m}
  /\ UNCHANGED <<permissions, links, roleRows, ensured, memory, ghosts, place, faults>>

OnBoot(m) ==
  /\ loading = "boot"
  /\ booted' = booted \cup {m}
  /\ GoTo(EnabledFrom(module + 1))
  /\ UNCHANGED <<stored, enabled, boots, merged, seen, registered, ghosts, code, faults>>

\* The providers of an enabled module ensure its rows.
EnsureDefault(d) ==
  /\ loading = "providers"
  /\ DefaultsOf[d] \in enabled
  /\ ensured' = ensured \cup {d}
  /\ UNCHANGED <<permissions, links, roleRows, installed, memory, ghosts, loading, place, faults>>

StartServing ==
  /\ loading = "providers" /\ loading' = "serving"
  /\ \A d \in Defaults : DefaultsOf[d] \in enabled => d \in ensured
  /\ UNCHANGED <<stored, memory, ghosts, place, faults>>
-----------------------------------------------------------------------------
(* Failures and restarts *)

Current == {m \in Modules : module \in DOMAIN MODULES /\ m = MODULES[module]}

\* The process is gone; begun says whether an onInstall that was next had begun.
Ends(begun) ==
  /\ loading' = "down" /\ module' = 1 /\ code' = None
  /\ merged' = {} /\ seen' = {} /\ registered' = {} /\ booted' = {}
  /\ installs' = [m \in Modules |-> installs[m] + IF begun /\ m \in Current THEN 1 ELSE 0]
  /\ cut' = [m \in Modules |->
               cut[m] + IF m \in Current \ installed /\ (begun \/ loading = "stamp")
                        THEN 1 ELSE 0]
  /\ UNCHANGED <<stored, enabled, boots, completed, faults>>

\* failBoot, or a statement that throws (bound: not in the last process).
Fails ==
  /\ "fail" \in faults /\ boots < LastBoot
  /\ loading \notin {"down", "serving"}
  /\ Ends(loading = "install")

\* moduleInstall.create violates the key of the row that is there.
StampAgain(m) ==
  /\ loading = "stamp" /\ m \in installed
  /\ Ends(FALSE)

Dies ==
  /\ "die" \in faults /\ boots < LastBoot
  /\ loading # "down"
  /\ \E begun \in {FALSE, loading = "install"} : Ends(begun)

\* The supervisor starts the process again; its flags are read once.
Restart ==
  /\ loading = "down" /\ boots < LastBoot
  /\ loading' = "roles" /\ boots' = boots + 1
  /\ enabled' \in IF "flag" \in faults THEN SUBSET Modules ELSE {enabled}
  /\ UNCHANGED <<stored, merged, seen, registered, booted, ghosts, place, faults>>

\* A new version is deployed.
Redeploy ==
  /\ loading = "serving" /\ boots < LastBoot
  /\ Ends(FALSE)

\* An operator adds a role.
GrantRole(r) ==
  /\ "grant" \in faults
  /\ r \notin roleRows
  /\ roleRows' = roleRows \cup {r}
  /\ UNCHANGED <<permissions, links, installed, ensured, memory, ghosts, loading, place, faults>>

\* onApplicationBootstrap and what comes before and after it.
Boot ==
  \/ SeedRoles \/ RegisterModules \/ LinkRoles \/ RegisterTypes \/ StartServing
  \/ \E c \in Codes : UpsertPermission(c)
  \/ \E m \in Current :
       FindInstall(m) \/ OnInstall(m) \/ StampInstall(m) \/ StampAgain(m) \/ OnBoot(m)
  \/ \E d \in Defaults \ ensured : EnsureDefault(d)

LoaderNext ==
  Boot \/ Fails \/ Dies \/ Restart \/ Redeploy \/ \E r \in RoleNames : GrantRole(r)

LoaderSpec == LoaderInit /\ [][LoaderNext]_loaderVars
-----------------------------------------------------------------------------
\* (module-loader.service.ts:83-101) onInstall of a module is called again only when the
\* process ended between a call and the row that remembers it.
InstalledOnce == \A m \in Modules : installs[m] <= 1 + cut[m]

\* (module-loader.service.ts:89-99) What counts as installed has been: a hook that throws is
\* tried again at the next boot.
InstalledIsComplete == installed \subseteq completed

\* (module-loader.service.ts:36-39) An API that serves requests has all of its modules: each
\* installed, booted and registered, its permissions and rows there, after any sequence of
\* boots that failed.
ServesWhole ==
  loading = "serving" =>
    /\ enabled \subseteq installed /\ booted = enabled /\ registered = enabled
    /\ \A m \in enabled : CodesOf[m] \subseteq permissions
    /\ \A d \in Defaults : DefaultsOf[d] \in enabled => d \in ensured

\* (module-registry.service.ts:73-93) Once the API serves requests, every role that was there
\* when it booted has its default permissions: those of an earlier boot that died between a
\* permission and its links, and those of roles that were added since, too.
LinksComplete ==
  loading = "serving" =>
    \A m \in enabled : \A c \in CodesOf[m] : (DefaultRoles[c] \cap seen) \X {c} \subseteq links

\* (module-loader.service.ts:25-27) A module that is disabled contributes nothing, and what
\* it contributed while it was enabled stays.
DisabledIsLeftAlone ==
  [][\A m \in Modules \ enabled :
       /\ m \notin booted' \cup registered'
       /\ installs'[m] = installs[m] /\ (m \in installed' <=> m \in installed)
       /\ permissions' \cap CodesOf[m] = permissions \cap CodesOf[m]]_loaderVars

\* (module-loader.service.ts:36-39) The restarts end: the API serves requests again, when a
\* boot meets no failure.
ServesAgain == loading # "serving" ~> loading = "serving"

\* (core/module-registry) However boots fail and die, a module is installed once and wholly,
\* and an API that serves has all of its modules with their permissions linked.
ModulesAreWhole ==
  LoaderTypeOK /\ InstalledOnce /\ InstalledIsComplete /\ ServesWhole /\ LinksComplete

\* (core/module-registry) Restarts end with an API that serves, and none of them touches what
\* belongs to a module that is switched off.
BootsRecover == ServesAgain /\ DisabledIsLeftAlone
=============================================================================
