----------------------------- MODULE AppLoader ------------------------------
(***************************************************************************)
(* The manifests of apps (runtime/lib/component/app-loader.js): loaded     *)
(* from packages when the runtime starts, one or all of them reloaded by   *)
(* the debugging interface, registered over dbus, and populated into the   *)
(* maps from skills and hosts and the lists of notification channels, of   *)
(* which there is one here.  Packages change meanwhile, reads take time,   *)
(* and a notification walks over its list.  Permissions and the            *)
(* destruction of apps before a reload are left out.                       *)
(***************************************************************************)
EXTENDS Naturals, Sequences, FiniteSets, SequencesExt

CONSTANTS
    Packages,    \* apps with a package
    DbusApps,    \* apps that register over dbus, each with the skill of its name
    Skills, Hosts,
    Manifests,   \* what a package may declare
    MaxInstalls, \* bound: changes of packages
    MaxReloads   \* bound: reloads and registrations

Malformed == "malformed"
Channel == "channel"
NoOwner == "nobody"
NoHome == "no home"

\* Lists, as they are in package.json; an element may be malformed. Nobody
\* else has the name of an app that registers over dbus.
ASSUME LoaderAssumption ==
    /\ Manifests \subseteq [skills : Seq(Skills \cup {Malformed}), hosts : Seq(Hosts \X Skills),
                            notes : Seq({Channel, "unknown", Malformed})]
    /\ MaxInstalls \in Nat /\ MaxReloads \in Nat
    /\ NoOwner \notin Packages \cup DbusApps \cup Skills
    /\ DbusApps \cap (Packages \cup Skills) = {} /\ NoHome \notin Packages

VARIABLES
    disk,    \* the packages
    loader,  \* owners of skills, skills of hosts, the channel, manifests
    loading, \* the directories and packages that are being read
    walk,    \* a notification on its way over the channel
    asked    \* counters; the packages changed since all were loaded, once and
             \* again, and since they were asked for

loaderVars == <<disk, loader, loading, walk, asked>>

LoaderApps == Packages \cup DbusApps
NoManifest == [skills |-> <<>>, hosts |-> <<>>, notes |-> <<NoOwner>>]
HostNames(m) == {h[1] : h \in ToSet(m.hosts)}
DbusManifest(d) == [skills |-> <<d>>, hosts |-> <<>>, notes |-> <<>>]
Homes == Packages \cup {NoHome}

LoaderTypeOK ==
    /\ disk \in [Packages -> Manifests \cup {NoManifest}]
    /\ DOMAIN loader.owner = Skills \cup DbusApps /\ DOMAIN loader.hosts = Hosts
    /\ \A s \in DOMAIN loader.owner : loader.owner[s] \in LoaderApps \cup {NoOwner}
    /\ loader.channel \in Seq(LoaderApps)
    /\ DOMAIN loader.manifests = LoaderApps
    /\ loading \in [lists : Nat, homes : [Homes -> Nat]]
    /\ walk.list \in Seq(LoaderApps) /\ walk.at \in Nat /\ walk.live \in BOOLEAN
    /\ walk.told \in [LoaderApps -> Nat] /\ walk.stay \subseteq LoaderApps
    /\ asked.changed \cup asked.again \cup asked.stale \subseteq Packages

NothingLoaded ==
    [owner |-> [s \in Skills \cup DbusApps |-> NoOwner], hosts |-> [h \in Hosts |-> NoOwner],
     channel |-> <<>>, manifests |-> [a \in LoaderApps |-> NoManifest]]

\* at = 0: no notification is on its way.
LoaderInit ==
    /\ disk \in [Packages -> Manifests]
    /\ loader = NothingLoaded
    /\ loading = [lists |-> 1, homes |-> [h \in Homes |-> 0]]
    /\ walk = [at |-> 0, live |-> FALSE, list |-> <<>>, stay |-> {},
               told |-> [a \in LoaderApps |-> 0]]
    /\ asked = [installs |-> 0, reloads |-> 0, changed |-> {}, again |-> {},
                stale |-> {}]

Loaded(a) == loader.manifests[a] # NoManifest

-----------------------------------------------------------------------------
(* __loadApp: what was populated before it throws stays *)

\* How far a list is gone through, until an element that is not among good.
Upto(list, good) ==
    CHOOSE n \in 0 .. Len(list) : 1 .. n \subseteq good /\ (n = Len(list) \/ n + 1 \notin good)

\* (slip: the last declaration of a skill wins)
SkillsNamed(l, m) == {i \in DOMAIN m.skills : m.skills[i] # Malformed}

SkillsFree(l, m) ==
    {i \in DOMAIN m.skills :
        /\ m.skills[i] # Malformed /\ l.owner[m.skills[i]] = NoOwner
        /\ \A j \in 1 .. i - 1 : m.skills[j] # m.skills[i]}

HostsFree(l, a, m) ==
    {i \in DOMAIN m.hosts :
        /\ l.owner[m.hosts[i][2]] = a /\ l.hosts[m.hosts[i][1]] = NoOwner
        /\ \A j \in 1 .. i - 1 : m.hosts[j][1] # m.hosts[i][1]}

TakeSkills(l, a, m) ==
    LET n == Upto(m.skills, SkillsFree(l, m))
    IN  [ok |-> n = Len(m.skills),
         l |-> [l EXCEPT !.owner =
                   [s \in DOMAIN @ |-> IF \E i \in 1 .. n : m.skills[i] = s THEN a ELSE @[s]]]]

TakeHosts(l, a, m) ==
    LET n == Upto(m.hosts, HostsFree(l, a, m))
        At(h) == {i \in 1 .. n : m.hosts[i][1] = h}
    IN  [ok |-> n = Len(m.hosts),
         l |-> [l EXCEPT !.hosts =
                   [h \in DOMAIN @ |-> IF At(h) # {} THEN m.hosts[CHOOSE i \in At(h) : TRUE][2]
                                       ELSE @[h]]]]

Entries(list, x) == Cardinality({i \in DOMAIN list : list[i] = x})

TakeNotes(l, a, m) ==
    LET n == Upto(m.notes, {i \in DOMAIN m.notes : m.notes[i] # Malformed})
        times == Cardinality({i \in 1 .. n : m.notes[i] = Channel})
    IN  [ok |-> n = Len(m.notes),
         l |-> [l EXCEPT !.channel = @ \o [i \in 1 .. times |-> a]]]

Populated(l, a, m) ==
    LET skills == TakeSkills(l, a, m)
        hosts == TakeHosts(skills.l, a, m)
        notes == TakeNotes(hosts.l, a, m)
    IN  IF l.manifests[a] # NoManifest THEN l
        ELSE IF ~skills.ok THEN skills.l
        ELSE IF ~hosts.ok THEN hosts.l
        ELSE IF ~notes.ok THEN notes.l
        ELSE [notes.l EXCEPT !.manifests[a] = m]

\* The channel has changed in place; a walk goes by its index.
InPlace(channel) == walk' = IF walk.live THEN [walk EXCEPT !.list = channel] ELSE walk

LoadInto(a, m) ==
    /\ loader' = Populated(loader, a, m)
    /\ InPlace(loader'.channel)

-----------------------------------------------------------------------------
(* Loading and reloading *)

\* loadPath: the directory is read and its packages are about to be.
ListPath ==
    /\ loading.lists > 0
    /\ loading' = [lists |-> loading.lists - 1,
                   homes |-> [h \in Homes |->
                                loading.homes[h]
                                  + (IF h # NoHome /\ disk[h] # NoManifest THEN 1 ELSE 0)]]
    /\ UNCHANGED <<disk, loader, walk, asked>>

\* loadApp: a package that cannot be read is passed over.
LoadHome(h) ==
    /\ loading.homes[h] > 0
    /\ loading' = [loading EXCEPT !.homes[h] = @ - 1]
    /\ IF h = NoHome \/ disk[h] = NoManifest
       THEN UNCHANGED <<loader, walk>>
       ELSE LoadInto(h, disk[h])
    /\ UNCHANGED <<disk, asked>>

\* The arrays of the channels are replaced: a walk goes on over the old one.
ReloadAll ==
    /\ loader' = NothingLoaded
    /\ loading' = [loading EXCEPT !.lists = @ + 1]
    /\ walk' = [walk EXCEPT !.live = FALSE, !.stay = {}]
    /\ asked' = [asked EXCEPT !.reloads = @ + 1, !.changed = {}, !.again = {},
                              !.stale = {}]
    /\ UNCHANGED disk

\* Splices the first of its entries, or the last of all if it has none.
Spliced(channel, a) ==
    IF channel = <<>> THEN channel
    ELSE IF a \in ToSet(channel)
    THEN RemoveAt(channel, CHOOSE i \in DOMAIN channel :
                              channel[i] = a /\ \A j \in 1 .. i - 1 : channel[j] # a)
    ELSE Front(channel)

SplicedTimes(channel, a, k) ==
    LET left[n \in 0 .. k] == IF n = 0 THEN channel ELSE Spliced(left[n - 1], a)
    IN  left[k]

Unloaded(a) ==
    LET m == loader.manifests[a]
    IN  [loader EXCEPT
           !.manifests[a] = NoManifest,
           !.owner = [s \in DOMAIN @ |-> IF s \in ToSet(m.skills) THEN NoOwner ELSE @[s]],
           !.hosts = [h \in DOMAIN @ |-> IF h \in HostNames(m) THEN NoOwner ELSE @[h]],
           !.channel = SplicedTimes(@, a, Entries(m.notes, Channel))]

\* An app that is not loaded makes it a reload of all.
ReloadApp(a) ==
    /\ asked.reloads < MaxReloads
    /\ \/ /\ ~Loaded(a)
          /\ ReloadAll
       \/ /\ Loaded(a)
          /\ loader' = Unloaded(a)
          /\ loading' = [loading EXCEPT !.homes[IF a \in Packages THEN a ELSE NoHome] = @ + 1]
          /\ walk' = [walk EXCEPT !.list = IF walk.live THEN loader'.channel ELSE @,
                                  !.stay = @ \ {a}]
          /\ asked' = [asked EXCEPT !.reloads = @ + 1, !.stale = @ \ {a}]
          /\ UNCHANGED disk

Reload == asked.reloads < MaxReloads /\ ReloadAll

\* registerDbusApp; one that is loaded is refused.
RegisterDbusApp(d) ==
    /\ asked.reloads < MaxReloads
    /\ LoadInto(d, DbusManifest(d))
    /\ asked' = [asked EXCEPT !.reloads = @ + 1]
    /\ UNCHANGED <<disk, loading>>

Install(p, m) ==
    /\ asked.installs < MaxInstalls /\ disk[p] # m
    /\ disk' = [disk EXCEPT ![p] = m]
    /\ asked' = [asked EXCEPT !.installs = @ + 1, !.changed = @ \cup {p},
                              !.again = @ \cup ({p} \cap asked.changed), !.stale = @ \cup {p}]
    /\ UNCHANGED <<loader, loading, walk>>

-----------------------------------------------------------------------------
(* dispatchNotification over the channel *)

StartWalk ==
    /\ walk.at = 0
    /\ walk' = [at |-> 1, live |-> TRUE, list |-> loader.channel, stay |-> ToSet(loader.channel),
                told |-> [a \in LoaderApps |-> 0]]
    /\ UNCHANGED <<disk, loader, loading, asked>>

\* The next app has been created and told.
StepWalk ==
    /\ walk.at > 0 /\ walk.at <= Len(walk.list)
    /\ walk' = [walk EXCEPT !.at = @ + 1, !.told[walk.list[walk.at]] = @ + 1]
    /\ UNCHANGED <<disk, loader, loading, asked>>

WalkEnds ==
    /\ walk.at > Len(walk.list)
    /\ walk' = [at |-> 0, live |-> FALSE, list |-> <<>>, stay |-> {},
                told |-> [a \in LoaderApps |-> 0]]
    /\ UNCHANGED <<disk, loader, loading, asked>>

-----------------------------------------------------------------------------
LoaderNext ==
    \/ ListPath \/ Reload \/ StartWalk \/ StepWalk \/ WalkEnds
    \/ \E h \in Homes : LoadHome(h)
    \/ \E a \in LoaderApps : ReloadApp(a)
    \/ \E d \in DbusApps : RegisterDbusApp(d)
    \/ \E p \in Packages, m \in Manifests \cup {NoManifest} : Install(p, m)

LoaderSpec == LoaderInit /\ [][LoaderNext]_loaderVars

-----------------------------------------------------------------------------
(* Properties *)

\* Whoever is loaded is reached: its skills are its own, its hosts lead to
\* them, and it is in its channel as often as it asked to be, whatever failed
\* to load before, and however reloads and registrations overlap; a package
\* that has changed may be in it more often.
LoadedIsReachable ==
    \A a \in LoaderApps :
        Loaded(a) =>
            LET m == loader.manifests[a]
                entries == Entries(loader.channel, a)
                wanted == Entries(m.notes, Channel)
            IN  /\ \A s \in ToSet(m.skills) : loader.owner[s] = a
                /\ \A h \in ToSet(m.hosts) : loader.hosts[h[1]] = h[2] /\ loader.owner[h[2]] = a
                /\ entries >= wanted /\ (a \notin asked.changed => entries = wanted)

\* A changed package is not told twice either (what it declared before it was
\* malformed stays in the channel).
ToldOnce ==
    \A a \in LoaderApps :
        Loaded(a) => Entries(loader.channel, a) = Entries(loader.manifests[a].notes, Channel)

Names(m) == ToSet(m.skills) \cup HostNames(m)

\* What a package needs that it can be loaded whatever else is: no malformed
\* and no double declaration, hosts for its own skills, and no rivals.
MayBeLoaded(p) ==
    LET m == disk[p]
    IN  /\ m # NoManifest /\ Malformed \notin ToSet(m.skills) \cup ToSet(m.notes)
        /\ \A i, j \in DOMAIN m.skills : m.skills[i] = m.skills[j] => i = j
        /\ \A i, j \in DOMAIN m.hosts : m.hosts[i][1] = m.hosts[j][1] => i = j
        /\ \A h \in ToSet(m.hosts) : h[2] \in ToSet(m.skills)
        /\ \A q \in Packages \ {p} : Names(disk[q]) \cap Names(m) = {}

AllRead == asked.stale = {} /\ loading.lists = 0 /\ \A h \in Homes : loading.homes[h] = 0

IsLoaded(p) == asked.changed \subseteq {p} /\ MayBeLoaded(p) => loader.manifests[p] = disk[p]

\* A package without rivals and without faults, that alone may have changed
\* since all were loaded, and that only once, is loaded as it is when all has
\* been read: no reload loses it, nor does anything a failed load has left.
UnrivalledIsLoaded == AllRead => \A p \in Packages \ asked.again : IsLoaded(p)

\* The same of a package that has changed twice.
ChangedIsLoaded == AllRead => \A p \in Packages : IsLoaded(p)

\* "Dispatches a notification request to apps registered for the channel": to
\* each that was there when it began and has not been reloaded.
NobodySkipped ==
    walk.at > Len(walk.list) => \A a \in walk.stay : walk.told[a] > 0

\* A skill belongs to an app that is loaded.
OwnersAreLoaded ==
    \A s \in Skills : loader.owner[s] = NoOwner \/ Loaded(loader.owner[s])

\* After any order of installations, reloads and broken packages the tables of
\* the loader agree with the packages they come from.
LoaderInv == LoaderTypeOK /\ LoadedIsReachable /\ UnrivalledIsLoaded
=============================================================================
