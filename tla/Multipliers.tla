----------------------------- MODULE Multipliers -----------------------------
(***************************************************************************)
(* The multiplier link of a Guardian (engine/multiplier_source.go,         *)
(* linked_multiplier.go, api/multiplier_source.go): the scheduling         *)
(* multiplier of an account comes from its own upstream channels (mode     *)
(* "local") or from the channels of another Guardian, G1 (mode "remote"),  *)
(* matched by API key, and is shown as a suffix of the account's name.     *)
(*                                                                         *)
(* Three kinds of job run one at a time under linkedMultiplierMu: a sync   *)
(* with G1, the link of one synchronised local channel, and a change of    *)
(* the source's settings. A job makes requests to sub2api and three        *)
(* separate writes to the database, and may die between any two of them (a *)
(* crash, or a database error that abandons it). Policy editors take no    *)
(* such lock: each reads the whole policy and later writes it back.        *)
(*                                                                         *)
(* A name is a base and a tag, the multiplier in its suffix. A fingerprint *)
(* is the key it stands for. The ten-minute cache of credentials is the    *)
(* choice of the accounts whose credentials a sync can read.               *)
(***************************************************************************)
EXTENDS Integers, FiniteSets

CONSTANTS
  Accounts,    \* the API key accounts of the catalogue
  Keys,        \* the API keys
  KeysOf,      \* [Accounts -> SUBSET Keys]: an account's key and its variant with or without "sk-"
  Ratios,      \* the multipliers
  Bases,       \* the names an account may have, without the suffix
  LocalRatio,  \* what the local channels say of an account
  Channels,    \* G1's upstream channels
  Catalogues,  \* what G1 may have synchronised
  MaxUpsets    \* bound: failures, deaths, edits of the policy, of names and of the settings

None == 0        \* no multiplier, no suffix
Statuses == {"ready", "stale", "ignored"}
Channel  == [status : Statuses, tokens : [Keys -> Ratios \cup {None}]]

ASSUME MultipliersAssumption ==
  /\ IsFiniteSet(Accounts) /\ IsFiniteSet(Keys) /\ IsFiniteSet(Channels)
  /\ Ratios \subseteq Nat \ {None} /\ Bases # {}
  /\ LocalRatio \in [Accounts -> Ratios]
  /\ KeysOf \in [Accounts -> SUBSET Keys]
  /\ Catalogues \subseteq [Channels -> Channel] /\ Catalogues # {}
  /\ MaxUpsets \in Nat

Name   == [base : Bases, tag : Ratios \cup {None}]
Gone   == [base |-> "", tag |-> None]      \* the account does not exist
NoName == [base |-> "?", tag |-> None]     \* owned, with no generated name
Free   == [base |-> "-", tag |-> None]     \* not owned by the remote source
Owned  == [Accounts -> Name \cup {NoName, Free}]
Links  == [Accounts -> Ratios \cup {None}]
NoLinks == [a \in Accounts |-> None]
NoneOwned == [a \in Accounts |-> Free]
Settings  == [mode : {"local", "remote"}, auth : BOOLEAN, owned : Owned,
              state : {"", "authorized", "ready", "partial", "not_ready", "error"}]
Kinds == {"none", "remote", "local", "config"}
PCs   == {"idle", "ask", "names", "cleanup", "remove", "save"}

Job == [kind : Kinds, pc : PCs,
        matched : Links,              \* the multiplier of each matched account
        whole : BOOLEAN,              \* both snapshots complete: what is unmatched may be cleaned
        names : [Accounts -> Name \cup {Gone}],  \* the catalogue when the job read it
        todo : SUBSET Accounts,       \* accounts whose name is still to be written
        drop : SUBSET Accounts,       \* accounts to lose their multiplier
        owned : Owned,                \* the ownership to be saved
        next : Settings]              \* the settings to be saved

VARIABLES
  cat,       \* G1's channels
  site,      \* the names on sub2api
  cache,     \* the names in the local catalogue
  linked,    \* policy.AccountLinkedMultipliers
  settings,  \* the stored MultiplierSourceSettings
  job,       \* the holder of linkedMultiplierMu
  waiting,   \* a sync with G1 has seen mode "remote" and waits for the lock
  queued,    \* what a synchronised local channel found, waiting for the lock
  editor,    \* [on, linked]: a policy editor's copy of the linked multipliers
  upsets,    \* how much of MaxUpsets is used
  strays     \* history: accounts whose multiplier a job or an editor left without an owner

env  == <<cat, upsets>>
vars == <<cat, site, cache, linked, settings, job, waiting, queued, editor, upsets, strays>>

\* Nothing disturbs the system any more.
calm  == upsets = MaxUpsets
Upset == ~calm /\ upsets' = upsets + 1

----------------------------------------------------------------------------
\* G1's index (buildMultiplierSourceIndex). A key that two channels quote
\* differently is left out, and the index is then not complete.

Shown(c)     == {ch \in Channels : c[ch].status # "ignored"}
Quotes(c, k) == {c[ch].tokens[k] : ch \in Shown(c)} \ {None}
Item(c, k)   == IF Cardinality(Quotes(c, k)) = 1 THEN CHOOSE r \in Quotes(c, k) : TRUE ELSE None
Complete(c)  == /\ Shown(c) # {}
                /\ \A ch \in Shown(c) : c[ch].status = "ready"
                /\ \A k \in Keys : Cardinality(Quotes(c, k)) <= 1
IndexState(c) == IF Shown(c) = {} THEN "not_ready"
                 ELSE IF Complete(c) THEN "ready" ELSE "partial"

\* What the items say of an account; two variants of its key that disagree
\* are a conflict and match nothing.
Offers(c, a)     == {Item(c, k) : k \in KeysOf[a]} \ {None}
Match(c, a)      == IF Cardinality(Offers(c, a)) = 1 THEN CHOOSE r \in Offers(c, a) : TRUE ELSE None
Conflicted(c, a) == Cardinality(Offers(c, a)) > 1

----------------------------------------------------------------------------
\* Names: linkedMultiplierName replaces the suffix, linkedMultiplierBaseName takes it off.

Tagged(n, r) == [n EXCEPT !.tag = r]
BaseName(n)  == [n EXCEPT !.tag = None]

IdleJob == [kind |-> "none", pc |-> "idle", matched |-> NoLinks, whole |-> FALSE,
            names |-> [a \in Accounts |-> Gone], todo |-> {}, drop |-> {},
            owned |-> NoneOwned,
            next |-> [mode |-> "local", auth |-> FALSE, owned |-> NoneOwned, state |-> ""]]

IsFree == job.kind = "none"
OwnedIn(o) == {a \in Accounts : o[a] # Free}
Unowned(o) == {a \in Accounts : linked[a] # None /\ o[a] = Free}

\* A request that writes an account's name succeeds, fails, or takes effect
\* and is reported as failed; an account that is gone fails.
WriteName(a, n, ok) ==
  \/ /\ ok
     /\ site[a] # Gone
     /\ site' = [site EXCEPT ![a] = n]
     /\ cache' = IF cache[a] = Gone THEN cache ELSE [cache EXCEPT ![a] = n]
     /\ UNCHANGED upsets
  \/ /\ ~ok
     /\ site[a] = Gone
     /\ UNCHANGED <<site, cache, upsets>>
  \/ /\ ~ok
     /\ Upset
     /\ site[a] # Gone
     /\ \/ UNCHANGED site
        \/ site' = [site EXCEPT ![a] = n]
     /\ UNCHANGED cache

----------------------------------------------------------------------------
\* The environment.

G1Changes ==
  /\ Upset
  /\ \E c \in Catalogues : c # cat /\ cat' = c
  /\ UNCHANGED <<site, cache, linked, settings, job, waiting, queued, editor, strays>>

UserRenames(a) ==
  /\ Upset
  /\ site[a] # Gone
  /\ \E b \in Bases : b # site[a].base /\ site' = [site EXCEPT ![a] = [base |-> b, tag |-> None]]
  /\ UNCHANGED <<cat, cache, linked, settings, job, waiting, queued, editor, strays>>

UserDeletes(a) ==
  /\ Upset
  /\ site[a] # Gone
  /\ site' = [site EXCEPT ![a] = Gone]
  /\ UNCHANGED <<cat, cache, linked, settings, job, waiting, queued, editor, strays>>

\* The catalogue is synchronised by every round.
CatalogSync ==
  /\ cache # site
  /\ cache' = site
  /\ UNCHANGED <<site, linked, settings, job, waiting, queued, editor, env, strays>>

\* A handler that changes the policy: it reads it, and saves what it read
\* with its change. updateChannel with a multiplier takes the account over.
EditorReads ==
  /\ Upset
  /\ ~editor.on
  /\ editor' = [on |-> TRUE, linked |-> linked]
  /\ UNCHANGED <<cat, site, cache, linked, settings, job, waiting, queued, strays>>

EditorSaves ==
  /\ editor.on
  /\ \E taken \in {{}} \cup {{a} : a \in Accounts} :
       linked' = [a \in Accounts |-> IF a \in taken THEN None ELSE editor.linked[a]]
  /\ strays' = strays \cup {a \in Accounts : linked[a] = None /\ linked'[a] # None}
  /\ editor' = [on |-> FALSE, linked |-> NoLinks]
  /\ UNCHANGED <<site, cache, settings, job, waiting, queued, env>>

BecomesCalm ==
  /\ ~calm
  /\ upsets' = MaxUpsets
  /\ UNCHANGED <<cat, site, cache, linked, settings, job, waiting, queued, editor, strays>>

----------------------------------------------------------------------------
\* What the jobs share.

\* The lock is released with the settings as they are.
Release == job' = IdleJob

\* recordRemoteMultiplierError saves the settings the job read, with its error.
RecordError(s) == settings' = [s EXCEPT !.state = "error"]

\* A crash loses the memory of every process; a database error only the job.
Dies ==
  /\ Upset
  /\ ~IsFree
  /\ Release
  /\ strays' = strays \cup Unowned(settings.owned)
  /\ \/ /\ waiting' = FALSE
        /\ queued' = {}
        /\ editor' = [on |-> FALSE, linked |-> NoLinks]
        /\ UNCHANGED settings
     \/ /\ UNCHANGED <<waiting, queued, editor>>
        /\ \/ UNCHANGED settings
           \/ job.kind = "remote" /\ RecordError(settings)
  /\ UNCHANGED <<cat, site, cache, linked>>

\* Mutant: an account that already has a multiplier keeps it.
MergedOnlyNew(m) == [a \in Accounts |-> IF linked[a] = None THEN m[a] ELSE linked[a]]

\* MergeAccountLinkedMultipliers writes the matched multipliers and nothing else.
Merged(m) == [a \in Accounts |-> IF m[a] # None THEN m[a] ELSE linked[a]]
MatchedIn(m) == {a \in Accounts : m[a] # None}

\* One account of applyLinkedMultiplierMatches: nothing to write when the
\* name is as desired; a failed write is left to the next sync.
NameOne(a) ==
  /\ job.pc = "names"
  /\ a \in job.todo
  /\ LET desired == Tagged(job.names[a], job.matched[a])
         done(n) == job' = [job EXCEPT !.todo = @ \ {a},
                                       !.owned[a] = IF n # Free THEN n ELSE @]
     IN  \/ /\ desired = job.names[a]
            /\ done(desired)
            /\ UNCHANGED <<site, cache, upsets>>
         \/ /\ desired # job.names[a]
            /\ WriteName(a, desired, TRUE)
            /\ done(desired)
         \/ /\ desired # job.names[a]
            /\ WriteName(a, desired, FALSE)
            /\ done(Free)
  /\ UNCHANGED <<cat, linked, settings, waiting, queued, editor, strays>>

\* One account of cleanupRemoteLinkedAccounts: its multiplier goes, and its
\* suffix too when the name is still the one that was generated. If that
\* write fails the account stays owned, for another try.
Keeps(a) == job.owned[a] # NoName /\ cache[a] = job.owned[a] /\ BaseName(cache[a]) # cache[a]

CleanOne(a) ==
  /\ job.pc = "cleanup"
  /\ a \in job.todo
  /\ \/ /\ ~Keeps(a)
        /\ job' = [job EXCEPT !.todo = @ \ {a}, !.drop = @ \cup {a}, !.owned[a] = Free]
        /\ UNCHANGED <<site, cache, upsets>>
     \/ /\ Keeps(a)
        /\ WriteName(a, BaseName(cache[a]), TRUE)
        /\ job' = [job EXCEPT !.todo = @ \ {a}, !.drop = @ \cup {a}, !.owned[a] = Free]
     \/ /\ Keeps(a)
        /\ WriteName(a, BaseName(cache[a]), FALSE)
        /\ job' = [job EXCEPT !.todo = @ \ {a}, !.drop = @ \cup {a}]
  /\ UNCHANGED <<cat, linked, settings, waiting, queued, editor, strays>>

\* The end of the cleanup: RemoveAccountLinkedMultipliers.
Cleaned ==
  /\ job.pc = "cleanup"
  /\ job.todo = {}
  /\ linked' = [a \in Accounts |-> IF a \in job.drop THEN None ELSE linked[a]]
  /\ strays' = strays \ job.drop
  /\ job' = [job EXCEPT !.pc = "save"]
  /\ UNCHANGED <<site, cache, settings, waiting, queued, editor, env>>

----------------------------------------------------------------------------
\* A sync with G1 (SyncConfiguredMultiplierSource).

SyncWanted ==
  /\ settings.mode = "remote"
  /\ ~waiting
  /\ waiting' = TRUE
  /\ UNCHANGED <<site, cache, linked, settings, job, queued, editor, env, strays>>

\* Mutant: what was read before the lock is used under it.
RereadNot == [settings EXCEPT !.mode = "remote"]

\* The settings are read again under the lock.
Reread == settings

SyncStart ==
  /\ waiting
  /\ IsFree
  /\ waiting' = FALSE
  /\ \/ /\ Reread.mode # "remote"
        /\ UNCHANGED <<settings, job>>
     \/ /\ Reread.mode = "remote"
        /\ ~Reread.auth
        /\ RecordError(Reread)
        /\ UNCHANGED job
     \/ /\ Reread.mode = "remote"
        /\ Reread.auth
        /\ job' = [IdleJob EXCEPT !.kind = "remote", !.pc = "ask", !.names = cache,
                                  !.next = Reread, !.owned = Reread.owned]
        /\ UNCHANGED settings
  /\ UNCHANGED <<site, cache, linked, queued, editor, env, strays>>

\* Reading the accounts, their credentials or G1's answer fails.
AskFails ==
  /\ Upset
  /\ job.pc = "ask"
  /\ RecordError(job.next)
  /\ Release
  /\ UNCHANGED <<cat, site, cache, linked, waiting, queued, editor, strays>>

\* The accounts whose credentials are read; every account once it is calm.
Readable == IF calm THEN {Accounts} ELSE SUBSET Accounts

Present == {a \in Accounts : job.names[a] # Gone}

LocalWhole(have) == Present \subseteq have /\ \A a \in Present : ~Conflicted(cat, a)

Whole(have) == Complete(cat) /\ LocalWhole(have)

Answer ==
  /\ job.pc = "ask"
  /\ \E have \in Readable :
       LET m == [a \in Accounts |-> IF a \in have \cap Present THEN Match(cat, a) ELSE None]
           w == Whole(have)
       IN  /\ linked' = Merged(m)
           /\ job' = [job EXCEPT
                !.pc = "names", !.matched = m, !.whole = w, !.todo = MatchedIn(m),
                !.owned = [a \in Accounts |-> IF m[a] # None /\ @[a] = Free THEN NoName ELSE @[a]],
                !.next.state = IF Complete(cat) /\ ~w THEN "partial" ELSE IndexState(cat)]
  /\ UNCHANGED <<site, cache, settings, waiting, queued, editor, env, strays>>

\* Mutant: whatever the answer does not mention is cleaned.
MayCleanAlways == job.kind = "remote"

\* What the source is responsible for and did not match is cleaned only when
\* both snapshots are complete.
MayClean == job.whole

NamesDone ==
  /\ job.kind = "remote"
  /\ job.pc = "names"
  /\ job.todo = {}
  /\ job' = IF MayClean
            THEN [job EXCEPT !.pc = "cleanup", !.todo = OwnedIn(job.owned) \ MatchedIn(job.matched)]
            ELSE [job EXCEPT !.pc = "save"]
  /\ UNCHANGED <<site, cache, linked, settings, waiting, queued, editor, env, strays>>

SyncSaved ==
  /\ job.kind = "remote"
  /\ job.pc = "save"
  /\ settings' = [job.next EXCEPT !.owned = job.owned]
  /\ Release
  /\ strays' = strays \ OwnedIn(job.owned)
  /\ UNCHANGED <<site, cache, linked, waiting, queued, editor, env>>

----------------------------------------------------------------------------
\* The link of a synchronised local channel (SyncLinkedMultipliers): the mode
\* is checked before its tokens wait for the lock, and again under the lock.

LocalFound ==
  /\ ~calm
  /\ settings.mode = "local"
  /\ queued = {}
  /\ \E a \in Accounts : queued' = {a}
  /\ UNCHANGED <<site, cache, linked, settings, job, waiting, editor, env, strays>>

LocalAllowed == settings.mode = "local"

LocalStart ==
  /\ queued # {}
  /\ IsFree
  /\ queued' = {}
  /\ LET m == [a \in Accounts |-> IF a \in queued /\ cache[a] # Gone THEN LocalRatio[a] ELSE None]
     IN  \/ /\ ~LocalAllowed \/ MatchedIn(m) = {}
            /\ UNCHANGED <<linked, job>>
         \/ /\ LocalAllowed /\ MatchedIn(m) # {}
            /\ linked' = Merged(m)
            /\ job' = [IdleJob EXCEPT !.kind = "local", !.pc = "names", !.matched = m,
                                      !.names = cache, !.todo = MatchedIn(m)]
  /\ UNCHANGED <<site, cache, settings, waiting, editor, env, strays>>

LocalDone ==
  /\ job.kind = "local"
  /\ job.pc = "names"
  /\ job.todo = {}
  /\ Release
  /\ UNCHANGED <<site, cache, linked, settings, waiting, queued, editor, env, strays>>

----------------------------------------------------------------------------
\* A change of the settings (UpdateMultiplierSourceSettings): the operator
\* authorises G1, gives it another address, or goes back to local channels.

Targets ==
  {[mode |-> "remote", auth |-> TRUE,  owned |-> NoneOwned, state |-> "authorized"],
   [mode |-> "remote", auth |-> FALSE, owned |-> NoneOwned, state |-> ""],
   [mode |-> "local",  auth |-> FALSE, owned |-> NoneOwned, state |-> ""]}

\* Mutant: the local values stay the business of the local channels.
SeededNothing(target) == NoneOwned

\* The local values become the remote source's to clean when it takes over.
Seeded(target) ==
  [a \in Accounts |->
     IF settings.mode = "local" /\ target.mode = "remote" /\ linked[a] # None
     THEN IF cache[a] # Gone /\ cache[a].tag # None THEN cache[a] ELSE NoName
     ELSE Free]

Detaches == settings.mode = "remote" \/ OwnedIn(settings.owned) # {}

ConfigStart ==
  /\ Upset
  /\ IsFree
  /\ \E target \in Targets :
       job' = [IdleJob EXCEPT
         !.kind = "config", !.next = [target EXCEPT !.owned = Seeded(target)],
         !.owned = settings.owned,
         !.pc = IF Detaches THEN "cleanup" ELSE "save",
         !.todo = IF Detaches THEN OwnedIn(settings.owned) ELSE {}]
  /\ UNCHANGED <<cat, site, cache, linked, settings, waiting, queued, editor, strays>>

\* A name that could not be cleaned refuses the change: the settings stay.
LeftOver == OwnedIn(job.owned) # {}

ConfigRefused ==
  /\ job.kind = "config"
  /\ job.pc = "save"
  /\ LeftOver
  /\ Release
  /\ UNCHANGED <<site, cache, linked, settings, waiting, queued, editor, env, strays>>

ConfigSaved ==
  /\ job.kind = "config"
  /\ job.pc = "save"
  /\ ~LeftOver
  /\ settings' = job.next
  /\ Release
  /\ strays' = strays \ OwnedIn(job.next.owned)
  /\ UNCHANGED <<site, cache, linked, waiting, queued, editor, env>>

\* testRemoteMultiplierSource records G1's state if the source is the same.
Tested ==
  /\ ~calm
  /\ IsFree
  /\ settings.mode = "remote" /\ settings.auth
  /\ settings.state # IndexState(cat)
  /\ settings' = [settings EXCEPT !.state = IndexState(cat)]
  /\ UNCHANGED <<site, cache, linked, job, waiting, queued, editor, env, strays>>

----------------------------------------------------------------------------
Init ==
  /\ cat \in Catalogues
  /\ site = [a \in Accounts |-> [base |-> CHOOSE b \in Bases : TRUE, tag |-> None]]
  /\ cache = site
  /\ linked = NoLinks
  /\ settings \in Targets
  /\ job = IdleJob
  /\ waiting = FALSE
  /\ queued = {}
  /\ editor = [on |-> FALSE, linked |-> NoLinks]
  /\ upsets = 0
  /\ strays = {}

JobStep == \/ \E a \in Accounts : NameOne(a) \/ CleanOne(a)
           \/ Cleaned \/ Answer \/ NamesDone \/ SyncSaved \/ LocalDone
           \/ ConfigRefused \/ ConfigSaved

Next ==
  \/ G1Changes \/ CatalogSync \/ EditorReads \/ EditorSaves \/ BecomesCalm
  \/ \E a \in Accounts : UserRenames(a) \/ UserDeletes(a)
  \/ Dies \/ JobStep
  \/ SyncWanted \/ SyncStart \/ AskFails
  \/ LocalFound \/ LocalStart \/ ConfigStart \/ Tested

\* A round synchronises the catalogue, the heartbeat asks for a sync again
\* and again, the lock is handed on, and a job and an editor go on.
Fairness ==
  /\ WF_vars(JobStep) /\ WF_vars(CatalogSync) /\ WF_vars(EditorSaves)
  /\ WF_vars(SyncWanted) /\ SF_vars(SyncStart) /\ WF_vars(LocalStart)

Spec == Init /\ [][Next]_vars /\ Fairness

----------------------------------------------------------------------------
\* Properties.

\* The variables keep their types: no name, multiplier or owner comes from anywhere but
\* the configuration, and what a job holds is what its kind may hold.
TypeOK ==
  /\ cat \in Catalogues
  /\ site \in [Accounts -> Name \cup {Gone}]
  /\ cache \in [Accounts -> Name \cup {Gone}]
  /\ linked \in Links /\ queued \subseteq Accounts
  /\ settings \in Settings
  /\ job.kind \in Kinds /\ job.pc \in PCs /\ job.matched \in Links /\ job.whole \in BOOLEAN
  /\ job.todo \subseteq Accounts /\ job.drop \subseteq Accounts
  /\ job.owned \in Owned /\ job.next \in Settings
  /\ waiting \in BOOLEAN /\ upsets \in 0..MaxUpsets
  /\ strays \subseteq Accounts

\* An incomplete answer of G1, or one matched against accounts whose credentials could
\* not all be read, takes no multiplier away: only a policy editor, a detach and a sync
\* with two complete snapshots do.
SnapshotKept ==
  [][\A a \in Accounts :
       linked[a] # None /\ linked'[a] = None =>
         \/ editor.on /\ ~editor'.on
         \/ job.kind = "config"
         \/ /\ job.kind = "remote"
            /\ job.whole]_vars

\* When a sync with two complete snapshots saves, every multiplier in the policy is one
\* it matched, the local ones from before the source was remote included. Only one that
\* a dead job or a policy editor's outdated copy left without an owner remains.
CompleteSyncCleans ==
  job.kind = "remote" /\ job.pc = "save" /\ job.whole =>
    \A a \in Accounts : linked[a] # None => a \in MatchedIn(job.matched) \cup strays

\* Only the operator changes the source: a sync that waited for the lock while the
\* settings changed does not bring the earlier ones back, and a local channel that
\* waited writes nothing once the source is remote.
SourceKept ==
  /\ [][job.kind # "config" => /\ settings'.mode = settings.mode
                               /\ settings'.auth = settings.auth]_vars
  /\ [](job.kind = "local" => settings.mode = "local")

\* Once nothing disturbs it, an authorised remote source that is complete gives every
\* account its multiplier and lets go of every account it does not match, whatever
\* requests failed before.
Settled ==
  \A a \in Accounts :
    cache[a] # Gone =>
      IF Match(cat, a) # None THEN linked[a] = Match(cat, a)
                              ELSE settings.owned[a] = Free
Converges ==
  calm /\ settings.mode = "remote" /\ settings.auth /\ IsFree /\ Complete(cat)
    /\ (\A a \in Accounts : ~Conflicted(cat, a)) ~> Settled

\* RemoteLinkedAccount: the generated name is there to take off only the suffixes that
\* Guardian generated, not to overwrite a name the user gave.
RenameKept ==
  [][job.pc = "cleanup" /\ job' # job =>
       \A a \in Accounts : site[a] # Gone => site'[a].base = site[a].base]_vars
=============================================================================
