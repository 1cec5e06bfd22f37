-------------------------- MODULE MultipliersProofs --------------------------
(***************************************************************************)
(* Proofs about Multipliers, for any accounts, keys, multipliers, names    *)
(* and catalogues of G1: types; what may take a multiplier away; that a    *)
(* complete sync leaves none behind that it does not answer for; and that  *)
(* only the operator changes the source.                                   *)
(***************************************************************************)
EXTENDS Multipliers, FiniteSetTheorems, TLAPS

\* Every multiplier in the policy has an owner, or is one left without.
Covered(o) == \A a \in Accounts : linked[a] # None => o[a] # Free \/ a \in strays

\* A local source is responsible for nothing.
Detached(s) == s.mode = "local" => OwnedIn(s.owned) = {}

Types ==
  /\ TypeOK /\ job \in Job
  /\ editor \in [on : BOOLEAN, linked : Links]

\* Which job is where; a name is only written for an account that was matched and present.
Phased ==
  /\ job.kind = "none" => job.pc = "idle"
  /\ job.kind = "local" => job.pc = "names" /\ settings.mode = "local"
  /\ job.kind = "config" => job.pc \in {"cleanup", "save"}
  /\ job.kind = "remote" => job.pc \in {"ask", "names", "cleanup", "save"}
  /\ job.pc = "names" => \A a \in job.todo : job.names[a] # Gone /\ job.matched[a] # None

\* While a sync holds the lock the settings are those it read.
Sourced ==
  job.kind = "remote" =>
    /\ settings.mode = "remote" /\ job.next.mode = "remote" /\ job.next.auth = settings.auth
    /\ job.pc = "ask" => job.owned = settings.owned /\ job.next.owned = settings.owned

\* Who answers for the multipliers: the stored ownership, or that of the sync at work.
Responsible ==
  /\ Detached(settings)
  /\ job.kind # "remote" /\ settings.mode = "remote" => Covered(settings.owned)
  /\ job.kind = "remote" /\ job.pc # "cleanup" => Covered(job.owned)

\* A cleanup gets to everything owned that is not matched.
Cleaning ==
  /\ job.kind = "remote" /\ job.pc = "cleanup" =>
       /\ job.whole
       /\ OwnedIn(job.owned) \subseteq MatchedIn(job.matched) \cup job.todo \cup job.drop
       /\ \A a \in Accounts : linked[a] # None => job.owned[a] # Free \/ a \in strays \cup job.drop
  /\ CompleteSyncCleans

\* A change of the settings hands over, or cleans, what the source is responsible for.
Detaching ==
  job.kind = "config" =>
    /\ Detached(job.next)
    /\ job.pc = "cleanup" => /\ settings.mode = "remote"
                             /\ OwnedIn(settings.owned) \subseteq job.todo \cup job.drop
    /\ job.pc = "save" /\ job.next.mode = "remote" => Covered(job.next.owned)

Inner == Phased /\ Sourced /\ Responsible /\ Cleaning /\ Detaching

IInv == Types /\ Inner

----------------------------------------------------------------------------
\* What the pieces are made of.

LEMMA Constants ==
  /\ MaxUpsets \in Nat /\ None = 0 /\ Ratios \subseteq Nat /\ None \notin Ratios
  /\ LocalRatio \in [Accounts -> Ratios] /\ Bases # {}
  /\ Catalogues \subseteq [Channels -> Channel]
<1> QED
  BY MultipliersAssumption DEF None

\* A name keeps its base when it gets a suffix or loses it, and no name with a suffix stands
\* for a missing one.
LEMMA NameFacts ==
  ASSUME NEW n \in Name, NEW r \in Ratios
  PROVE  /\ Tagged(n, r) \in Name /\ Tagged(n, r) # Free
         /\ BaseName(n) \in Name
<1>1. None \notin Ratios
  BY Constants
<1>2. Tagged(n, r) \in Name /\ Tagged(n, r).tag = r /\ BaseName(n) \in Name
  BY DEF Tagged, BaseName, Name
<1>3. Free.tag = None
  BY DEF Free
<1> QED
  BY <1>1, <1>2, <1>3

LEMMA NotFree ==
  /\ NoName # Free
  /\ \A n \in Name \cup {Gone} : n.tag # None => n # Free /\ n \in Name
<1>1. NoName.base = "?" /\ Free.base = "-" /\ Free.tag = None /\ Gone.tag = None
  BY DEF NoName, Free, Gone
<1> QED
  BY <1>1

\* One element of a set that has one.
LEMMA OneOf ==
  ASSUME NEW S, Cardinality(S) = 1
  PROVE  (CHOOSE x \in S : TRUE) \in S
<1>1. S # {}
  BY FS_EmptySet
<1> QED
  BY <1>1

\* What G1's answer says of an account is a multiplier, or nothing.
LEMMA MatchFacts ==
  ASSUME NEW c \in Catalogues, NEW a \in Accounts
  PROVE  Match(c, a) \in Ratios \cup {None}
<1>1. ASSUME NEW k \in Keys PROVE Item(c, k) \in Ratios \cup {None}
  <2>1. Quotes(c, k) \subseteq Ratios
    <3>1. ASSUME NEW ch \in Channels PROVE c[ch].tokens[k] \in Ratios \cup {None}
      BY Constants DEF Channel
    <3> QED
      BY <3>1 DEF Quotes, Shown
  <2> QED
    BY <2>1, OneOf DEF Item
<1>2. KeysOf[a] \subseteq Keys
  BY MultipliersAssumption
<1>3. Offers(c, a) \subseteq Ratios
  BY <1>1, <1>2 DEF Offers
<1> QED
  BY <1>3, OneOf DEF Match

LEMMA StateFacts ==
  ASSUME NEW c
  PROVE  IndexState(c) \in {"ready", "partial", "not_ready"}
<1> QED
  BY DEF IndexState

\* What was matched is written over what was there, and nothing is taken away.
LEMMA MergedFacts ==
  ASSUME linked \in Links, NEW m \in Links
  PROVE  /\ Merged(m) \in Links
         /\ \A a \in Accounts : /\ linked[a] # None => Merged(m)[a] # None
                                /\ Merged(m)[a] # None => linked[a] # None \/ m[a] # None
<1> QED
  BY DEF Merged, Links

LEMMA UpsetKept ==
  ASSUME Types, Upset
  PROVE  upsets' \in 0..MaxUpsets
<1>1. upsets \in Nat /\ MaxUpsets \in Nat /\ upsets # MaxUpsets /\ upsets <= MaxUpsets
  BY Constants DEF Types, TypeOK, Upset, calm
<1> QED
  BY <1>1 DEF Upset

LEMMA WriteFacts ==
  ASSUME Types, NEW a \in Accounts, NEW n \in Name, NEW ok \in BOOLEAN, WriteName(a, n, ok)
  PROVE  /\ site' \in [Accounts -> Name \cup {Gone}]
         /\ cache' \in [Accounts -> Name \cup {Gone}]
         /\ upsets' \in 0..MaxUpsets
<1>1. /\ site \in [Accounts -> Name \cup {Gone}] /\ cache \in [Accounts -> Name \cup {Gone}]
      /\ upsets \in 0..MaxUpsets
  BY DEF Types, TypeOK
<1>2. upsets' = upsets \/ Upset
  BY DEF WriteName
<1>3. upsets' \in 0..MaxUpsets
  BY <1>1, <1>2, UpsetKept
<1>4. /\ site' = site \/ site' = [site EXCEPT ![a] = n]
      /\ cache' = cache \/ cache' = [cache EXCEPT ![a] = n]
  BY DEF WriteName
<1> QED
  BY <1>1, <1>3, <1>4

LEMMA IdleFacts ==
  /\ IdleJob \in Job /\ IdleJob.kind = "none" /\ IdleJob.pc = "idle"
  /\ IdleJob.todo = {} /\ IdleJob.drop = {} /\ IdleJob.whole = FALSE
  /\ IdleJob.owned = NoneOwned /\ NoneOwned \in Owned /\ NoLinks \in Links
<1>1. NoneOwned \in Owned /\ NoLinks \in Links
  BY DEF NoneOwned, Owned, NoLinks, Links
<1> DEFINE next == [mode |-> "local", auth |-> FALSE, owned |-> NoneOwned, state |-> ""]
<1>2. next \in Settings
  BY <1>1 DEF Settings
<1>3. [a \in Accounts |-> Gone] \in [Accounts -> Name \cup {Gone}]
  OBVIOUS
<1>4. IdleJob = [kind |-> "none", pc |-> "idle", matched |-> NoLinks, whole |-> FALSE,
                 names |-> [a \in Accounts |-> Gone], todo |-> {}, drop |-> {},
                 owned |-> NoneOwned, next |-> next]
  BY DEF IdleJob
<1> HIDE DEF next
<1> QED
  BY <1>1, <1>2, <1>3, <1>4 DEF Job, Kinds, PCs

LEMMA EditorFacts ==
  ASSUME NEW on \in BOOLEAN, NEW held \in Links
  PROVE  [on |-> on, linked |-> held] \in [on : BOOLEAN, linked : Links]
<1> QED
  OBVIOUS

\* The types of what a step leaves alone need not be looked at: the three variables with
\* an inner structure are.
LEMMA TypesKept ==
  ASSUME Types, job' \in Job, settings' \in Settings, linked' \in Links,
         site' \in [Accounts -> Name \cup {Gone}], cache' \in [Accounts -> Name \cup {Gone}],
         editor' \in [on : BOOLEAN, linked : Links], upsets' \in 0..MaxUpsets,
         cat' \in Catalogues, waiting' \in BOOLEAN, queued' \subseteq Accounts,
         strays' \subseteq Accounts
  PROVE  Types'
<1>1. /\ job'.kind \in Kinds /\ job'.pc \in PCs /\ job'.matched \in Links
      /\ job'.whole \in BOOLEAN /\ job'.todo \subseteq Accounts /\ job'.drop \subseteq Accounts
      /\ job'.owned \in Owned /\ job'.next \in Settings
  BY DEF Job
<1> QED
  BY <1>1 DEF Types, TypeOK

LEMMA TypeFacts ==
  ASSUME Types
  PROVE  /\ job \in Job /\ settings \in Settings /\ linked \in Links
         /\ site \in [Accounts -> Name \cup {Gone}] /\ cache \in [Accounts -> Name \cup {Gone}]
         /\ editor \in [on : BOOLEAN, linked : Links] /\ upsets \in 0..MaxUpsets
         /\ cat \in Catalogues /\ waiting \in BOOLEAN /\ queued \subseteq Accounts
         /\ strays \subseteq Accounts
         /\ settings.owned \in Owned /\ job.owned \in Owned /\ job.next \in Settings
         /\ job.todo \subseteq Accounts /\ job.drop \subseteq Accounts /\ job.matched \in Links
         /\ job.names \in [Accounts -> Name \cup {Gone}]
<1> QED
  BY DEF Types, TypeOK, Job, Settings

----------------------------------------------------------------------------
\* The steps keep the invariant: the environment.

\* A multiplier that comes from nowhere is a stray.
LEMMA QuietKeeps ==
  ASSUME IInv, UNCHANGED <<settings, job>>, strays \subseteq strays',
         \A a \in Accounts : linked'[a] # None => linked[a] # None \/ a \in strays'
  PROVE  Inner'
<1>1. \A o : Covered(o) => Covered(o)'
  BY DEF Covered
<1>2. Phased' /\ Sourced'
  BY DEF IInv, Inner, Phased, Sourced
<1>3. Responsible'
  BY <1>1 DEF IInv, Inner, Responsible, Covered, Detached, OwnedIn
<1>4. Cleaning'
  BY DEF IInv, Inner, Cleaning, CompleteSyncCleans, OwnedIn, MatchedIn
<1>5. Detaching'
  BY DEF IInv, Inner, Detaching, Covered, Detached, OwnedIn
<1> QED
  BY <1>2, <1>3, <1>4, <1>5 DEF Inner

LEMMA UserStep ==
  ASSUME IInv, NEW a \in Accounts, UserRenames(a) \/ UserDeletes(a)
  PROVE  IInv'
<1>1. Types /\ Upset
  BY DEF IInv, UserRenames, UserDeletes
<1>2. UNCHANGED <<cat, cache, linked, settings, job, waiting, queued, editor, strays>>
  BY DEF UserRenames, UserDeletes
<1>3. site' \in [Accounts -> Name \cup {Gone}]
  <2>1. \A b \in Bases : [base |-> b, tag |-> None] \in Name
    BY DEF Name
  <2> QED
    BY <1>1, <2>1, TypeFacts DEF UserRenames, UserDeletes
<1>4. upsets' \in 0..MaxUpsets
  BY <1>1, UpsetKept
<1>5. Types'
  BY <1>1, <1>2, <1>3, <1>4, TypeFacts, TypesKept
<1>6. Inner'
  BY <1>2, QuietKeeps
<1> QED
  BY <1>5, <1>6 DEF IInv

LEMMA EnvironmentStep ==
  ASSUME IInv, \/ G1Changes \/ CatalogSync \/ EditorReads \/ BecomesCalm
               \/ SyncWanted \/ LocalFound
  PROVE  IInv'
<1>1. Types
  BY DEF IInv
<1>2. UNCHANGED <<site, linked, settings, job, strays>>
  BY DEF G1Changes, CatalogSync, EditorReads, BecomesCalm, SyncWanted, LocalFound, env
<1>3. Inner'
  BY <1>2, QuietKeeps
<1>4. upsets' \in 0..MaxUpsets
  <2>1. upsets' = upsets \/ Upset \/ upsets' = MaxUpsets
    BY DEF G1Changes, CatalogSync, EditorReads, BecomesCalm, SyncWanted, LocalFound, env
  <2>2. MaxUpsets \in 0..MaxUpsets
    BY Constants
  <2> QED
    BY <1>1, <2>1, <2>2, UpsetKept, TypeFacts
<1>5. /\ cat' \in Catalogues /\ cache' \in [Accounts -> Name \cup {Gone}]
      /\ waiting' \in BOOLEAN /\ queued' \subseteq Accounts
  BY <1>1, TypeFacts
     DEF G1Changes, CatalogSync, EditorReads, BecomesCalm, SyncWanted, LocalFound, env
<1>6. editor' \in [on : BOOLEAN, linked : Links]
  <2>1. editor' = editor \/ editor' = [on |-> TRUE, linked |-> linked]
    BY DEF G1Changes, CatalogSync, EditorReads, BecomesCalm, SyncWanted, LocalFound, env
  <2>2. linked \in Links /\ editor \in [on : BOOLEAN, linked : Links]
    BY <1>1, TypeFacts
  <2>3. [on |-> TRUE, linked |-> linked] \in [on : BOOLEAN, linked : Links]
    BY <2>2, EditorFacts
  <2> QED
    BY <2>1, <2>2, <2>3
<1>7. Types'
  BY <1>1, <1>2, <1>4, <1>5, <1>6, TypeFacts, TypesKept
<1> QED
  BY <1>3, <1>7 DEF IInv

LEMMA EditorSavesStep ==
  ASSUME IInv, EditorSaves
  PROVE  IInv'
<1>1. Types
  BY DEF IInv
<1>2. UNCHANGED <<site, cache, settings, job, waiting, queued, cat, upsets>>
  BY DEF EditorSaves, env
<1>3. PICK taken \in SUBSET Accounts :
        linked' = [a \in Accounts |-> IF a \in taken THEN None ELSE editor.linked[a]]
  BY DEF EditorSaves
<1>4. strays' = strays \cup {a \in Accounts : linked[a] = None /\ linked'[a] # None}
  BY DEF EditorSaves
<1>5. linked' \in Links
  <2>1. editor \in [on : BOOLEAN, linked : Links]
    BY <1>1, TypeFacts
  <2>2. editor.linked \in Links
    BY <2>1
  <2> QED
    BY <1>3, <2>2 DEF Links
<1>6. editor' \in [on : BOOLEAN, linked : Links]
  BY IdleFacts DEF EditorSaves
<1>7. Types'
  BY <1>1, <1>2, <1>4, <1>5, <1>6, TypeFacts, TypesKept
<1>8. Inner'
  BY <1>2, <1>4, QuietKeeps
<1> QED
  BY <1>7, <1>8 DEF IInv

\* The settings with another state.
LEMMA StateKept ==
  ASSUME NEW s \in Settings,
         NEW state \in {"", "authorized", "ready", "partial", "not_ready", "error"}
  PROVE  /\ [s EXCEPT !.state = state] \in Settings
         /\ [s EXCEPT !.state = state].mode = s.mode
         /\ [s EXCEPT !.state = state].auth = s.auth
         /\ [s EXCEPT !.state = state].owned = s.owned
<1> QED
  BY DEF Settings

\* Nobody holds the lock.
LEMMA IsIdle ==
  ASSUME job.kind = "none", job.pc = "idle"
  PROVE  /\ Sourced /\ Cleaning /\ Detaching
         /\ Phased
         /\ Responsible <=> /\ Detached(settings)
                            /\ settings.mode = "remote" => Covered(settings.owned)
<1> QED
  BY DEF Sourced, Cleaning, Detaching, Phased, Responsible, CompleteSyncCleans

LEMMA Released ==
  ASSUME Release,
         Detached(settings)', (settings.mode = "remote" => Covered(settings.owned))'
  PROVE  Inner'
<1>1. job'.kind = "none" /\ job'.pc = "idle"
  BY IdleFacts DEF Release
<1>2. Sourced' /\ Cleaning' /\ Detaching' /\ Phased'
  BY <1>1 DEF Sourced, Cleaning, Detaching, Phased, CompleteSyncCleans
<1>3. Responsible'
  BY <1>1 DEF Responsible
<1> QED
  BY <1>2, <1>3 DEF Inner

LEMMA DiesStep ==
  ASSUME IInv, Dies
  PROVE  IInv'
<1>1. Types /\ Detached(settings) /\ settings \in Settings
  BY TypeFacts DEF IInv, Inner, Responsible
<1>2. /\ UNCHANGED <<cat, site, cache, linked>> /\ Release
      /\ strays' = strays \cup Unowned(settings.owned)
  BY DEF Dies
<1>3. /\ settings' \in Settings /\ settings'.mode = settings.mode
      /\ settings'.owned = settings.owned
  <2>1. settings' = settings \/ settings' = [settings EXCEPT !.state = "error"]
    BY DEF Dies, RecordError
  <2> QED
    BY <1>1, <2>1, StateKept
<1>4. Detached(settings)'
  BY <1>1, <1>3 DEF Detached, OwnedIn
<1>5. Covered(settings.owned)'
  BY <1>2, <1>3 DEF Covered, Unowned
<1>6. Inner'
  BY <1>2, <1>4, <1>5, Released
<1>7. upsets' \in 0..MaxUpsets
  BY <1>1, UpsetKept DEF Dies
<1>8. /\ waiting' \in BOOLEAN /\ queued' \subseteq Accounts
      /\ editor' \in [on : BOOLEAN, linked : Links]
  <2>1. /\ waiting' = waiting \/ waiting' = FALSE
        /\ queued' = queued \/ queued' = {}
        /\ editor' = editor \/ editor' = [on |-> FALSE, linked |-> NoLinks]
    BY DEF Dies
  <2>2. waiting \in BOOLEAN /\ queued \subseteq Accounts /\ NoLinks \in Links
    BY <1>1, TypeFacts, IdleFacts
  <2>3. editor \in [on : BOOLEAN, linked : Links]
    BY <1>1, TypeFacts
  <2>4. [on |-> FALSE, linked |-> NoLinks] \in [on : BOOLEAN, linked : Links]
    BY <2>2, EditorFacts
  <2>5. editor' \in [on : BOOLEAN, linked : Links]
    BY <2>1, <2>3, <2>4
  <2> QED
    BY <2>1, <2>2, <2>5
<1>9. strays' \subseteq Accounts /\ job' \in Job
  BY <1>1, <1>2, TypeFacts, IdleFacts DEF Unowned, Release
<1>10. Types'
  BY <1>1, <1>2, <1>3, <1>7, <1>8, <1>9, TypeFacts, TypesKept
<1> QED
  BY <1>6, <1>10 DEF IInv

LEMMA TestedStep ==
  ASSUME IInv, Tested
  PROVE  IInv'
<1>1. /\ Types /\ settings \in Settings /\ job.kind = "none" /\ job.pc = "idle"
      /\ Detached(settings)
      /\ settings.mode = "remote" => Covered(settings.owned)
  BY TypeFacts DEF IInv, Inner, Responsible, Phased, Tested, IsFree
<1>2. UNCHANGED <<site, cache, linked, job, waiting, queued, editor, env, strays>>
  BY DEF Tested
<1>3. /\ settings' \in Settings /\ settings'.mode = settings.mode
      /\ settings'.owned = settings.owned
  <2>1. IndexState(cat) \in {"", "authorized", "ready", "partial", "not_ready", "error"}
    BY StateFacts
  <2>2. settings' = [settings EXCEPT !.state = IndexState(cat)]
    BY DEF Tested
  <2> QED
    BY <1>1, <2>1, <2>2, StateKept
<1>4. Responsible'
  <2>1. linked' = linked /\ strays' = strays /\ job' = job
    BY <1>2
  <2>2. Detached(settings)'
    BY <1>1, <1>3 DEF Detached, OwnedIn
  <2>3. (settings.mode = "remote" => Covered(settings.owned))'
    BY <1>1, <1>3, <2>1 DEF Covered
  <2> QED
    BY <1>1, <2>1, <2>2, <2>3 DEF Responsible
<1>5. Sourced' /\ Cleaning' /\ Detaching' /\ Phased'
  BY <1>1, <1>2 DEF Sourced, Cleaning, Detaching, Phased, CompleteSyncCleans
<1>6. Types'
  BY <1>1, <1>2, <1>3, TypeFacts, TypesKept DEF env
<1> QED
  BY <1>4, <1>5, <1>6 DEF IInv, Inner

----------------------------------------------------------------------------
\* The steps keep the invariant: a sync with G1 begins, and hears from it.

\* Only the recorded state of the settings changes while nobody holds the lock.
LEMMA SettingsKeep ==
  ASSUME IInv, job.kind = "none", UNCHANGED <<linked, job, strays>>,
         settings'.mode = settings.mode, settings'.owned = settings.owned
  PROVE  Inner'
<1>1. /\ job.pc = "idle" /\ Detached(settings)
      /\ settings.mode = "remote" => Covered(settings.owned)
  BY DEF IInv, Inner, Responsible, Phased
<1>2. Detached(settings)'
  BY <1>1 DEF Detached, OwnedIn
<1>3. (settings.mode = "remote" => Covered(settings.owned))'
  BY <1>1 DEF Covered
<1>4. Responsible'
  BY <1>2, <1>3 DEF Responsible
<1>5. Sourced' /\ Cleaning' /\ Detaching' /\ Phased'
  BY <1>1 DEF Sourced, Cleaning, Detaching, Phased, CompleteSyncCleans
<1> QED
  BY <1>4, <1>5 DEF Inner

LEMMA SyncStartStep ==
  ASSUME IInv, SyncStart
  PROVE  IInv'
<1>1. /\ Types /\ settings \in Settings /\ job.kind = "none" /\ job.pc = "idle"
      /\ Detached(settings)
      /\ settings.mode = "remote" => Covered(settings.owned)
  BY TypeFacts DEF IInv, Inner, Responsible, Phased, SyncStart, IsFree
<1>2. /\ UNCHANGED <<site, cache, linked, queued, editor, cat, upsets, strays>>
      /\ waiting' \in BOOLEAN
  BY DEF SyncStart, env
<1>3. CASE UNCHANGED <<settings, job>>
  <2>1. Inner'
    BY <1>2, <1>3, QuietKeeps
  <2>2. Types'
    BY <1>1, <1>2, <1>3, TypeFacts, TypesKept
  <2> QED
    BY <2>1, <2>2 DEF IInv
<1>4. CASE RecordError(settings) /\ UNCHANGED job
  <2>1. /\ settings' \in Settings /\ settings'.mode = settings.mode
        /\ settings'.owned = settings.owned
    BY <1>1, <1>4, StateKept DEF RecordError
  <2>2. Inner'
    BY <1>1, <1>2, <1>4, <2>1, SettingsKeep
  <2>3. Types'
    BY <1>1, <1>2, <1>4, <2>1, TypeFacts, TypesKept
  <2> QED
    BY <2>2, <2>3 DEF IInv
<1>5. CASE /\ settings.mode = "remote" /\ UNCHANGED settings
           /\ job' = [IdleJob EXCEPT !.kind = "remote", !.pc = "ask", !.names = cache,
                                     !.next = settings, !.owned = settings.owned]
  <2>1. /\ cache \in [Accounts -> Name \cup {Gone}] /\ settings.owned \in Owned
        /\ IdleJob \in Job
    BY <1>1, TypeFacts, IdleFacts
  <2>2. job' \in Job /\ job'.kind = "remote" /\ job'.pc = "ask"
    BY <1>1, <1>5, <2>1 DEF Job, Kinds, PCs
  <2>3. job'.next = settings /\ job'.owned = settings.owned
    BY <1>5, <2>1 DEF Job
  <2>4. Phased' /\ Sourced'
    BY <1>5, <2>2, <2>3 DEF Phased, Sourced
  <2>5. Detached(settings)' /\ Covered(job.owned)'
    BY <1>1, <1>2, <1>5, <2>3 DEF Detached, Covered, OwnedIn
  <2>6. Responsible' /\ Cleaning' /\ Detaching'
    BY <2>2, <2>5 DEF Responsible, Cleaning, Detaching, CompleteSyncCleans
  <2>7. Types'
    BY <1>1, <1>2, <1>5, <2>2, TypeFacts, TypesKept
  <2> QED
    BY <2>4, <2>6, <2>7 DEF IInv, Inner
<1> QED
  BY <1>3, <1>4, <1>5 DEF SyncStart, Reread

LEMMA AskFailsStep ==
  ASSUME IInv, AskFails
  PROVE  IInv'
<1>1. /\ Types /\ job.pc = "ask" /\ job.next \in Settings
      /\ UNCHANGED <<cat, site, cache, linked, waiting, queued, editor, strays>>
      /\ Release /\ RecordError(job.next)
  BY TypeFacts DEF IInv, AskFails
<1>2. job.kind = "remote"
  BY <1>1 DEF IInv, Inner, Phased, Types, TypeOK, Kinds
<1>3. job.next.mode = "remote" /\ job.next.owned = settings.owned /\ Covered(settings.owned)
  BY <1>1, <1>2 DEF IInv, Inner, Sourced, Responsible
<1>4. settings' \in Settings /\ settings'.mode = "remote" /\ settings'.owned = settings.owned
  BY <1>1, <1>3, StateKept DEF RecordError
<1>5. Detached(settings)' /\ Covered(settings.owned)'
  BY <1>1, <1>3, <1>4 DEF Detached, Covered
<1>6. Inner'
  BY <1>1, <1>5, Released
<1>7. upsets' \in 0..MaxUpsets /\ job' \in Job
  BY <1>1, UpsetKept, IdleFacts DEF AskFails, Release
<1>8. Types'
  BY <1>1, <1>4, <1>7, TypeFacts, TypesKept
<1> QED
  BY <1>6, <1>8 DEF IInv

\* The job after the answer: what was matched is owned, and its names are to be written.
LEMMA AnswerStep ==
  ASSUME IInv, Answer
  PROVE  IInv'
<1>1. /\ Types /\ job.pc = "ask" /\ cat \in Catalogues /\ linked \in Links /\ job \in Job
      /\ job.owned \in Owned /\ job.next \in Settings
      /\ UNCHANGED <<site, cache, settings, waiting, queued, editor, cat, upsets, strays>>
  BY TypeFacts DEF IInv, Answer, env
<1>2. job.kind = "remote"
  BY <1>1 DEF IInv, Inner, Phased, Types, TypeOK, Kinds
<1>3. PICK have \in Readable :
        LET m == [a \in Accounts |-> IF a \in have \cap Present THEN Match(cat, a) ELSE None]
            w == Whole(have)
        IN  /\ linked' = Merged(m)
            /\ job' = [job EXCEPT
                 !.pc = "names", !.matched = m, !.whole = w, !.todo = MatchedIn(m),
                 !.owned = [a \in Accounts |-> IF m[a] # None /\ @[a] = Free THEN NoName ELSE @[a]],
                 !.next.state = IF Complete(cat) /\ ~w THEN "partial" ELSE IndexState(cat)]
  BY Zenon DEF Answer
<1> DEFINE m == [a \in Accounts |-> IF a \in have \cap Present THEN Match(cat, a) ELSE None]
           w == Whole(have)
           state == IF Complete(cat) /\ ~w THEN "partial" ELSE IndexState(cat)
           next == [job.next EXCEPT !.state = state]
           owned == [a \in Accounts |->
                       IF m[a] # None /\ job.owned[a] = Free THEN NoName ELSE job.owned[a]]
<1>4. m \in Links /\ \A a \in Accounts : m[a] # None => job.names[a] # Gone
  BY <1>1, MatchFacts DEF Links, Present
<1>5. w \in BOOLEAN /\ state \in {"", "authorized", "ready", "partial", "not_ready", "error"}
  BY StateFacts DEF Whole
<1>6. next \in Settings /\ next.mode = job.next.mode /\ next.auth = job.next.auth
  BY <1>1, <1>5, StateKept
<1>7. /\ owned \in Owned
      /\ \A a \in Accounts : owned[a] # Free <=> m[a] # None \/ job.owned[a] # Free
  BY <1>1, NotFree DEF Owned
<1>8. /\ linked' = Merged(m)
      /\ job' = [job EXCEPT !.pc = "names", !.matched = m, !.whole = w, !.todo = MatchedIn(m),
                            !.owned = owned, !.next = next]
  BY <1>1, <1>3 DEF Job
<1> HIDE DEF next, owned, m, w, state
<1>9. MatchedIn(m) \subseteq Accounts /\ \A a \in MatchedIn(m) : m[a] # None
  BY DEF MatchedIn
<1>10. job' \in Job
  BY <1>1, <1>4, <1>5, <1>6, <1>7, <1>8, <1>9 DEF Job, PCs
<1>11. /\ job'.kind = "remote" /\ job'.pc = "names" /\ job'.next = next /\ job'.owned = owned
       /\ job'.todo = MatchedIn(m) /\ job'.matched = m /\ job'.names = job.names
  BY <1>1, <1>2, <1>8 DEF Job
<1>12. linked' \in Links /\ \A a \in Accounts : linked'[a] # None => linked[a] # None \/ m[a] # None
  BY <1>1, <1>4, <1>8, MergedFacts
<1>13. Phased'
  BY <1>4, <1>9, <1>11 DEF Phased
<1>14. Sourced'
  BY <1>1, <1>2, <1>6, <1>11 DEF IInv, Inner, Sourced
<1>15. Detached(settings)' /\ Covered(job.owned)'
  BY <1>1, <1>2, <1>7, <1>11, <1>12 DEF IInv, Inner, Responsible, Detached, Covered, OwnedIn
<1>16. Responsible' /\ Cleaning' /\ Detaching'
  BY <1>11, <1>15 DEF Responsible, Cleaning, Detaching, CompleteSyncCleans
<1>17. Types'
  BY <1>1, <1>10, <1>12, TypeFacts, TypesKept
<1> QED
  BY <1>13, <1>14, <1>16, <1>17 DEF IInv, Inner

----------------------------------------------------------------------------
\* The steps keep the invariant: names are written, and cleaned.

\* The job with one account less to do, and that account's ownership as v.
LEMMA OwnedStep ==
  ASSUME Types, NEW a \in Accounts, NEW v \in Name \cup {NoName, Free}, NEW drop \in SUBSET Accounts,
         job' = [job EXCEPT !.todo = job.todo \ {a}, !.drop = drop,
                            !.owned = [job.owned EXCEPT ![a] = v]]
  PROVE  /\ job' \in Job /\ job'.todo = job.todo \ {a} /\ job'.drop = drop
         /\ job'.owned \in Owned /\ job'.owned[a] = v
         /\ \A b \in Accounts : b # a => job'.owned[b] = job.owned[b]
         /\ job'.kind = job.kind /\ job'.pc = job.pc /\ job'.next = job.next
         /\ job'.matched = job.matched /\ job'.names = job.names /\ job'.whole = job.whole
<1>1. job \in Job /\ job.todo \subseteq Accounts /\ job.owned \in Owned
  BY TypeFacts
<1> DEFINE o == [job.owned EXCEPT ![a] = v]
<1>2. o \in Owned /\ o[a] = v /\ \A b \in Accounts : b # a => o[b] = job.owned[b]
  BY <1>1 DEF Owned
<1>3. job' = [job EXCEPT !.todo = job.todo \ {a}, !.drop = drop, !.owned = o]
  OBVIOUS
<1> HIDE DEF o
<1> QED
  BY <1>1, <1>2, <1>3 DEF Job

LEMMA NameOneStep ==
  ASSUME IInv, NEW a \in Accounts, NameOne(a)
  PROVE  IInv'
<1>1. /\ Types /\ job.pc = "names" /\ a \in job.todo /\ job \in Job
      /\ job.drop \subseteq Accounts /\ job.owned \in Owned
      /\ UNCHANGED <<cat, linked, settings, waiting, queued, editor, strays>>
  BY TypeFacts DEF IInv, NameOne
<1>2. job.names[a] \in Name /\ job.matched[a] \in Ratios
  <2>1. job.names[a] # Gone /\ job.matched[a] # None
    BY <1>1 DEF IInv, Inner, Phased
  <2> QED
    BY <1>1, <2>1, TypeFacts DEF Links
<1> DEFINE desired == Tagged(job.names[a], job.matched[a])
<1>3. desired \in Name /\ desired # Free
  BY <1>2, NameFacts
<1>4. /\ \/ UNCHANGED <<site, cache, upsets>>
         \/ WriteName(a, desired, TRUE)
         \/ WriteName(a, desired, FALSE)
      /\ \/ job' = [job EXCEPT !.todo = @ \ {a},
                               !.owned[a] = IF desired # Free THEN desired ELSE @]
         \/ job' = [job EXCEPT !.todo = @ \ {a},
                               !.owned[a] = IF Free # Free THEN Free ELSE @]
  BY DEF NameOne
<1> HIDE DEF desired
<1>5. PICK v \in {desired, job.owned[a]} :
        job' = [job EXCEPT !.todo = job.todo \ {a}, !.drop = job.drop,
                           !.owned = [job.owned EXCEPT ![a] = v]]
  <2>1. ASSUME NEW t, NEW o
        PROVE  [job EXCEPT !.todo = t, !.owned = o]
                 = [job EXCEPT !.todo = t, !.drop = job.drop, !.owned = o]
    BY <1>1 DEF Job
  <2>2. \/ job' = [job EXCEPT !.todo = job.todo \ {a},
                              !.owned = [job.owned EXCEPT ![a] = desired]]
        \/ job' = [job EXCEPT !.todo = job.todo \ {a},
                              !.owned = [job.owned EXCEPT ![a] = job.owned[a]]]
    BY <1>3, <1>4
  <2> QED
    BY <2>1, <2>2
<1>6. v \in Name \cup {NoName, Free} /\ (job.owned[a] # Free => v # Free)
  BY <1>1, <1>3, <1>5 DEF Owned
<1>7. /\ job' \in Job /\ job'.todo = job.todo \ {a} /\ job'.owned[a] = v
      /\ \A b \in Accounts : b # a => job'.owned[b] = job.owned[b]
      /\ job'.kind = job.kind /\ job'.pc = job.pc /\ job'.next = job.next
      /\ job'.matched = job.matched /\ job'.names = job.names
  BY <1>1, <1>5, <1>6, OwnedStep
<1>8. Phased' /\ Sourced'
  BY <1>1, <1>7 DEF IInv, Inner, Phased, Sourced
<1>9. job.kind \in {"remote", "local"}
  BY <1>1 DEF IInv, Inner, Phased, Types, TypeOK, Kinds
<1>10. Responsible'
  <2>1. Detached(settings)'
    BY <1>1 DEF IInv, Inner, Responsible, Detached, OwnedIn
  <2>2. job'.kind # "remote" => job'.kind = "local" /\ settings'.mode = "local"
    BY <1>1, <1>7, <1>9 DEF IInv, Inner, Phased
  <2>3. (job.kind = "remote" => Covered(job.owned))'
    BY <1>1, <1>6, <1>7 DEF IInv, Inner, Responsible, Covered
  <2> QED
    BY <2>1, <2>2, <2>3 DEF Responsible
<1>11. Cleaning' /\ Detaching'
  BY <1>1, <1>7, <1>9 DEF Cleaning, Detaching, CompleteSyncCleans
<1>12. Types'
  <2>1. /\ site' \in [Accounts -> Name \cup {Gone}] /\ cache' \in [Accounts -> Name \cup {Gone}]
        /\ upsets' \in 0..MaxUpsets
    BY <1>1, <1>3, <1>4, WriteFacts, TypeFacts
  <2> QED
    BY <1>1, <1>7, <2>1, TypeFacts, TypesKept
<1> QED
  BY <1>8, <1>10, <1>11, <1>12 DEF IInv, Inner

LEMMA CleanOneStep ==
  ASSUME IInv, NEW a \in Accounts, CleanOne(a)
  PROVE  IInv'
<1>1. /\ Types /\ job.pc = "cleanup" /\ a \in job.todo /\ job \in Job
      /\ job.todo \subseteq Accounts /\ job.drop \subseteq Accounts /\ job.owned \in Owned
      /\ UNCHANGED <<cat, linked, settings, waiting, queued, editor, strays>>
  BY TypeFacts DEF IInv, CleanOne
<1>2. \/ UNCHANGED <<site, cache, upsets>>
      \/ Keeps(a) /\ WriteName(a, BaseName(cache[a]), TRUE)
      \/ Keeps(a) /\ WriteName(a, BaseName(cache[a]), FALSE)
  BY DEF CleanOne
<1>3. /\ site' \in [Accounts -> Name \cup {Gone}] /\ cache' \in [Accounts -> Name \cup {Gone}]
      /\ upsets' \in 0..MaxUpsets
  <2>1. Keeps(a) => BaseName(cache[a]) \in Name
    <3>1. BaseName(Gone) = Gone
      <4>1. ASSUME NEW b, NEW t
            PROVE  [[base |-> b, tag |-> t] EXCEPT !.tag = t] = [base |-> b, tag |-> t]
        OBVIOUS
      <4> QED
        BY <4>1 DEF BaseName, Gone
    <3>2. \A n \in Name : BaseName(n) \in Name
      BY DEF BaseName, Name
    <3> QED
      BY <1>1, <3>1, <3>2, TypeFacts DEF Keeps
  <2> QED
    BY <1>1, <1>2, <2>1, WriteFacts, TypeFacts
<1>4. PICK v \in {Free, job.owned[a]} :
        job' = [job EXCEPT !.todo = job.todo \ {a}, !.drop = job.drop \cup {a},
                           !.owned = [job.owned EXCEPT ![a] = v]]
  <2>1. job = [job EXCEPT !.owned = [job.owned EXCEPT ![a] = job.owned[a]]]
    BY <1>1 DEF Job, Owned
  <2>2. \/ job' = [job EXCEPT !.todo = job.todo \ {a}, !.drop = job.drop \cup {a},
                              !.owned = [job.owned EXCEPT ![a] = Free]]
        \/ job' = [job EXCEPT !.todo = job.todo \ {a}, !.drop = job.drop \cup {a}]
    BY DEF CleanOne
  <2> QED
    BY <1>1, <2>1, <2>2 DEF Job
<1>5. v \in Name \cup {NoName, Free} /\ job.drop \cup {a} \in SUBSET Accounts
  BY <1>1, <1>4 DEF Owned
<1>6. /\ job' \in Job /\ job'.todo = job.todo \ {a} /\ job'.drop = job.drop \cup {a}
      /\ job'.owned[a] = v /\ \A b \in Accounts : b # a => job'.owned[b] = job.owned[b]
      /\ job'.kind = job.kind /\ job'.pc = job.pc /\ job'.next = job.next
      /\ job'.matched = job.matched /\ job'.names = job.names /\ job'.whole = job.whole
  BY <1>1, <1>4, <1>5, OwnedStep
<1>7. job.kind \in {"remote", "config"}
  BY <1>1 DEF IInv, Inner, Phased, Types, TypeOK, Kinds
<1>8. Phased' /\ Sourced'
  BY <1>1, <1>6, <1>7 DEF IInv, Inner, Phased, Sourced
<1>9. Responsible'
  BY <1>1, <1>6 DEF IInv, Inner, Responsible, Covered, Detached, OwnedIn
<1>10. Cleaning'
  <2>1. ASSUME job.kind = "remote"
        PROVE  /\ OwnedIn(job'.owned) \subseteq MatchedIn(job.matched) \cup job'.todo \cup job'.drop
               /\ \A b \in Accounts :
                    linked[b] # None => job'.owned[b] # Free \/ b \in strays \cup job'.drop
    <3>1. /\ job.whole
          /\ OwnedIn(job.owned) \subseteq MatchedIn(job.matched) \cup job.todo \cup job.drop
          /\ \A b \in Accounts :
               linked[b] # None => job.owned[b] # Free \/ b \in strays \cup job.drop
      BY <1>1, <2>1 DEF IInv, Inner, Cleaning
    <3> QED
      BY <1>6, <3>1 DEF OwnedIn
  <2>2. job.kind = "remote" => job.whole
    BY <1>1 DEF IInv, Inner, Cleaning
  <2> QED
    BY <1>1, <1>6, <2>1, <2>2 DEF Cleaning, CompleteSyncCleans, OwnedIn, MatchedIn
<1>11. Detaching'
  <2>1. job.kind = "config" => /\ Detached(job.next) /\ settings.mode = "remote"
                               /\ OwnedIn(settings.owned) \subseteq job.todo \cup job.drop
    BY <1>1 DEF IInv, Inner, Detaching
  <2>2. job.kind = "config" => OwnedIn(settings.owned) \subseteq job'.todo \cup job'.drop
    BY <1>6, <2>1
  <2> QED
    BY <1>1, <1>6, <2>1, <2>2 DEF Detaching, Detached, OwnedIn
<1>12. Types'
  BY <1>1, <1>3, <1>6, TypeFacts, TypesKept
<1> QED
  BY <1>8, <1>9, <1>10, <1>11, <1>12 DEF IInv, Inner

LEMMA CleanedStep ==
  ASSUME IInv, Cleaned
  PROVE  IInv'
<1>1. /\ Types /\ job.pc = "cleanup" /\ job.todo = {} /\ job \in Job /\ linked \in Links
      /\ linked' = [a \in Accounts |-> IF a \in job.drop THEN None ELSE linked[a]]
      /\ strays' = strays \ job.drop /\ job' = [job EXCEPT !.pc = "save"]
      /\ UNCHANGED <<site, cache, settings, waiting, queued, editor, cat, upsets>>
  BY TypeFacts DEF IInv, Cleaned, env
<1>2. job.kind \in {"remote", "config"}
  BY <1>1 DEF IInv, Inner, Phased, Types, TypeOK, Kinds
<1>3. /\ job' \in Job /\ job'.pc = "save" /\ job'.kind = job.kind /\ job'.todo = {}
      /\ job'.drop = job.drop /\ job'.owned = job.owned /\ job'.next = job.next
      /\ job'.matched = job.matched /\ job'.whole = job.whole
  BY <1>1 DEF Job, PCs
<1>4. /\ linked' \in Links
      /\ \A a \in Accounts : linked'[a] # None => linked[a] # None /\ a \notin job.drop
  BY <1>1 DEF Links
<1>5. Phased' /\ Sourced'
  BY <1>1, <1>2, <1>3 DEF IInv, Inner, Phased, Sourced
<1>6. Detached(settings)'
  BY <1>1 DEF IInv, Inner, Responsible, Detached, OwnedIn
<1>7. ASSUME job.kind = "remote" PROVE Responsible' /\ Cleaning' /\ Detaching'
  <2>1. /\ OwnedIn(job.owned) \subseteq MatchedIn(job.matched) \cup job.drop
        /\ \A a \in Accounts : linked[a] # None => job.owned[a] # Free \/ a \in strays \cup job.drop
    BY <1>1, <1>7 DEF IInv, Inner, Cleaning
  <2>2. Covered(job.owned)'
    BY <1>1, <1>3, <1>4, <2>1 DEF Covered
  <2>3. CompleteSyncCleans'
    BY <1>1, <1>3, <1>4, <2>1 DEF CompleteSyncCleans, OwnedIn, MatchedIn
  <2> QED
    BY <1>3, <1>6, <1>7, <2>2, <2>3 DEF Responsible, Cleaning, Detaching
<1>8. ASSUME job.kind = "config" PROVE Responsible' /\ Cleaning' /\ Detaching'
  <2>1. /\ Detached(job.next) /\ settings.mode = "remote"
        /\ OwnedIn(settings.owned) \subseteq job.drop /\ Covered(settings.owned)
    BY <1>1, <1>8 DEF IInv, Inner, Detaching, Responsible
  <2>2. \A a \in Accounts : linked'[a] # None => a \in strays'
    BY <1>1, <1>4, <2>1 DEF Covered, OwnedIn
  <2>3. Covered(settings.owned)' /\ Covered(job.next.owned)'
    BY <2>2 DEF Covered
  <2>4. Detached(job.next)'
    BY <1>3, <2>1 DEF Detached, OwnedIn
  <2> QED
    BY <1>3, <1>6, <1>8, <2>3, <2>4
       DEF Responsible, Cleaning, Detaching, CompleteSyncCleans
<1>9. Responsible' /\ Cleaning' /\ Detaching'
  BY <1>2, <1>7, <1>8
<1>10. Types'
  BY <1>1, <1>3, <1>4, TypeFacts, TypesKept
<1> QED
  BY <1>5, <1>9, <1>10 DEF IInv, Inner

LEMMA NamesDoneStep ==
  ASSUME IInv, NamesDone
  PROVE  IInv'
<1>1. /\ Types /\ job.kind = "remote" /\ job.pc = "names" /\ job \in Job
      /\ UNCHANGED <<site, cache, linked, settings, waiting, queued, editor, cat, upsets, strays>>
  BY TypeFacts DEF IInv, NamesDone, env
<1>2. /\ Detached(settings) /\ Covered(job.owned) /\ settings.mode = "remote"
      /\ job.next.mode = "remote" /\ job.next.auth = settings.auth
  BY <1>1 DEF IInv, Inner, Responsible, Sourced
<1>3. \/ /\ job.whole
         /\ job' = [job EXCEPT !.pc = "cleanup",
                               !.todo = OwnedIn(job.owned) \ MatchedIn(job.matched)]
      \/ ~job.whole /\ job' = [job EXCEPT !.pc = "save"]
  BY DEF NamesDone, MayClean
<1>4. /\ job' \in Job /\ job'.kind = "remote" /\ job'.pc \in {"cleanup", "save"}
      /\ job'.next = job.next /\ job'.owned = job.owned /\ job'.matched = job.matched
      /\ job'.whole = job.whole
      /\ job'.pc = "cleanup" => job.whole /\ job'.todo = OwnedIn(job.owned) \ MatchedIn(job.matched)
      /\ job'.pc = "save" => ~job.whole
  <2> DEFINE left == OwnedIn(job.owned) \ MatchedIn(job.matched)
  <2>1. left \subseteq Accounts
    BY DEF OwnedIn
  <2>2. \/ job.whole /\ job' = [job EXCEPT !.pc = "cleanup", !.todo = left]
        \/ ~job.whole /\ job' = [job EXCEPT !.pc = "save"]
    BY <1>3
  <2> HIDE DEF left
  <2>3. CASE job.whole /\ job' = [job EXCEPT !.pc = "cleanup", !.todo = left]
    <3>1. /\ job' \in Job /\ job'.kind = "remote" /\ job'.pc = "cleanup"
          /\ job'.next = job.next /\ job'.owned = job.owned /\ job'.matched = job.matched
          /\ job'.whole = job.whole /\ job'.todo = left
      BY <1>1, <2>1, <2>3 DEF Job, PCs
    <3> QED
      BY <2>3, <3>1 DEF left
  <2>4. CASE ~job.whole /\ job' = [job EXCEPT !.pc = "save"]
    <3>1. /\ job' \in Job /\ job'.kind = "remote" /\ job'.pc = "save"
          /\ job'.next = job.next /\ job'.owned = job.owned /\ job'.matched = job.matched
          /\ job'.whole = job.whole
      BY <1>1, <2>4 DEF Job, PCs
    <3> QED
      BY <2>4, <3>1
  <2> QED
    BY <2>2, <2>3, <2>4
<1>5. Phased' /\ Sourced'
  BY <1>1, <1>2, <1>4 DEF Phased, Sourced
<1>6. Detached(settings)' /\ Covered(job.owned)'
  BY <1>1, <1>2, <1>4 DEF Detached, Covered, OwnedIn
<1>7. Responsible' /\ Detaching'
  BY <1>4, <1>6 DEF Responsible, Detaching
<1>8. Cleaning'
  BY <1>1, <1>2, <1>4 DEF Cleaning, CompleteSyncCleans, OwnedIn, MatchedIn, Covered
<1>9. Types'
  BY <1>1, <1>4, TypeFacts, TypesKept
<1> QED
  BY <1>5, <1>7, <1>8, <1>9 DEF IInv, Inner

----------------------------------------------------------------------------
\* The steps keep the invariant: settings are saved, and the local links.

LEMMA SyncSavedStep ==
  ASSUME IInv, SyncSaved
  PROVE  IInv'
<1>1. /\ Types /\ job.kind = "remote" /\ job.pc = "save" /\ job.next \in Settings
      /\ job.owned \in Owned /\ Release /\ settings' = [job.next EXCEPT !.owned = job.owned]
      /\ strays' = strays \ OwnedIn(job.owned)
      /\ UNCHANGED <<site, cache, linked, waiting, queued, editor, cat, upsets>>
  BY TypeFacts DEF IInv, SyncSaved, env
<1>2. Covered(job.owned) /\ job.next.mode = "remote"
  BY <1>1 DEF IInv, Inner, Responsible, Sourced
<1>3. settings' \in Settings /\ settings'.mode = "remote" /\ settings'.owned = job.owned
  BY <1>1, <1>2 DEF Settings
<1>4. Detached(settings)' /\ Covered(settings.owned)'
  BY <1>1, <1>2, <1>3 DEF Detached, Covered, OwnedIn
<1>5. Inner'
  BY <1>1, <1>4, Released
<1>6. job' \in Job
  BY <1>1, IdleFacts DEF Release
<1>7. Types'
  BY <1>1, <1>3, <1>6, TypeFacts, TypesKept
<1> QED
  BY <1>5, <1>7 DEF IInv

LEMMA LocalStartStep ==
  ASSUME IInv, LocalStart
  PROVE  IInv'
<1>1. /\ Types /\ job.kind = "none" /\ linked \in Links /\ cache \in [Accounts -> Name \cup {Gone}]
      /\ queued' = {}
      /\ UNCHANGED <<site, cache, settings, waiting, editor, cat, upsets, strays>>
  BY TypeFacts DEF IInv, LocalStart, IsFree, env
<1> DEFINE m == [a \in Accounts |-> IF a \in queued /\ cache[a] # Gone THEN LocalRatio[a] ELSE None]
<1>2. m \in Links /\ \A a \in MatchedIn(m) : m[a] # None /\ cache[a] # Gone
  BY Constants DEF Links, MatchedIn
<1>3. \/ UNCHANGED <<linked, job>>
      \/ /\ settings.mode = "local" /\ linked' = Merged(m)
         /\ job' = [IdleJob EXCEPT !.kind = "local", !.pc = "names", !.matched = m,
                                   !.names = cache, !.todo = MatchedIn(m)]
  BY DEF LocalStart, LocalAllowed
<1> HIDE DEF m
<1>4. CASE UNCHANGED <<linked, job>>
  <2>1. Inner'
    BY <1>1, <1>4, QuietKeeps
  <2>2. Types'
    BY <1>1, <1>4, TypeFacts, TypesKept
  <2> QED
    BY <2>1, <2>2 DEF IInv
<1>5. CASE /\ settings.mode = "local" /\ linked' = Merged(m)
           /\ job' = [IdleJob EXCEPT !.kind = "local", !.pc = "names", !.matched = m,
                                     !.names = cache, !.todo = MatchedIn(m)]
  <2>1. MatchedIn(m) \subseteq Accounts /\ IdleJob \in Job
    BY IdleFacts DEF MatchedIn
  <2>2. /\ job' \in Job /\ job'.kind = "local" /\ job'.pc = "names" /\ job'.matched = m
        /\ job'.names = cache /\ job'.todo = MatchedIn(m)
    BY <1>1, <1>2, <1>5, <2>1 DEF Job, Kinds, PCs
  <2>3. linked' \in Links
    BY <1>1, <1>2, <1>5, MergedFacts
  <2>4. Phased'
    BY <1>1, <1>2, <1>5, <2>2 DEF Phased
  <2>5. Detached(settings)'
    BY <1>1 DEF IInv, Inner, Responsible, Detached, OwnedIn
  <2>6. Sourced' /\ Responsible' /\ Cleaning' /\ Detaching'
    BY <1>1, <1>5, <2>2, <2>5
       DEF Sourced, Responsible, Cleaning, Detaching, CompleteSyncCleans
  <2>7. Types'
    BY <1>1, <2>2, <2>3, TypeFacts, TypesKept
  <2> QED
    BY <2>4, <2>6, <2>7 DEF IInv, Inner
<1> QED
  BY <1>3, <1>4, <1>5

LEMMA LocalDoneStep ==
  ASSUME IInv, LocalDone
  PROVE  IInv'
<1>1. /\ Types /\ job.kind = "local" /\ Release
      /\ UNCHANGED <<site, cache, linked, settings, waiting, queued, editor, cat, upsets, strays>>
  BY DEF IInv, LocalDone, env
<1>2. settings.mode = "local" /\ Detached(settings)
  BY <1>1 DEF IInv, Inner, Phased, Responsible
<1>3. Detached(settings)' /\ settings'.mode # "remote"
  BY <1>1, <1>2 DEF Detached, OwnedIn
<1>4. Inner'
  BY <1>1, <1>3, Released
<1>5. job' \in Job
  BY <1>1, IdleFacts DEF Release
<1>6. Types'
  BY <1>1, <1>5, TypeFacts, TypesKept
<1> QED
  BY <1>4, <1>6 DEF IInv

LEMMA TargetFacts ==
  ASSUME NEW target \in Targets
  PROVE  target \in Settings /\ target.owned = NoneOwned
<1>1. NoneOwned \in Owned
  BY IdleFacts
<1>2. ASSUME NEW mode \in {"local", "remote"}, NEW auth \in BOOLEAN, NEW state \in {"", "authorized"}
      PROVE  [mode |-> mode, auth |-> auth, owned |-> NoneOwned, state |-> state] \in Settings
  BY <1>1 DEF Settings
<1>3. /\ [mode |-> "remote", auth |-> TRUE,  owned |-> NoneOwned, state |-> "authorized"] \in Settings
      /\ [mode |-> "remote", auth |-> FALSE, owned |-> NoneOwned, state |-> ""] \in Settings
      /\ [mode |-> "local",  auth |-> FALSE, owned |-> NoneOwned, state |-> ""] \in Settings
  BY <1>2
<1>4. \/ target = [mode |-> "remote", auth |-> TRUE,  owned |-> NoneOwned, state |-> "authorized"]
      \/ target = [mode |-> "remote", auth |-> FALSE, owned |-> NoneOwned, state |-> ""]
      \/ target = [mode |-> "local",  auth |-> FALSE, owned |-> NoneOwned, state |-> ""]
  BY DEF Targets
<1>5. target \in Settings
  BY <1>3, <1>4, Zenon
<1>6. target.owned = NoneOwned
  <2>1. ASSUME NEW mode, NEW auth, NEW state
        PROVE  [mode |-> mode, auth |-> auth, owned |-> NoneOwned, state |-> state].owned = NoneOwned
    OBVIOUS
  <2> QED
    BY <1>4, <2>1, Zenon
<1> QED
  BY <1>5, <1>6

\* What the remote source takes over from the local channels.
LEMMA SeededFacts ==
  ASSUME Types, NEW target \in Targets
  PROVE  /\ Seeded(target) \in Owned
         /\ target.mode = "local" => \A a \in Accounts : Seeded(target)[a] = Free
         /\ settings.mode = "local" /\ target.mode = "remote" =>
              \A a \in Accounts : linked[a] # None => Seeded(target)[a] # Free
         /\ [target EXCEPT !.owned = Seeded(target)] \in Settings
         /\ [target EXCEPT !.owned = Seeded(target)].mode = target.mode
         /\ [target EXCEPT !.owned = Seeded(target)].owned = Seeded(target)
<1>1. cache \in [Accounts -> Name \cup {Gone}]
  BY TypeFacts
<1>2. \A a \in Accounts : cache[a].tag # None => cache[a] \in Name /\ cache[a] # Free
  BY <1>1, NotFree
<1>3. Seeded(target) \in Owned
  BY <1>2 DEF Seeded, Owned
<1>4. /\ target.mode = "local" => \A a \in Accounts : Seeded(target)[a] = Free
      /\ settings.mode = "local" /\ target.mode = "remote" =>
           \A a \in Accounts : linked[a] # None => Seeded(target)[a] # Free
  BY <1>2, NotFree DEF Seeded
<1>5. target \in Settings
  BY TargetFacts
<1> QED
  BY <1>3, <1>4, <1>5 DEF Settings

LEMMA ConfigStartStep ==
  ASSUME IInv, ConfigStart
  PROVE  IInv'
<1>1. /\ Types /\ job.kind = "none" /\ settings \in Settings /\ settings.owned \in Owned
      /\ Detached(settings)
      /\ settings.mode = "remote" => Covered(settings.owned)
      /\ UNCHANGED <<cat, site, cache, linked, settings, waiting, queued, editor, strays>>
  BY TypeFacts DEF IInv, Inner, Responsible, ConfigStart, IsFree
<1>2. PICK target \in Targets :
        job' = [IdleJob EXCEPT
         !.kind = "config", !.next = [target EXCEPT !.owned = Seeded(target)],
         !.owned = settings.owned,
         !.pc = IF Detaches THEN "cleanup" ELSE "save",
         !.todo = IF Detaches THEN OwnedIn(settings.owned) ELSE {}]
  BY DEF ConfigStart
<1> DEFINE next == [target EXCEPT !.owned = Seeded(target)]
           pc == IF Detaches THEN "cleanup" ELSE "save"
           todo == IF Detaches THEN OwnedIn(settings.owned) ELSE {}
<1>3. /\ next \in Settings /\ next.mode = target.mode /\ next.owned = Seeded(target)
  BY <1>1, SeededFacts
<1>4. /\ todo \subseteq Accounts /\ pc \in {"cleanup", "save"}
      /\ pc = "cleanup" => settings.mode = "remote" /\ todo = OwnedIn(settings.owned)
      /\ pc = "save" => settings.mode = "local"
  BY <1>1 DEF Detaches, Detached, OwnedIn, Settings
<1>5. job' = [IdleJob EXCEPT !.kind = "config", !.next = next, !.owned = settings.owned,
                             !.pc = pc, !.todo = todo]
  BY <1>2
<1> HIDE DEF next, pc, todo
<1>6. /\ job' \in Job /\ job'.kind = "config" /\ job'.pc = pc /\ job'.todo = todo
      /\ job'.next = next
  <2>1. IdleJob \in Job
    BY IdleFacts
  <2> QED
    BY <1>1, <1>3, <1>4, <1>5, <2>1 DEF Job, Kinds, PCs
<1>7. Phased' /\ Sourced'
  BY <1>4, <1>6 DEF Phased, Sourced
<1>8. Responsible' /\ Cleaning'
  BY <1>1, <1>6 DEF Responsible, Detached, Covered, OwnedIn, Cleaning, CompleteSyncCleans
<1>9. Detaching'
  <2>1. Detached(job.next)'
    BY <1>1, <1>3, <1>6, SeededFacts DEF Detached, OwnedIn
  <2>2. pc = "save" /\ next.mode = "remote" => Covered(job.next.owned)'
    BY <1>1, <1>3, <1>4, <1>6, SeededFacts DEF Covered
  <2> QED
    BY <1>1, <1>4, <1>6, <2>1, <2>2 DEF Detaching, OwnedIn
<1>10. upsets' \in 0..MaxUpsets
  BY <1>1, UpsetKept DEF ConfigStart
<1>11. Types'
  BY <1>1, <1>6, <1>10, TypeFacts, TypesKept
<1> QED
  BY <1>7, <1>8, <1>9, <1>11 DEF IInv, Inner

LEMMA ConfigEndStep ==
  ASSUME IInv, ConfigRefused \/ ConfigSaved
  PROVE  IInv'
<1>1. /\ Types /\ job.kind = "config" /\ job.pc = "save" /\ Release
      /\ settings \in Settings /\ job.next \in Settings
      /\ UNCHANGED <<site, cache, linked, waiting, queued, editor, cat, upsets>>
      /\ \/ settings' = settings /\ strays' = strays
         \/ settings' = job.next /\ strays' = strays \ OwnedIn(job.next.owned)
  BY TypeFacts DEF IInv, ConfigRefused, ConfigSaved, env
<1>2. /\ Detached(settings) /\ Detached(job.next)
      /\ settings.mode = "remote" => Covered(settings.owned)
      /\ job.next.mode = "remote" => Covered(job.next.owned)
  BY <1>1 DEF IInv, Inner, Responsible, Detaching
<1>3. Detached(settings)'
  BY <1>1, <1>2 DEF Detached, OwnedIn
<1>4. (settings.mode = "remote" => Covered(settings.owned))'
  BY <1>1, <1>2 DEF Covered, OwnedIn
<1>5. Inner'
  BY <1>1, <1>3, <1>4, Released
<1>6. job' \in Job /\ strays' \subseteq Accounts
  BY <1>1, TypeFacts, IdleFacts DEF Release
<1>7. Types'
  BY <1>1, <1>6, TypeFacts, TypesKept
<1> QED
  BY <1>5, <1>7 DEF IInv

----------------------------------------------------------------------------
LEMMA InitHolds == Init => IInv
<1> SUFFICES ASSUME Init PROVE IInv
  OBVIOUS
<1>1. /\ linked = NoLinks /\ settings \in Targets /\ job = IdleJob /\ cat \in Catalogues
      /\ cache = site /\ waiting = FALSE /\ queued = {} /\ upsets = 0 /\ strays = {}
      /\ editor = [on |-> FALSE, linked |-> NoLinks]
  BY DEF Init
<1>2. settings \in Settings /\ settings.owned = NoneOwned
  BY <1>1, TargetFacts
<1>3. site \in [Accounts -> Name \cup {Gone}]
  <2>1. (CHOOSE b \in Bases : TRUE) \in Bases
    BY Constants
  <2> QED
    BY <2>1 DEF Init, Name
<1>4. editor \in [on : BOOLEAN, linked : Links] /\ 0 \in 0..MaxUpsets
  BY <1>1, IdleFacts, EditorFacts, Constants
<1>5. Types
  BY <1>1, <1>2, <1>3, <1>4, IdleFacts DEF Types, TypeOK, Job
<1>6. Detached(settings) /\ Covered(settings.owned)
  BY <1>1, <1>2 DEF Detached, Covered, OwnedIn, NoneOwned, NoLinks
<1>7. Inner
  BY <1>1, <1>6, IdleFacts, IsIdle DEF Inner
<1> QED
  BY <1>5, <1>7 DEF IInv

LEMMA StutterKeeps == IInv /\ UNCHANGED vars => IInv'
<1> SUFFICES ASSUME IInv, UNCHANGED vars PROVE IInv'
  OBVIOUS
<1>1. Inner'
  BY QuietKeeps DEF vars
<1>2. Types'
  BY DEF vars, IInv, Types, TypeOK
<1> QED
  BY <1>1, <1>2 DEF IInv

LEMMA NextKeeps == IInv /\ [Next]_vars => IInv'
<1> SUFFICES ASSUME IInv, [Next]_vars PROVE IInv'
  OBVIOUS
<1>1. ASSUME JobStep PROVE IInv'
  BY <1>1, NameOneStep, CleanOneStep, CleanedStep, AnswerStep, NamesDoneStep, SyncSavedStep,
     LocalDoneStep, ConfigEndStep, Zenon DEF JobStep
<1>2. ASSUME Next PROVE IInv'
  BY <1>1, <1>2, EnvironmentStep, EditorSavesStep, UserStep, DiesStep, SyncStartStep,
     AskFailsStep, LocalStartStep, ConfigStartStep, TestedStep, Zenon DEF Next
<1> QED
  BY <1>2, StutterKeeps

LEMMA Inductive == Spec => []IInv
<1> QED
  BY InitHolds, NextKeeps, PTL DEF Spec

----------------------------------------------------------------------------
\* The types: no step gives an account a multiplier, a name or an owner that the configuration
\* does not have, nor a job fields its kind may not hold.
THEOREM TypeCorrect == Spec => []TypeOK
<1>1. IInv => TypeOK
  BY DEF IInv, Types
<1> QED
  BY Inductive, <1>1, PTL

\* removeMissingRemoteAccounts: after a sync with two complete snapshots the policy holds no
\* multiplier that it did not match, those inherited from the local channels included, whatever
\* died, failed or was edited before; only what a dead job or an outdated editor left without
\* an owner may remain.
THEOREM CleansComplete == Spec => []CompleteSyncCleans
<1>1. IInv => CompleteSyncCleans
  BY DEF IInv, Inner, Cleaning
<1> QED
  BY Inductive, <1>1, PTL

\* An incomplete answer of G1 takes no multiplier away, nor does an account whose credentials
\* could not be read: no step but an editor's, a detach and a complete sync does.
THEOREM SnapshotKeeps == Spec => SnapshotKept
<1> DEFINE Kept == \A a \in Accounts :
                     linked[a] # None /\ linked'[a] = None =>
                       \/ editor.on /\ ~editor'.on
                       \/ job.kind = "config"
                       \/ /\ job.kind = "remote"
                          /\ job.whole
<1>1. ASSUME IInv, Next PROVE Kept
  <2>1. linked \in Links /\ Types /\ job.kind \in Kinds
    BY <1>1, TypeFacts DEF IInv, Types, TypeOK
  <2>2. CASE EditorSaves
    <3>1. editor.on /\ editor'.on = FALSE
      BY <2>2 DEF EditorSaves
    <3> QED
      BY <3>1
  <2>3. CASE Cleaned
    <3>1. job.pc = "cleanup"
      BY <2>3 DEF Cleaned
    <3>2. job.kind \in {"config", "remote"}
      BY <1>1, <2>1, <3>1 DEF IInv, Inner, Phased, Kinds
    <3>3. job.kind = "remote" => job.whole
      BY <1>1, <3>1 DEF IInv, Inner, Cleaning
    <3> QED
      BY <3>2, <3>3
  <2>4. CASE Answer
    <3>1. PICK have \in Readable :
            linked' = Merged([a \in Accounts |->
                                IF a \in have \cap Present THEN Match(cat, a) ELSE None])
      BY <2>4, Zenon DEF Answer
    <3>2. \A m : \A a \in Accounts : linked[a] # None => Merged(m)[a] # None
      BY DEF Merged
    <3> QED
      BY <3>1, <3>2
  <2>5. CASE LocalStart
    <3>1. \/ linked' = linked
          \/ linked' = Merged([a \in Accounts |->
                                IF a \in queued /\ cache[a] # Gone THEN LocalRatio[a] ELSE None])
      BY <2>5, Zenon DEF LocalStart
    <3>2. \A m : \A a \in Accounts : linked[a] # None => Merged(m)[a] # None
      BY DEF Merged
    <3> QED
      BY <3>1, <3>2
  <2>6. CASE UNCHANGED linked
    BY <2>6
  <2>7. EditorSaves \/ Cleaned \/ Answer \/ LocalStart \/ UNCHANGED linked
    <3>1. ASSUME JobStep PROVE Cleaned \/ Answer \/ UNCHANGED linked
      BY <3>1, Zenon DEF JobStep, NameOne, CleanOne, NamesDone, SyncSaved, LocalDone,
                         ConfigRefused, ConfigSaved
    <3> QED
      BY <1>1, <3>1, Zenon
         DEF Next, G1Changes, CatalogSync, EditorReads, BecomesCalm, UserRenames, UserDeletes,
             Dies, SyncWanted, SyncStart, AskFails, LocalFound, ConfigStart, Tested
  <2> QED
    BY <2>2, <2>3, <2>4, <2>5, <2>6, <2>7
<1>2. IInv /\ [Next]_vars => [Kept]_vars
  BY <1>1
<1> QED
  BY Inductive, <1>2, PTL DEF Spec, SnapshotKept

\* UpdateMultiplierSourceSettings alone changes where the multipliers come from: a sync that
\* waited for the lock does not bring earlier settings back, and a local channel that waited
\* writes nothing once the source is remote.
THEOREM SourceKeeps == Spec => SourceKept
<1> DEFINE Kept == job.kind # "config" => /\ settings'.mode = settings.mode
                                          /\ settings'.auth = settings.auth
<1>1. ASSUME IInv, Next PROVE Kept
  <2>1. settings \in Settings /\ job.next \in Settings /\ Types
    BY <1>1, TypeFacts DEF IInv
  <2>2. job.kind = "remote" => job.next.mode = settings.mode /\ job.next.auth = settings.auth
    BY <1>1 DEF IInv, Inner, Sourced
  <2>3. job.pc = "ask" => job.kind = "remote"
    BY <1>1, <2>1 DEF IInv, Inner, Phased, Types, TypeOK, Kinds
  <2>4. \/ UNCHANGED settings
        \/ RecordError(settings)
        \/ job.kind = "remote" /\ RecordError(job.next)
        \/ job.kind = "remote" /\ settings' = [job.next EXCEPT !.owned = job.owned]
        \/ settings' = [settings EXCEPT !.state = IndexState(cat)]
        \/ job.kind = "config"
    <3>1. ASSUME JobStep
          PROVE  \/ UNCHANGED settings
                 \/ job.kind = "remote" /\ settings' = [job.next EXCEPT !.owned = job.owned]
                 \/ job.kind = "config"
      BY <3>1, Zenon DEF JobStep, NameOne, CleanOne, Cleaned, Answer, NamesDone, SyncSaved,
                         LocalDone, ConfigRefused, ConfigSaved
    <3>2. Dies => UNCHANGED settings \/ RecordError(settings)
      BY DEF Dies
    <3>3. SyncStart => UNCHANGED settings \/ RecordError(settings)
      BY DEF SyncStart, Reread
    <3>4. AskFails => job.kind = "remote" /\ RecordError(job.next)
      BY <2>3 DEF AskFails
    <3>5. Tested => settings' = [settings EXCEPT !.state = IndexState(cat)]
      BY DEF Tested
    <3> QED
      BY <1>1, <3>1, <3>2, <3>3, <3>4, <3>5, Zenon
         DEF Next, G1Changes, CatalogSync, EditorReads, EditorSaves, BecomesCalm, UserRenames,
             UserDeletes, SyncWanted, LocalFound, LocalStart, ConfigStart
  <2>5. \A s \in Settings : \A o : /\ [s EXCEPT !.owned = o].mode = s.mode
                                   /\ [s EXCEPT !.owned = o].auth = s.auth
    BY DEF Settings
  <2>6. \A s \in Settings : \A x : /\ [s EXCEPT !.state = x].mode = s.mode
                                   /\ [s EXCEPT !.state = x].auth = s.auth
    BY DEF Settings
  <2>7. RecordError(settings) => Kept
    BY <2>1, <2>6 DEF RecordError
  <2>8. job.kind = "remote" /\ RecordError(job.next) => Kept
    BY <2>1, <2>2, <2>6 DEF RecordError
  <2>9. job.kind = "remote" /\ settings' = [job.next EXCEPT !.owned = job.owned] => Kept
    BY <2>1, <2>2, <2>5
  <2>10. settings' = [settings EXCEPT !.state = IndexState(cat)] => Kept
    BY <2>1, <2>6
  <2> QED
    BY <2>4, <2>7, <2>8, <2>9, <2>10
<1>2. IInv /\ [Next]_vars => [Kept]_vars
  BY <1>1
<1>3. IInv => (job.kind = "local" => settings.mode = "local")
  BY DEF IInv, Inner, Phased
<1> QED
  BY Inductive, <1>2, <1>3, PTL DEF Spec, SourceKept
=============================================================================
