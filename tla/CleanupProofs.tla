---------------------------- MODULE CleanupProofs ----------------------------
(***************************************************************************)
(* Proofs about Cleanup, for any channels, groups, quota and observation   *)
(* time and any number of failures, crashes and requests: no group loses   *)
(* its last member to one round, and nobody is taken out before the        *)
(* observation time.                                                       *)
(***************************************************************************)
EXTENDS Cleanup, TLAPS

\* Before the verdicts of a round there is nothing to handle.
Fresh ==
  phase \in {"idle", "collect"} =>
    /\ queue = {} /\ done = {} /\ taken = {} /\ clear = {} /\ job = NoJob /\ blind = FALSE

\* The candidate that executeCleanup is working on.
InHand(c) == At(job.at, c) /\ job.at # "pick"

\* What took effect is counted, or about to be, unless it was reported as failed.
Accounted ==
  ~blind => \A c \in taken :
    \/ c \in done
    \/ InHand(c) /\ (job.at \in {"rollback", "drop"} \/ (job.at = "send" /\ action = "pause"))

\* A candidate in hand has passed the guard of executeCleanup.
Guarded == KeepLast => \A c \in Channels : InHand(c) => ~LastOfAGroup(c)

\* The channels dealt with leave a member in each of their groups.
Spared ==
  KeepLast =>
    \A c \in done : \A g \in GroupsOf[c] : Members(g) \ (seen.excluded \cup done) # {}

\* Only a pause saves the row.
Pausing == job.at = "save" => action = "pause"

\* An observation time is never older than the verdicts allow, unless one was overwritten.
Observing ==
  /\ \A c \in Channels \ stale : since[c] <= okAgo[c]
  /\ phase # "idle" =>
       \A c \in Channels : 1 <= okAgo[c] /\ (c \notin stale => mem[c] <= okAgo[c])
  /\ \A c \in clear : mem[c] = 0
  /\ \A c \in queue : mem[c] > MinAge

SpareInv   == TypeOK /\ Fresh /\ Accounted /\ Guarded /\ Spared /\ Pausing
ObserveInv == TypeOK /\ Fresh /\ Observing

----------------------------------------------------------------------------
\* Types.

\* No request is a request.
LEMMA NoOpType == NoOp \in Ops
BY CleanupAssumption DEF NoOp, Ops, NoJob, Row, Ages

\* The types hold at the start.
LEMMA InitType == Init => TypeOK /\ Fresh
<1> SUFFICES ASSUME Init PROVE TypeOK /\ Fresh
  OBVIOUS
<1> USE CleanupAssumption DEF Init
<1>1. /\ action \in Actions /\ site \in [Channels -> Site] /\ row \in Row
      /\ scope \in SUBSET Channels /\ base \in SUBSET Channels
  BY DEF Site, Row
<1>2. since \in [Channels -> Ages] /\ mem \in [Channels -> Ages] /\ okAgo \in [Channels -> Ages]
  BY DEF Idle, Ages
<1>3. seen \in Seen /\ queue \in SUBSET seen.members /\ done \in SUBSET seen.members
  BY DEF NoSeen, Seen
<1>4. job \in [at : Steps, row : Row]
  BY DEF NoJob, Steps, Row
<1>5. op \in Ops
  BY NoOpType
<1>6. upsets \in 0..MaxUpsets
  OBVIOUS
<1>7. /\ taken \in SUBSET Channels /\ blind \in BOOLEAN /\ clear \in SUBSET seen.members
      /\ stale \in SUBSET Channels
  BY Zenon
<1>8. Fresh
  BY DEF Fresh
<1> QED
  BY <1>1, <1>2, <1>3, <1>4, <1>5, <1>6, <1>7, <1>8 DEF TypeOK

\* Ages stay in their range.
LEMMA Aging ==
  ASSUME NEW n \in Ages
  PROVE  Older(n) \in Ages /\ Aged(n) \in Ages /\ 1 <= Older(n) /\ Aged(n) <= Older(n)
BY CleanupAssumption DEF Older, Aged, Ages

\* Ageing keeps an order.
LEMMA AgingOrder ==
  ASSUME NEW m \in Ages, NEW n \in Ages, m <= n
  PROVE  Aged(m) <= Older(n)
BY CleanupAssumption DEF Older, Aged, Ages

\* The end of a round keeps the types of what it resets.
LEMMA RoundOverType ==
  ASSUME RoundOver
  PROVE  /\ phase' = "idle" /\ Fresh' /\ seen' \in Seen /\ mem' \in [Channels -> Ages]
         /\ queue' \in SUBSET seen'.members /\ done' \in SUBSET seen'.members
         /\ job' \in [at : Steps, row : Row] /\ taken' \in SUBSET Channels
         /\ blind' \in BOOLEAN /\ clear' \in SUBSET seen'.members
<1> USE CleanupAssumption DEF RoundOver
<1>1. Fresh'
  BY DEF Fresh
<1>2. seen' \in Seen
  BY DEF NoSeen, Seen
<1>3. mem' \in [Channels -> Ages]
  BY DEF Idle, Ages
<1>4. job' \in [at : Steps, row : Row]
  BY DEF NoJob, Steps, Row
<1> QED
  BY <1>1, <1>2, <1>3, <1>4

\* A job that goes on, or is over, stays a job.
LEMMA JobType ==
  ASSUME TypeOK, NEW c \in queue, UNCHANGED seen,
         (\E s \in Steps : Goto(s)) \/ Left(c) \/ Dealt(c)
  PROVE  /\ queue' \in SUBSET seen'.members /\ done' \in SUBSET seen'.members
         /\ job' \in [at : Steps, row : Row]
<1>1. NoJob \in [at : Steps, row : Row]
  BY DEF NoJob, Steps, Row
<1>2. CASE Left(c)
  BY <1>1, <1>2 DEF Left, TypeOK
<1>3. CASE Dealt(c)
  BY <1>1, <1>3 DEF Dealt, TypeOK
<1>4. ASSUME NEW s \in Steps, Goto(s) PROVE job' \in [at : Steps, row : Row]
  BY <1>4 DEF Goto, TypeOK
<1>5. ASSUME NEW s \in Steps, Goto(s) PROVE UNCHANGED <<queue, done>>
  BY <1>5 DEF Goto
<1> QED
  BY <1>2, <1>3, <1>4, <1>5 DEF TypeOK

\* Whatever a candidate's step does, it goes on with the candidate or is over with it.
LEMMA HandleMoves ==
  ASSUME TypeOK, NEW c \in Channels, Handle(c)
  PROVE  /\ c \in queue /\ phase = "clean"
         /\ UNCHANGED <<action, scope, since, phase, seen, mem, op>>
         /\ clear' = clear /\ okAgo' = okAgo /\ stale' = stale
         /\ upsets' \in 0..MaxUpsets
         /\ queue' \in SUBSET seen'.members /\ done' \in SUBSET seen'.members
         /\ job' \in [at : Steps, row : Row]
<1> USE CleanupAssumption DEF At, history
<1> DEFINE Moves == (\E s \in Steps : Goto(s)) \/ Left(c) \/ Dealt(c)
           Started == job' \in [at : Steps, row : Row] /\ UNCHANGED <<queue, done>>
           Frame == /\ c \in queue /\ phase = "clean"
                    /\ UNCHANGED <<action, scope, since, phase, seen, mem, op>>
                    /\ clear' = clear /\ okAgo' = okAgo /\ stale' = stale
                    /\ upsets' \in 0..MaxUpsets
<1>0. /\ upsets \in 0..MaxUpsets
      /\ Upset => upsets' \in 0..MaxUpsets
  BY DEF TypeOK, Upset
<1>1. ASSUME Pick(c) PROVE Frame /\ Moves
  BY <1>0, <1>1 DEF Pick, Steps
<1>2. ASSUME ReadRow(c)
      PROVE  Frame /\ (Moves \/ Started)
  <2>1. Frame /\ c \in row.paused => Left(c)
    BY <1>0, <1>2 DEF ReadRow
  <2>2. Frame
    BY <1>0, <1>2 DEF ReadRow
  <2>3. CASE c \notin row.paused
    <3>1. job' = [at |-> "intent", row |-> row] /\ UNCHANGED <<queue, done>>
      BY <1>2, <2>3 DEF ReadRow
    <3>2. job' \in [at : Steps, row : Row]
      BY <3>1 DEF TypeOK, Steps
    <3> QED
      BY <2>2, <3>1, <3>2
  <2> QED
    BY <2>1, <2>2, <2>3
<1>3. ASSUME Intent(c) PROVE Frame /\ Moves
  BY <1>0, <1>3 DEF Intent, Steps
<1>4. ASSUME SaveRow(c) PROVE Frame /\ Moves
  BY <1>0, <1>4 DEF SaveRow, Steps
<1>5. ASSUME Send(c) PROVE Frame /\ Moves
  BY <1>0, <1>5 DEF Send, Steps
<1>6. ASSUME SendLost(c) PROVE Frame /\ Moves
  BY <1>0, <1>6 DEF SendLost, Steps
<1>7. ASSUME Rollback(c) PROVE Frame /\ Moves
  BY <1>0, <1>7 DEF Rollback
<1>8. ASSUME Predisable(c) PROVE Frame /\ Moves
  BY <1>0, <1>8 DEF Predisable, Steps
<1>9. ASSUME Delete(c) PROVE Frame /\ Moves
  BY <1>0, <1>9 DEF Delete, Steps
<1>10. ASSUME DeleteLost(c) PROVE Frame /\ Moves
  BY <1>0, <1>10 DEF DeleteLost
<1>11. ASSUME Drop(c) PROVE Frame /\ Moves
  BY <1>0, <1>11 DEF Drop
<1>12. ASSUME StoreFails(c) PROVE Frame /\ Moves
  BY <1>0, <1>12 DEF StoreFails
<1>13. Frame /\ (Moves \/ Started)
  <2> HIDE DEF Frame, Moves, Started
  <2> QED
    BY <1>1, <1>2, <1>3, <1>4, <1>5, <1>6, <1>7, <1>8, <1>9, <1>10, <1>11, <1>12 DEF Handle
<1>14. CASE Moves
  BY <1>13, <1>14, JobType
<1>15. CASE Started
  BY <1>13, <1>15 DEF TypeOK
<1> QED
  BY <1>13, <1>14, <1>15

\* It keeps the types of what it writes.
LEMMA HandleWrites ==
  ASSUME TypeOK, NEW c \in Channels, Handle(c)
  PROVE  /\ site' \in [Channels -> Site] /\ row' \in Row /\ base' \in SUBSET Channels
         /\ taken' \in SUBSET Channels /\ blind' \in BOOLEAN
<1> USE CleanupAssumption DEF TypeOK, history
<1>1. /\ [site EXCEPT ![c].up = FALSE] \in [Channels -> Site]
      /\ [site EXCEPT ![c].active = FALSE] \in [Channels -> Site]
      /\ [site EXCEPT ![c].there = FALSE] \in [Channels -> Site]
  <2>1. site[c] \in Site
    OBVIOUS
  <2>2. /\ [site[c] EXCEPT !.up = FALSE] \in Site
        /\ [site[c] EXCEPT !.active = FALSE] \in Site
        /\ [site[c] EXCEPT !.there = FALSE] \in Site
    BY <2>1 DEF Site
  <2> QED
    BY <2>2
<1>2. job.row \in Row
  OBVIOUS
<1>3. ASSUME NEW r \in Row
      PROVE  /\ [r EXCEPT !.paused = @ \cup {c}] \in Row
             /\ [r EXCEPT !.paused = @ \ {c}] \in Row
  BY DEF Row
<1>4. CASE Pick(c)
  BY <1>4 DEF Pick
<1>5. CASE ReadRow(c)
  BY <1>5 DEF ReadRow
<1>6. CASE Intent(c)
  BY <1>6 DEF Intent
<1>7. CASE SaveRow(c)
  BY <1>2, <1>3, <1>7 DEF SaveRow
<1>8. CASE Send(c)
  BY <1>1, <1>8 DEF Send
<1>9. CASE SendLost(c)
  BY <1>9 DEF SendLost
<1>10. CASE Rollback(c)
  BY <1>2, <1>3, <1>10 DEF Rollback
<1>11. CASE Predisable(c)
  <2>1. UNCHANGED <<row, base, taken, blind>>
    BY <1>11 DEF Predisable
  <2>2. site' = [site EXCEPT ![c].up = FALSE] \/ site' = site
    BY <1>11 DEF Predisable
  <2>3. site' \in [Channels -> Site]
    BY <1>1, <2>2
  <2> QED
    BY <2>1, <2>3
<1>12. CASE Delete(c)
  BY <1>1, <1>12 DEF Delete
<1>13. CASE DeleteLost(c)
  BY <1>13 DEF DeleteLost
<1>14. CASE Drop(c)
  BY <1>14 DEF Drop
<1>15. CASE StoreFails(c)
  BY <1>15 DEF StoreFails
<1> QED
  BY <1>4, <1>5, <1>6, <1>7, <1>8, <1>9, <1>10, <1>11, <1>12, <1>13, <1>14, <1>15 DEF Handle

\* Every step keeps the types.
LEMMA NextType == TypeOK /\ Fresh /\ [Next]_vars => TypeOK' /\ Fresh'
<1> SUFFICES ASSUME TypeOK, Fresh, [Next]_vars PROVE TypeOK' /\ Fresh'
  OBVIOUS
<1> USE CleanupAssumption
<1>1. CASE BeginRound
  <2>1. /\ since' \in [Channels -> Ages] /\ mem' \in [Channels -> Ages]
        /\ okAgo' \in [Channels -> Ages]
    BY <1>1, Aging DEF BeginRound, TypeOK, Ages
  <2>2. seen' \in Seen
    BY <1>1 DEF BeginRound, TypeOK, Seen, Row
  <2>3. queue' = {} /\ done' = {} /\ clear' = {} /\ phase' = "collect"
    BY <1>1 DEF BeginRound, Fresh
  <2>4. op' \in Ops
    <3>1. op \in Ops /\ op.since \in Ages
      BY DEF TypeOK, Ops
    <3> QED
      BY <1>1, <3>1, Aging DEF BeginRound, Ops
  <2> QED
    BY <1>1, <2>1, <2>2, <2>3, <2>4 DEF BeginRound, TypeOK, Fresh
<1>2. CASE Judge
  <2> PICK failing \in SUBSET seen.members :
        \E flip \in SUBSET Flippable(Candidates(Verdict(failing), failing)),
           back \in SUBSET {c \in seen.excluded \cap base : site[c].there} :
          /\ mem' = Verdict(failing)
          /\ queue' = Candidates(Verdict(failing), failing)
          /\ seen' = [seen EXCEPT !.up = (@ \ flip) \cup (flip \ @)]
          /\ site' = Switched(flip, back)
          /\ base' = (base \cup flip) \ back
          /\ clear' = seen.members \ (failing \ seen.excluded)
    BY <1>2 DEF Judge
  <2>1. PICK flip \in SUBSET Flippable(Candidates(Verdict(failing), failing)),
             back \in SUBSET {c \in seen.excluded \cap base : site[c].there} :
          /\ mem' = Verdict(failing)
          /\ queue' = Candidates(Verdict(failing), failing)
          /\ seen' = [seen EXCEPT !.up = (@ \ flip) \cup (flip \ @)]
          /\ site' = Switched(flip, back)
          /\ base' = (base \cup flip) \ back
          /\ clear' = seen.members \ (failing \ seen.excluded)
    OBVIOUS
  <2>5. flip \in SUBSET Channels /\ queue' \in SUBSET seen.members
    BY <2>1 DEF Flippable, Candidates, TypeOK, Seen
  <2>2. mem' \in [Channels -> Ages]
    <3>1. mem \in [Channels -> Ages] /\ 0 \in Ages /\ 1 \in Ages
      BY DEF TypeOK, Ages
    <3>2. \A c \in Channels : Observed(c, failing) \in Ages
      BY <3>1 DEF Observed
    <3> QED
      BY <2>1, <3>1, <3>2 DEF Verdict
  <2>3. seen' \in Seen /\ seen'.members = seen.members
    BY <2>1, <2>5 DEF TypeOK, Seen
  <2>4. site' \in [Channels -> Site]
    <3>1. ASSUME NEW c \in Channels
          PROVE  /\ [site[c] EXCEPT !.up = c \notin seen.up] \in Site
                 /\ [site[c] EXCEPT !.active = TRUE, !.up = TRUE] \in Site
                 /\ site[c] \in Site
      <4>1. site[c] \in Site
        BY DEF TypeOK
      <4>2. (c \notin seen.up) \in BOOLEAN
        OBVIOUS
      <4> QED
        BY <4>1, <4>2 DEF Site
    <3> QED
      BY <2>1, <3>1 DEF Switched
  <2> QED
    BY <1>2, <2>1, <2>2, <2>3, <2>4, <2>5 DEF Judge, TypeOK, Fresh
<1>3. ASSUME NEW c \in Channels, Handle(c) PROVE TypeOK' /\ Fresh'
  <2>1. TypeOK'
    BY <1>3, HandleMoves, HandleWrites DEF TypeOK
  <2>2. Fresh'
    BY <1>3, HandleMoves DEF Fresh
  <2> QED
    BY <2>1, <2>2
<1>4. CASE EndClean
  BY <1>4 DEF EndClean, TypeOK, Fresh, history
<1>5. CASE Persist
  <2>1. since' \in [Channels -> Ages] /\ okAgo' \in [Channels -> Ages]
    BY <1>5 DEF Persist, TypeOK, Ages
  <2>2. upsets' \in 0..MaxUpsets
    BY <1>5 DEF Persist, TypeOK, Upset
  <2>3. RoundOver
    BY <1>5 DEF Persist
  <2> QED
    BY <1>5, <2>1, <2>2, <2>3, RoundOverType DEF Persist, TypeOK
<1>6. CASE Abort
  <2>1. RoundOver
    BY <1>6 DEF Abort
  <2> QED
    BY <1>6, <2>1, RoundOverType DEF Abort, Upset, TypeOK
<1>7. CASE SaveEdit
  BY <1>7, NoOpType DEF SaveEdit, TypeOK, Fresh, Ops, round, history
<1>8. CASE Crash
  <2>1. RoundOver
    BY <1>8 DEF Crash
  <2>2. op' \in Ops
    BY <1>8, NoOpType DEF Crash
  <2> QED
    BY <1>8, <2>1, <2>2, RoundOverType DEF Crash, Upset, TypeOK
<1>9. ASSUME NEW c \in Channels, AdminEdit(c) PROVE TypeOK' /\ Fresh'
  <2>1. site' \in [Channels -> Site] /\ scope' \in SUBSET Channels
    <3>1. site[c] \in Site /\ site[c].active \in BOOLEAN
      BY DEF TypeOK, Site
    <3>2. /\ [site[c] EXCEPT !.active = ~@] \in Site
          /\ [site[c] EXCEPT !.there = FALSE] \in Site
      BY <3>1 DEF Site
    <3>3. CASE UNCHANGED scope
      <4>1. /\ [site EXCEPT ![c].active = ~@] \in [Channels -> Site]
            /\ [site EXCEPT ![c].there = FALSE] \in [Channels -> Site]
        BY <3>2 DEF TypeOK
      <4> QED
        BY <1>9, <3>3, <4>1 DEF AdminEdit, TypeOK
    <3>4. CASE UNCHANGED site
      BY <1>9, <3>4 DEF AdminEdit, TypeOK
    <3> QED
      BY <1>9, <3>3, <3>4 DEF AdminEdit
  <2> QED
    BY <1>9, <2>1 DEF AdminEdit, Upset, TypeOK, Fresh, round, history
<1>10. ASSUME NEW c \in Channels, RequestEdit(c) PROVE TypeOK' /\ Fresh'
  <2>1. \A edited \in Edited(c) : edited \in Row
    BY DEF Edited, TypeOK, Row
  <2>2. op' \in Ops
    BY <1>10, <2>1, NoOpType DEF RequestEdit, Ops
  <2> QED
    BY <1>10, <2>2 DEF RequestEdit, Upset, TypeOK, Fresh, round, history
<1>11. ASSUME NEW c \in Channels, LoadState(c) PROVE TypeOK' /\ Fresh'
  <2>1. op' \in Ops
    BY <1>11, NoOpType DEF LoadState, Ops, TypeOK
  <2> QED
    BY <1>11, <2>1 DEF LoadState, Upset, TypeOK, Fresh, round, history
<1>12. ASSUME NEW c \in Channels, SaveState(c) PROVE TypeOK' /\ Fresh'
  <2>1. since' \in [Channels -> Ages] /\ stale' \in SUBSET Channels
    BY <1>12 DEF SaveState, TypeOK, Ops
  <2> QED
    BY <1>12, <2>1, NoOpType DEF SaveState, TypeOK, Fresh, round
<1>13. CASE UNCHANGED vars
  BY <1>13 DEF vars, TypeOK, Fresh, round, history
<1> QED
  BY <1>1, <1>2, <1>3, <1>4, <1>5, <1>6, <1>7, <1>8, <1>9, <1>10, <1>11, <1>12, <1>13
     DEF Next, Round

\* THEOREM: every variable of the fatal cleanup keeps its type (engine/cleanup.go).
THEOREM TypeCorrect == Spec => []TypeOK
<1>1. Init => TypeOK /\ Fresh
  BY InitType
<1>2. TypeOK /\ Fresh /\ [Next]_vars => TypeOK' /\ Fresh'
  BY NextType
<1> QED
  BY <1>1, <1>2, PTL DEF Spec

----------------------------------------------------------------------------
\* Nobody loses the last member of a group to one round.

\* There is one least candidate.
LEMMA OneInHand ==
  ASSUME TypeOK, NEW c \in Channels, NEW d \in Channels, NEW s, NEW t, At(s, c), At(t, d)
  PROVE  c = d
BY CleanupAssumption DEF At

\* Where the candidate's step leaves it: going on past the guard, left, or dealt with.
Passes(c) ==
  \/ /\ UNCHANGED <<queue, done>> /\ job'.at # "pick"
     /\ job.at # "pick" \/ ~LastOfAGroup(c)
     /\ job'.at = "save" => action = "pause"
  \/ Left(c)
  \/ Dealt(c) /\ job.at # "pick"

\* Every step of executeCleanup is of one of these kinds.
LEMMA HandlePasses ==
  ASSUME TypeOK, NEW c \in Channels, Handle(c)
  PROVE  Passes(c) /\ At(job.at, c)
<1> USE DEF Passes, At
<1>0. \A s \in Steps \ {"pick"} : Goto(s) => job'.at = s /\ UNCHANGED <<queue, done>>
  BY DEF Goto, TypeOK
<1>1. CASE Pick(c)
  BY <1>0, <1>1 DEF Pick, Steps
<1>2. CASE ReadRow(c)
  BY <1>2 DEF ReadRow
<1>3. CASE Intent(c)
  BY <1>0, <1>3 DEF Intent, Steps
<1>4. CASE SaveRow(c)
  BY <1>0, <1>4 DEF SaveRow, Steps
<1>5. CASE Send(c)
  BY <1>0, <1>5 DEF Send, Steps
<1>6. CASE SendLost(c)
  BY <1>0, <1>6 DEF SendLost, Steps
<1>7. CASE Rollback(c)
  BY <1>7 DEF Rollback
<1>8. CASE Predisable(c)
  BY <1>0, <1>8 DEF Predisable, Steps
<1>9. CASE Delete(c)
  BY <1>0, <1>9 DEF Delete, Steps
<1>10. CASE DeleteLost(c)
  BY <1>10 DEF DeleteLost
<1>11. CASE Drop(c)
  BY <1>11 DEF Drop
<1>12. CASE StoreFails(c)
  BY <1>12 DEF StoreFails
<1> QED
  BY <1>1, <1>2, <1>3, <1>4, <1>5, <1>6, <1>7, <1>8, <1>9, <1>10, <1>11, <1>12 DEF Handle

\* Taking out one more channel that is not the last of a group keeps the groups spared.
LEMMA SpareOne ==
  ASSUME NEW c \in Channels, ~LastOfAGroup(c), Spared, KeepLast,
         NEW d \in done \cup {c}, NEW g \in GroupsOf[d]
  PROVE  Members(g) \ (seen.excluded \cup done \cup {c}) # {}
<1>1. CASE g \in GroupsOf[c]
  BY <1>1 DEF LastOfAGroup, Surviving
<1>2. CASE g \notin GroupsOf[c]
  <2>1. d \in done /\ c \notin Members(g)
    BY <1>2 DEF Members
  <2> QED
    BY <2>1 DEF Spared
<1> QED
  BY <1>1, <1>2

\* A candidate's step keeps the guard and the spared groups.
LEMMA HandleSpares ==
  ASSUME TypeOK, Guarded, Spared, NEW c \in Channels, Handle(c)
  PROVE  Guarded' /\ Spared'
<1>1. Passes(c) /\ At(job.at, c)
  BY HandlePasses
<1>2. UNCHANGED seen /\ phase' = "clean" /\ TypeOK'
  BY HandleMoves, HandleWrites DEF TypeOK
<1>3. CASE UNCHANGED <<queue, done>> /\ (job.at # "pick" \/ ~LastOfAGroup(c))
  <2>1. \A d : LastOfAGroup(d)' = LastOfAGroup(d)
    BY <1>2, <1>3 DEF LastOfAGroup, Surviving, Members
  <2>2. KeepLast => ~LastOfAGroup(c)
    BY <1>1, <1>3 DEF Guarded, InHand
  <2>3. \A d \in Channels : InHand(d)' => d = c
    BY <1>1, <1>2, <1>3, CleanupAssumption DEF InHand, At
  <2>4. Spared'
    BY <1>2, <1>3 DEF Spared, Members
  <2> QED
    BY <2>1, <2>2, <2>3, <2>4 DEF Guarded
<1>4. CASE Left(c)
  BY <1>2, <1>4 DEF Left, NoJob, Guarded, Spared, InHand, Members
<1>5. CASE Dealt(c) /\ job.at # "pick"
  <2>1. KeepLast => ~LastOfAGroup(c)
    BY <1>1, <1>5 DEF Guarded, InHand
  <2>2. done' = done \cup {c} /\ seen' = seen
    BY <1>2, <1>5 DEF Dealt
  <2>3. Spared'
    BY <2>1, <2>2, SpareOne DEF Spared, Members
  <2>4. Guarded'
    BY <1>5 DEF Dealt, NoJob, Guarded, InHand
  <2> QED
    BY <2>3, <2>4
<1> QED
  BY <1>1, <1>3, <1>4, <1>5 DEF Passes

\* What took effect on the candidate in hand is owed to the count.
Owed(c) == job.at \in {"rollback", "drop"} \/ (job.at = "send" /\ action = "pause")

\* A candidate's step keeps the account of what it took out.
LEMMA HandleAccounts ==
  ASSUME TypeOK, Accounted, Pausing, NEW c \in Channels, Handle(c)
  PROVE  Accounted'
<1> USE DEF history
<1>0. /\ At(job.at, c) /\ c \in queue /\ phase' = "clean" /\ action' = action
      /\ taken \subseteq Channels
  BY HandlePasses, HandleMoves DEF TypeOK
<1>1. ~blind => (\A d \in taken \ {c} : d \in done) /\ (c \in taken => c \in done \/ Owed(c))
  BY <1>0, OneInHand DEF Accounted, InHand, Owed
<1> DEFINE Kept == /\ ~blind /\ taken' \ {c} \subseteq taken /\ done \subseteq done'
                   /\ c \in taken' => c \in done' \/ (InHand(c)' /\ Owed(c)')
<1>17. ASSUME ~blind' => Kept PROVE Accounted'
  <2>1. ~blind' => \A d \in taken' \ {c} : d \in done'
    BY <1>1, <1>17
  <2> QED
    BY <1>17, <2>1 DEF Accounted, Owed
<1>2. SUFFICES ASSUME ~blind' PROVE Kept
  BY <1>17
<1>3. \A s \in Steps \ {"pick"} : Goto(s) =>
        job'.at = s /\ InHand(c)' /\ UNCHANGED <<queue, done>>
  BY <1>0 DEF Goto, TypeOK, InHand, At
<1>4. /\ Left(c) => UNCHANGED done
      /\ Dealt(c) => done' = done \cup {c}
  BY DEF Left, Dealt
<1>5. CASE Pick(c)
  <2>1. UNCHANGED <<taken, blind>> /\ job.at = "pick"
    BY <1>5 DEF Pick, At
  <2>2. UNCHANGED done
    BY <1>3, <1>4, <1>5 DEF Pick, Steps
  <2> QED
    BY <1>1, <1>2, <2>1, <2>2 DEF Owed
<1>6. CASE ReadRow(c)
  <2>1. UNCHANGED <<taken, blind>> /\ job.at = "read" /\ UNCHANGED done
    BY <1>4, <1>6 DEF ReadRow, At
  <2> QED
    BY <1>1, <1>2, <2>1 DEF Owed
<1>7. CASE Intent(c)
  <2>1. UNCHANGED <<taken, blind>> /\ job.at = "intent"
    BY <1>7 DEF Intent, At
  <2>2. UNCHANGED done
    BY <1>3, <1>7 DEF Intent, Steps
  <2> QED
    BY <1>1, <1>2, <2>1, <2>2 DEF Owed
<1>8. CASE SaveRow(c)
  <2>1. taken' = taken \cup {c} /\ UNCHANGED blind /\ (Goto("send") \/ Dealt(c))
    BY <1>8 DEF SaveRow
  <2>2. action = "pause"
    BY <1>8 DEF SaveRow, At, Pausing
  <2> QED
    BY <1>0, <1>2, <1>3, <1>4, <2>1, <2>2 DEF Owed, Steps
<1>9. CASE Send(c)
  <2>1. taken' = taken \cup {c} /\ UNCHANGED blind /\ Dealt(c)
    BY <1>2, <1>9 DEF Send
  <2> QED
    BY <1>2, <1>4, <2>1
<1>10. CASE SendLost(c)
  <2>1. UNCHANGED <<taken, blind>> /\ job.at = "send"
    BY <1>10 DEF SendLost, At
  <2>2. CASE action = "pause"
    BY <1>1, <1>2, <1>3, <1>10, <2>1, <2>2 DEF SendLost, Owed, Steps
  <2>3. CASE action # "pause"
    BY <1>1, <1>2, <1>4, <1>10, <2>1, <2>3 DEF SendLost, Owed
  <2> QED
    BY <2>2, <2>3
<1>11. CASE Rollback(c)
  <2>1. taken' = taken \ {c} /\ UNCHANGED blind /\ UNCHANGED done
    BY <1>2, <1>4, <1>11 DEF Rollback
  <2> QED
    BY <1>2, <2>1
<1>12. CASE Predisable(c)
  <2>1. UNCHANGED <<taken, blind>> /\ job.at = "predisable"
    BY <1>12 DEF Predisable, At
  <2>2. UNCHANGED done
    BY <1>3, <1>12 DEF Predisable, Steps
  <2> QED
    BY <1>1, <1>2, <2>1, <2>2 DEF Owed
<1>13. CASE Delete(c)
  <2>1. taken' = taken \cup {c} /\ UNCHANGED blind /\ Goto("drop")
    BY <1>2, <1>13 DEF Delete
  <2> QED
    BY <1>2, <1>3, <2>1 DEF Owed, Steps
<1>14. CASE DeleteLost(c)
  <2>1. UNCHANGED <<taken, blind>> /\ job.at = "delete" /\ UNCHANGED done
    BY <1>4, <1>14 DEF DeleteLost, At
  <2> QED
    BY <1>1, <1>2, <2>1 DEF Owed
<1>15. CASE Drop(c)
  <2>1. UNCHANGED <<taken, blind>> /\ done' = done \cup {c}
    BY <1>4, <1>15 DEF Drop
  <2> QED
    BY <1>2, <2>1
<1>16. CASE StoreFails(c)
  <2>1. UNCHANGED <<taken, blind>> /\ job.at \in {"read", "intent", "save"} /\ UNCHANGED done
    BY <1>4, <1>16 DEF StoreFails, At
  <2> QED
    BY <1>1, <1>2, <2>1 DEF Owed
<1> QED
  BY <1>5, <1>6, <1>7, <1>8, <1>9, <1>10, <1>11, <1>12, <1>13, <1>14, <1>15, <1>16 DEF Handle

\* A candidate's step saves the row only to pause.
LEMMA HandlePauses ==
  ASSUME TypeOK, NEW c \in Channels, Handle(c)
  PROVE  Pausing'
<1>1. Passes(c) /\ action' = action
  BY HandlePasses, HandleMoves
<1>2. Left(c) \/ Dealt(c) => job'.at # "save"
  BY DEF Left, Dealt, NoJob
<1> QED
  BY <1>1, <1>2 DEF Passes, Pausing

\* Before the verdicts nothing is in hand and nothing is taken out.
LEMMA FreshIsSpared ==
  ASSUME Fresh, phase \in {"idle", "collect"}
  PROVE  Accounted /\ Guarded /\ Spared /\ Pausing
BY DEF Fresh, Accounted, Guarded, Spared, Pausing, InHand, At, NoJob

\* The spared groups and what they rest on are kept by every step.
LEMMA SpareStep == SpareInv /\ [Next]_vars => SpareInv'
<1> SUFFICES ASSUME SpareInv, [Next]_vars PROVE SpareInv'
  OBVIOUS
<1>1. TypeOK' /\ Fresh'
  BY NextType DEF SpareInv
<1>2. CASE phase' \in {"idle", "collect"}
  <2>1. (Fresh /\ phase \in {"idle", "collect"} => Accounted /\ Guarded /\ Spared /\ Pausing)'
    BY FreshIsSpared, PTL
  <2> QED
    BY <1>1, <1>2, <2>1 DEF SpareInv
<1>3. ASSUME NEW c \in Channels, Handle(c) PROVE SpareInv'
  BY <1>1, <1>3, HandleAccounts, HandleSpares, HandlePauses DEF SpareInv
<1>4. CASE Judge
  <2>1. done' = {} /\ taken' = {} /\ job' = NoJob
    BY <1>4 DEF Judge, SpareInv, Fresh
  <2> QED
    BY <1>1, <2>1 DEF SpareInv, Accounted, Guarded, Spared, Pausing, InHand, At, NoJob
<1>5. CASE EndClean
  <2>1. UNCHANGED <<seen, done, job, taken, blind, action>> /\ phase' = "persist" /\ queue = {}
    BY <1>5 DEF EndClean, history
  <2> QED
    BY <1>1, <2>1 DEF SpareInv, Accounted, Guarded, Spared, Pausing, InHand, At, Members
<1>6. CASE UNCHANGED <<phase, seen, queue, done, job, taken, blind, action>>
  <2>1. \A d : InHand(d)' = InHand(d) /\ LastOfAGroup(d)' = LastOfAGroup(d)
    BY <1>6 DEF InHand, At, LastOfAGroup, Surviving, Members
  <2> QED
    BY <1>1, <1>6, <2>1 DEF SpareInv, Accounted, Guarded, Spared, Pausing, Members
<1>7. \/ phase' \in {"idle", "collect"} \/ (\E c \in Channels : Handle(c)) \/ Judge \/ EndClean
      \/ UNCHANGED <<phase, seen, queue, done, job, taken, blind, action>>
  BY DEF Next, Round, BeginRound, Persist, Abort, Crash, RoundOver, SaveEdit, AdminEdit,
         RequestEdit, LoadState, SaveState, vars, round, history
<1> QED
  BY <1>2, <1>3, <1>4, <1>5, <1>6, <1>7

\* The invariant is what the guard of executeCleanup promises.
LEMMA SpareImplies == SpareInv => LastSpared
<1> SUFFICES ASSUME SpareInv, KeepLast, ~blind, NEW c \in taken, NEW g \in GroupsOf[c]
             PROVE  Members(g) \ (seen.excluded \cup taken) # {}
  BY DEF LastSpared
<1>0. taken \subseteq Channels
  BY DEF SpareInv, TypeOK
<1>1. CASE taken \subseteq done
  BY <1>1 DEF SpareInv, Spared
<1>2. ASSUME NEW h \in taken, h \notin done
      PROVE  Members(g) \ (seen.excluded \cup taken) # {}
  <2>1. InHand(h) /\ ~LastOfAGroup(h)
    BY <1>0, <1>2 DEF SpareInv, Accounted, Guarded
  <2>2. taken \subseteq done \cup {h}
    BY <1>0, <2>1, OneInHand DEF SpareInv, Accounted, InHand
  <2>3. Members(g) \ (seen.excluded \cup done \cup {h}) # {}
    BY <1>0, <2>1, <2>2, SpareOne DEF SpareInv
  <2> QED
    BY <2>2, <2>3
<1> QED
  BY <1>1, <1>2

\* THEOREM: KeepLastInGroup within a round (executeCleanup, survivingMembers): as long as
\* no request took effect that was reported as failed, each group of a channel that was
\* taken out keeps a member that is not excluded and that the round left alone.
THEOREM GroupsSpared == Spec => []LastSpared
<1>1. Init => SpareInv
  BY InitType, FreshIsSpared DEF Init, SpareInv
<1> QED
  BY <1>1, SpareStep, SpareImplies, PTL DEF Spec

----------------------------------------------------------------------------
\* Nobody is taken out before the observation time.

\* A candidate's step takes out nobody but the candidate in hand.
LEMMA HandleTakes ==
  ASSUME NEW c \in Channels, Handle(c)
  PROVE  taken' \subseteq taken \cup {c} /\ queue' \subseteq queue
<1> USE DEF At, history, Goto, Left, Dealt
<1>1. CASE Pick(c)
  BY <1>1 DEF Pick
<1>2. CASE ReadRow(c)
  BY <1>2 DEF ReadRow
<1>3. CASE Intent(c)
  BY <1>3 DEF Intent
<1>4. CASE SaveRow(c)
  BY <1>4 DEF SaveRow
<1>5. CASE Send(c)
  BY <1>5 DEF Send
<1>6. CASE SendLost(c)
  BY <1>6 DEF SendLost
<1>7. CASE Rollback(c)
  BY <1>7 DEF Rollback
<1>8. CASE Predisable(c)
  BY <1>8 DEF Predisable
<1>9. CASE Delete(c)
  BY <1>9 DEF Delete
<1>10. CASE DeleteLost(c)
  BY <1>10 DEF DeleteLost
<1>11. CASE Drop(c)
  BY <1>11 DEF Drop
<1>12. CASE StoreFails(c)
  BY <1>12 DEF StoreFails
<1> QED
  BY <1>1, <1>2, <1>3, <1>4, <1>5, <1>6, <1>7, <1>8, <1>9, <1>10, <1>11, <1>12 DEF Handle

\* No observation time outruns the time since the last verdict that spoke for the channel.
LEMMA ObserveStep == ObserveInv /\ [Next]_vars => ObserveInv'
<1> SUFFICES ASSUME ObserveInv, [Next]_vars PROVE ObserveInv'
  OBVIOUS
<1>1. TypeOK /\ Fresh /\ TypeOK' /\ Fresh'
  BY NextType DEF ObserveInv
<1>2. CASE BeginRound
  <2>1. \A c \in Channels : 1 <= okAgo'[c] /\ (c \notin stale => since'[c] <= okAgo'[c])
    <3> SUFFICES ASSUME NEW c \in Channels
                 PROVE  1 <= okAgo'[c] /\ (c \notin stale => since'[c] <= okAgo'[c])
      OBVIOUS
    <3>1. since[c] \in Ages /\ okAgo[c] \in Ages /\ (c \notin stale => since[c] <= okAgo[c])
      BY <1>1 DEF TypeOK, ObserveInv, Observing
    <3>2. okAgo'[c] = Older(okAgo[c]) /\ since'[c] \in {0, Aged(since[c])}
      BY <1>2 DEF BeginRound
    <3>3. /\ 1 <= Older(okAgo[c]) /\ Older(okAgo[c]) \in Ages
          /\ c \notin stale => Aged(since[c]) <= Older(okAgo[c])
      BY <3>1, Aging, AgingOrder
    <3> QED
      BY <3>2, <3>3 DEF Ages
  <2>2. mem' = since' /\ queue' = {} /\ clear' = {} /\ stale' = stale
    BY <1>1, <1>2 DEF BeginRound, Fresh
  <2> QED
    BY <1>1, <2>1, <2>2 DEF ObserveInv, Observing
<1>3. CASE Judge
  <2>1. PICK failing \in SUBSET seen.members :
          /\ mem' = Verdict(failing) /\ queue' = Candidates(Verdict(failing), failing)
          /\ clear' = seen.members \ (failing \ seen.excluded)
    BY <1>3 DEF Judge
  <2>2. seen.members \subseteq Channels
    BY <1>1 DEF TypeOK, Seen
  <2>3. \A c \in Channels : 1 <= okAgo[c] /\ (c \notin stale => mem[c] <= okAgo[c])
    BY <1>1, <1>3 DEF Judge, TypeOK, ObserveInv, Observing
  <2>4. \A c \in Channels : mem'[c] \in {0, 1, mem[c]}
    BY <2>1 DEF Verdict, Observed
  <2>5. \A c \in clear' : mem'[c] = 0
    BY <2>1, <2>2 DEF Verdict, Observed
  <2>6. \A c \in queue' : mem'[c] > MinAge
    BY <2>1 DEF Candidates
  <2>7. UNCHANGED <<since, okAgo, stale>> /\ phase = "collect"
    BY <1>3 DEF Judge
  <2>8. \A c \in Channels \ stale : mem'[c] <= okAgo[c]
    <3> SUFFICES ASSUME NEW c \in Channels \ stale PROVE mem'[c] <= okAgo[c]
      OBVIOUS
    <3>1. okAgo[c] \in 0..(MinAge + 1) /\ mem[c] <= okAgo[c] /\ 1 <= okAgo[c]
      BY <1>1, <2>3 DEF TypeOK, Ages
    <3>2. mem'[c] = 0 \/ mem'[c] = 1 \/ mem'[c] = mem[c]
      BY <2>4
    <3> QED
      BY <3>1, <3>2, CleanupAssumption
  <2> QED
    BY <1>1, <2>3, <2>5, <2>6, <2>7, <2>8 DEF ObserveInv, Observing
<1>4. ASSUME NEW c \in Channels, Handle(c) PROVE ObserveInv'
  <2>1. UNCHANGED <<since, mem, okAgo, clear, stale, phase>> /\ queue' \subseteq queue
    BY <1>1, <1>4, HandleMoves, HandleTakes
  <2> QED
    BY <1>1, <2>1 DEF ObserveInv, Observing
<1>5. CASE Persist
  <2>1. phase' = "idle" /\ clear' = {} /\ queue' = {}
    BY <1>5 DEF Persist, RoundOver
  <2>2. PICK saved \in {seen.members} \cup {{d \in seen.members : d < c} : c \in seen.members} :
          /\ since' = [c \in Channels |-> IF c \in saved THEN mem[c] ELSE since[c]]
          /\ okAgo' = [c \in Channels |-> IF c \in saved \cap clear THEN 0 ELSE okAgo[c]]
          /\ stale' = stale \ (saved \cap clear)
    BY <1>5 DEF Persist
  <2>3. \A c \in Channels \ stale' : since'[c] <= okAgo'[c]
    <3> SUFFICES ASSUME NEW c \in Channels \ stale' PROVE since'[c] <= okAgo'[c]
      OBVIOUS
    <3>1. /\ c \notin stale => since[c] <= okAgo[c] /\ mem[c] <= okAgo[c]
          /\ c \in clear => mem[c] = 0
      BY <1>5 DEF Persist, ObserveInv, Observing
    <3>2. CASE c \in saved
      <4>1. CASE c \in clear
        BY <2>2, <3>1, <3>2, <4>1
      <4>2. CASE c \notin clear
        BY <2>2, <3>1, <3>2, <4>2
      <4> QED
        BY <4>1, <4>2
    <3>3. CASE c \notin saved
      BY <2>2, <3>1, <3>3
    <3> QED
      BY <3>2, <3>3
  <2> QED
    BY <1>1, <2>1, <2>3 DEF ObserveInv, Observing
<1>6. CASE RoundOver /\ UNCHANGED <<since, okAgo, stale>>
  BY <1>1, <1>6 DEF RoundOver, ObserveInv, Observing
<1>7. CASE /\ UNCHANGED <<since, mem, okAgo, clear, stale, queue>>
           /\ phase = "idle" => phase' = "idle"
  BY <1>1, <1>7 DEF ObserveInv, Observing
<1>8. ASSUME NEW c \in Channels, SaveState(c) PROVE ObserveInv'
  <2>1. /\ UNCHANGED <<mem, okAgo, clear, queue, phase>> /\ stale \subseteq stale'
        /\ \A d \in Channels \ stale' : since'[d] = since[d]
    BY <1>1, <1>8 DEF SaveState, round, TypeOK
  <2> QED
    BY <1>1, <2>1 DEF ObserveInv, Observing
<1>9. \/ BeginRound \/ Judge \/ Persist
      \/ \E c \in Channels : Handle(c) \/ SaveState(c)
      \/ RoundOver /\ UNCHANGED <<since, okAgo, stale>>
      \/ UNCHANGED <<since, mem, okAgo, clear, stale, queue>> /\ (phase = "idle" => phase' = "idle")
  BY DEF Next, Round, EndClean, Abort, Crash, SaveEdit, AdminEdit, RequestEdit,
         LoadState, vars, round, history
<1> QED
  BY <1>2, <1>3, <1>4, <1>5, <1>6, <1>7, <1>8, <1>9

\* Only a candidate that has been observed long enough is taken out.
LEMMA ObserveImplies ==
  ObserveInv /\ [Next]_vars => [\A c \in taken' \ taken : c \in stale \/ okAgo[c] > MinAge]_vars
<1> SUFFICES ASSUME ObserveInv, [Next]_vars, NEW d \in taken' \ taken, d \notin stale
             PROVE  okAgo[d] > MinAge
  OBVIOUS
<1>1. ASSUME NEW c \in Channels, Handle(c) PROVE okAgo[d] > MinAge
  <2>1. d = c /\ c \in queue /\ phase = "clean"
    BY <1>1, HandleTakes, HandleMoves DEF ObserveInv
  <2>2. mem[c] > MinAge /\ mem[c] <= okAgo[c] /\ mem[c] \in Nat /\ okAgo[c] \in Nat
    BY <1>1, <2>1 DEF ObserveInv, Observing, TypeOK, Ages
  <2> QED
    BY <2>1, <2>2, CleanupAssumption
<1>2. ASSUME UNCHANGED taken \/ taken' = {} PROVE FALSE
  BY <1>2
<1>3. (\E c \in Channels : Handle(c)) \/ UNCHANGED taken \/ taken' = {}
  BY DEF Next, Round, BeginRound, Judge, EndClean, Persist, Abort, Crash, RoundOver, SaveEdit,
         AdminEdit, RequestEdit, LoadState, SaveState, vars, history
<1> QED
  BY <1>1, <1>2, <1>3

\* THEOREM: the observation time (collectCleanupCandidates, persist): a channel is taken out
\* only if no verdict stored within the last MinAge rounds found it to be no candidate,
\* whatever rounds failed, were cut short or crashed in between, unless a manual operation
\* has put back the state row that it had read before that verdict.
THEOREM ObservedFirst == Spec => ObservedLongEnough
<1>1. Init => ObserveInv
  <2> SUFFICES ASSUME Init PROVE ObserveInv
    OBVIOUS
  <2>1. \A c \in Channels : since[c] = 0 /\ okAgo[c] = 0
    BY DEF Init, Idle
  <2>2. clear = {} /\ queue = {} /\ phase = "idle"
    BY DEF Init
  <2> QED
    BY <2>1, <2>2, InitType DEF ObserveInv, Observing
<1> QED
  BY <1>1, ObserveStep, ObserveImplies, PTL DEF Spec, ObservedLongEnough
=============================================================================
