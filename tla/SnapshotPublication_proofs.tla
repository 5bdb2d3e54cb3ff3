---------------------- MODULE SnapshotPublication_proofs ----------------------
(***************************************************************************)
(* Proofs about SnapshotPublication, for any exporters and any number of   *)
(* snapshots, requests and polls under way.                                *)
(***************************************************************************)
EXTENDS SnapshotPublication, TLAPS

--------------------------------------------------------------------------------
(* The inductive invariant *)

\* A request that passed the head carries nothing older than what it saw there, and a
\* success is about a snapshot that was stored.
BucketInv ==
  /\ \A u \in uploads : u.checked => u.previous.gen <= u.gen
  /\ \A e \in Exporters : health[e].healthy => health[e].gen <= stored.gen

\* Whatever was served was in the bucket, and the current poll was served what the
\* page shows or something newer.
PageInv ==
  /\ shown <= stored.gen
  /\ \A f \in fetches : /\ f.id <= polls
                        /\ f.served => f.gen <= stored.gen
                        /\ f.served /\ f.id = active => shown <= f.gen

IInv == TypeOK /\ BucketInv /\ PageInv /\ PollingOnce

--------------------------------------------------------------------------------
Uploads == [by : Exporters, gen : Times, checked : BOOLEAN, previous : Snapshots]
Fetches == [id : 1..MaxPolls, served : BOOLEAN, gen : Times \cup {None}]
States == [at : Times \cup {None}, healthy : BOOLEAN, gen : Times \cup {None}]

\* The instants and counters, and what the model compares.
LEMMA Numbers ==
  /\ MaxTime \in Nat /\ MaxPolls \in Nat
  /\ Times \subseteq Nat /\ Times \cup {None} \subseteq Int /\ None \notin Nat /\ 0 \in Times
BY PublicationAssumption DEF Times, None

\* A poll that starts, after its timer or because the page is shown again, is the
\* current one and under way.
LEMMA StartedPoll ==
  ASSUME TypeOK, StartPoll
  PROVE  /\ polls' \in 1..MaxPolls /\ polls' = polls + 1 /\ active' = polls' /\ timer' = FALSE
         /\ fetches' = fetches \cup {[id |-> polls', served |-> FALSE, gen |-> None]}
         /\ [id |-> polls', served |-> FALSE, gen |-> None] \in Fetches
         /\ active' # None
<1>1. polls' \in 1..MaxPolls /\ polls' = polls + 1
  BY Numbers DEF StartPoll, TypeOK
<1>2. /\ active' = polls' /\ timer' = FALSE
      /\ fetches' = fetches \cup {[id |-> polls', served |-> FALSE, gen |-> None]}
  BY DEF StartPoll
<1>3. [id |-> polls', served |-> FALSE, gen |-> None] \in Fetches
  BY <1>1 DEF Fetches
<1>4. active' # None
  BY <1>1, <1>2, Numbers
<1>5. QED
  BY <1>1, <1>2, <1>3, <1>4

\* What an attempt leaves in the exporter's status.json.
LEMMA ConcludedAttempt ==
  ASSUME TypeOK, NEW e \in Exporters, NEW ok \in BOOLEAN, Conclude(e, ok)
  PROVE  /\ waiting' \in [Exporters -> Times \cup {None}] /\ built' = built
         /\ health' \in [Exporters -> States]
         /\ \A d \in Exporters : d # e => health'[d] = health[d]
         /\ health'[e].healthy = ok
         /\ ok => health'[e].gen = waiting[e]
<1> DEFINE new == [at |-> now, healthy |-> ok, gen |-> IF ok THEN waiting[e] ELSE None]
<1>1. health' = [health EXCEPT ![e] = new] /\ waiting' = [waiting EXCEPT ![e] = None]
      /\ built' = built
  BY DEF Conclude
<1>2. new \in States
  BY DEF States, TypeOK
<1>3. new.healthy = ok /\ (ok => new.gen = waiting[e])
  BY Zenon
<1> HIDE DEF new
<1>4. waiting \in [Exporters -> Times \cup {None}] /\ health \in [Exporters -> States]
  BY DEF TypeOK, States
<1>5. QED
  BY <1>1, <1>2, <1>3, <1>4

\* The answer to a request concerns the exporter that still waits for it, and a
\* success is about the snapshot of that request.
LEMMA AnsweredRequest ==
  ASSUME TypeOK, NEW u \in Uploads, NEW ok \in BOOLEAN, Answer(u, ok)
  PROVE  /\ waiting' \in [Exporters -> Times \cup {None}] /\ built' = built
         /\ health' \in [Exporters -> States]
         /\ \A e \in Exporters : \/ health'[e] = health[e]
                                 \/ health'[e].healthy = ok /\ (ok => health'[e].gen = u.gen)
<1>1. u.by \in Exporters
  BY DEF Uploads
<1>2. CASE waiting[u.by] = u.gen /\ Conclude(u.by, ok)
  BY <1>1, <1>2, ConcludedAttempt
<1>3. CASE UNCHANGED exporterVars
  BY <1>3 DEF exporterVars, TypeOK, States
<1>4. QED
  BY <1>2, <1>3 DEF Answer

\* The put replaces only the snapshot that the head saw, and never by an older one.
LEMMA PutSnapshot ==
  ASSUME TypeOK, BucketInv, NEW u \in uploads, Put(u)
  PROVE  /\ stored' \in Snapshots /\ stored.gen <= stored'.gen
         /\ u.previous = stored => stored'.gen = u.gen
<1>1. /\ u \in Uploads /\ stored \in Snapshots /\ u.checked
      /\ u.previous.gen <= u.gen
      /\ stored' = IF u.previous = stored THEN [by |-> u.by, gen |-> u.gen] ELSE stored
  BY DEF TypeOK, Uploads, BucketInv, Put
<1>2. [by |-> u.by, gen |-> u.gen] \in Snapshots /\ stored.gen \in Int
  BY <1>1, Numbers DEF Uploads, Snapshots
<1>3. CASE u.previous = stored
  BY <1>1, <1>2, <1>3
<1>4. CASE u.previous # stored
  BY <1>1, <1>2, <1>4
<1>5. QED
  BY <1>3, <1>4

--------------------------------------------------------------------------------
\* The steps, one part of the inductive invariant after the other.

\* Every handler keeps the types.
LEMMA NextTyped == IInv /\ [Next]_vars => TypeOK'
<1> SUFFICES ASSUME IInv, [Next]_vars PROVE TypeOK'
  OBVIOUS
<1>0. TypeOK /\ BucketInv
  BY DEF IInv
<1>1. CASE Tick
  <2>1. now' \in Times
    BY <1>0, <1>1, Numbers DEF Tick, Times, TypeOK
  <2>2. QED
    BY <1>0, <1>1, <2>1 DEF Tick, exporterVars, pageVars, TypeOK
<1>2. ASSUME NEW e \in Exporters, Build(e) PROVE TypeOK'
  <2> DEFINE u == [by |-> e, gen |-> now, checked |-> FALSE, previous |-> Nothing]
  <2>1. u \in Uploads
    BY <1>0, Numbers DEF Uploads, TypeOK, Snapshots, Nothing
  <2>2. uploads' = uploads \cup {u}
    BY <1>2 DEF Build
  <2> HIDE DEF u
  <2>3. uploads' \subseteq Uploads
    BY <1>0, <2>1, <2>2 DEF TypeOK, Uploads
  <2>4. /\ built' \in [Exporters -> Times \cup {None}]
        /\ waiting' \in [Exporters -> Times \cup {None}]
    BY <1>0, <1>2 DEF Build, TypeOK
  <2>5. QED
    BY <1>0, <1>2, <2>3, <2>4 DEF Build, pageVars, TypeOK, Uploads
<1>3. ASSUME NEW e \in Exporters, GiveUp(e) PROVE TypeOK'
  <2>1. Conclude(e, FALSE)
    BY <1>3 DEF GiveUp
  <2>2. /\ waiting' \in [Exporters -> Times \cup {None}] /\ built' = built
        /\ health' \in [Exporters -> States]
    BY <1>0, <2>1, ConcludedAttempt
  <2>3. QED
    BY <1>0, <1>3, <2>2 DEF GiveUp, pageVars, TypeOK, States
<1>4. ASSUME NEW u \in uploads, Lose(u) PROVE TypeOK'
  BY <1>0, <1>4 DEF Lose, exporterVars, pageVars, TypeOK
<1>5. ASSUME NEW u \in uploads, Refuse(u) PROVE TypeOK'
  <2>1. u \in Uploads /\ Answer(u, FALSE)
    BY <1>0, <1>5 DEF TypeOK, Uploads, Refuse
  <2>2. /\ waiting' \in [Exporters -> Times \cup {None}] /\ built' = built
        /\ health' \in [Exporters -> States]
    BY <1>0, <2>1, AnsweredRequest
  <2>3. QED
    BY <1>0, <1>5, <2>2 DEF Refuse, pageVars, TypeOK, States
<1>6. ASSUME NEW u \in uploads, Head(u) PROVE TypeOK'
  <2>1. [u EXCEPT !.checked = TRUE, !.previous = stored] \in Uploads
    BY <1>0 DEF TypeOK, Uploads
  <2>2. uploads' \subseteq Uploads
    BY <1>0, <1>6, <2>1 DEF Head, TypeOK, Uploads
  <2>3. QED
    BY <1>0, <1>6, <2>2 DEF Head, exporterVars, pageVars, TypeOK, Uploads
<1>7. ASSUME NEW u \in uploads, Put(u) PROVE TypeOK'
  <2>1. u \in Uploads /\ Answer(u, u.previous = stored) /\ (u.previous = stored) \in BOOLEAN
    BY <1>0, <1>7 DEF TypeOK, Uploads, Put
  <2>2. /\ waiting' \in [Exporters -> Times \cup {None}] /\ built' = built
        /\ health' \in [Exporters -> States]
    BY <1>0, <2>1, AnsweredRequest
  <2>3. stored' \in Snapshots
    BY <1>0, <1>7, PutSnapshot
  <2>4. QED
    BY <1>0, <1>7, <2>2, <2>3 DEF Put, pageVars, TypeOK, States
<1>8. ASSUME StartPoll, visible' \in BOOLEAN,
             UNCHANGED <<now, exporterVars, uploads, stored, shown>>
      PROVE  TypeOK'
  <2> DEFINE new == [id |-> polls', served |-> FALSE, gen |-> None]
  <2>1. /\ polls' \in 1..MaxPolls /\ active' = polls' /\ timer' = FALSE
        /\ fetches' = fetches \cup {new} /\ new \in Fetches
    BY <1>0, <1>8, StartedPoll
  <2> HIDE DEF new
  <2>2. fetches' \subseteq Fetches
    BY <1>0, <2>1 DEF TypeOK, Fetches
  <2>3. polls' \in 0..MaxPolls /\ active' \in 1..MaxPolls
    BY <2>1, Numbers
  <2>4. timer' \in BOOLEAN
    BY Zenon, <2>1
  <2>5. QED
    BY <1>0, <1>8, <2>2, <2>3, <2>4 DEF exporterVars, TypeOK, Fetches
<1>9. CASE TimerFires
  BY <1>0, <1>8, <1>9 DEF TimerFires, TypeOK
<1>10. CASE Show
  BY <1>8, <1>10 DEF Show
<1>11. CASE Hide
  BY <1>0, <1>11 DEF Hide, exporterVars, TypeOK
<1>12. ASSUME NEW f \in fetches, Serve(f) PROVE TypeOK'
  <2>1. [f EXCEPT !.served = TRUE, !.gen = stored.gen] \in Fetches
    BY <1>0 DEF TypeOK, Fetches, Snapshots
  <2>2. fetches' \subseteq Fetches
    BY <1>0, <1>12, <2>1 DEF Serve, TypeOK, Fetches
  <2>3. QED
    BY <1>0, <1>12, <2>2 DEF Serve, exporterVars, TypeOK, Fetches
<1>13. ASSUME NEW f \in fetches, Settle(f), shown' \in Times \cup {None} PROVE TypeOK'
  <2>1. timer' \in BOOLEAN /\ active' \in (1..MaxPolls) \cup {None}
    BY <1>0, <1>13 DEF Settle, TypeOK
  <2>2. QED
    BY <1>0, <1>13, <2>1 DEF Settle, exporterVars, TypeOK
<1>14. ASSUME NEW f \in fetches, Deliver(f) PROVE TypeOK'
  <2>1. shown' \in Times \cup {None}
    BY <1>0, <1>14 DEF Deliver, TypeOK
  <2>2. QED
    BY <1>13, <1>14, <2>1 DEF Deliver
<1>15. ASSUME NEW f \in fetches, FetchFails(f) PROVE TypeOK'
  BY <1>0, <1>13, <1>15 DEF FetchFails, TypeOK
<1>16. CASE UNCHANGED vars
  BY <1>0, <1>16 DEF vars, exporterVars, pageVars, TypeOK
<1>17. QED
  BY <1>1, <1>2, <1>3, <1>4, <1>5, <1>6, <1>7, <1>9, <1>10, <1>11, <1>12, <1>14, <1>15,
     <1>16 DEF Next

\* The bucket never holds anything older than what the head of a request compared with,
\* or than what an exporter was told is stored.
LEMMA NextBucket == IInv /\ [Next]_vars => BucketInv' /\ stored.gen <= stored'.gen
<1> SUFFICES ASSUME IInv, [Next]_vars PROVE BucketInv' /\ stored.gen <= stored'.gen
  OBVIOUS
<1>0. /\ TypeOK /\ BucketInv /\ uploads \subseteq Uploads
      /\ stored.gen \in Int /\ \A e \in Exporters : health[e].gen \in Int
  BY Numbers DEF IInv, TypeOK, Uploads, Snapshots
<1>1. ASSUME UNCHANGED stored,
             \A u \in uploads' : u \in uploads \/ ~u.checked,
             \A e \in Exporters : health'[e] = health[e] \/ ~health'[e].healthy
      PROVE  BucketInv' /\ stored.gen <= stored'.gen
  BY <1>0, <1>1 DEF BucketInv
<1>2. ASSUME UNCHANGED <<health, stored, uploads>>
      PROVE  BucketInv' /\ stored.gen <= stored'.gen
  BY <1>0, <1>2 DEF BucketInv
<1>3. CASE Tick \/ TimerFires \/ Hide \/ Show \/ UNCHANGED vars
  BY <1>2, <1>3 DEF Tick, TimerFires, Hide, Show, vars, exporterVars
<1>4. ASSUME NEW e \in Exporters, Build(e)
      PROVE  BucketInv' /\ stored.gen <= stored'.gen
  <2>1. \A u \in uploads' : u \in uploads \/ ~u.checked
    BY <1>4 DEF Build
  <2>2. UNCHANGED <<stored, health>>
    BY <1>4 DEF Build
  <2>3. QED
    BY <1>1, <2>1, <2>2
<1>5. ASSUME NEW e \in Exporters, GiveUp(e)
      PROVE  BucketInv' /\ stored.gen <= stored'.gen
  <2>1. \A d \in Exporters : health'[d] = health[d] \/ ~health'[d].healthy
    BY <1>0, <1>5, ConcludedAttempt DEF GiveUp
  <2>2. QED
    BY <1>1, <1>5, <2>1 DEF GiveUp
<1>6. ASSUME NEW u \in uploads, Lose(u)
      PROVE  BucketInv' /\ stored.gen <= stored'.gen
  BY <1>1, <1>6 DEF Lose, exporterVars
<1>7. ASSUME NEW u \in uploads, Refuse(u)
      PROVE  BucketInv' /\ stored.gen <= stored'.gen
  <2>1. \A d \in Exporters : health'[d] = health[d] \/ ~health'[d].healthy
    BY <1>0, <1>7, AnsweredRequest DEF Refuse
  <2>2. QED
    BY <1>1, <1>7, <2>1 DEF Refuse
<1>8. ASSUME NEW u \in uploads, Head(u)
      PROVE  BucketInv' /\ stored.gen <= stored'.gen
  <2> DEFINE looked == [u EXCEPT !.checked = TRUE, !.previous = stored]
  <2>1. looked.previous = stored /\ looked.gen = u.gen
    BY <1>0 DEF Uploads
  <2>2. stored.gen <= u.gen
    BY <1>0, <1>8, Numbers DEF Head, Refused, Uploads
  <2>3. uploads' = (uploads \ {u}) \cup {looked} /\ UNCHANGED <<stored, health>>
    BY <1>8 DEF Head, exporterVars
  <2> HIDE DEF looked
  <2>4. QED
    BY <1>0, <2>1, <2>2, <2>3 DEF BucketInv
<1>9. ASSUME NEW u \in uploads, Put(u)
      PROVE  BucketInv' /\ stored.gen <= stored'.gen
  <2>1. /\ stored' \in Snapshots /\ stored.gen <= stored'.gen
        /\ u.previous = stored => stored'.gen = u.gen
    BY <1>0, <1>9, PutSnapshot
  <2>2. \A e \in Exporters :
          \/ health'[e] = health[e]
          \/ health'[e].healthy = (u.previous = stored)
             /\ (u.previous = stored => health'[e].gen = u.gen)
    BY <1>0, <1>9, AnsweredRequest DEF Put
  <2>3. ASSUME NEW e \in Exporters, health'[e].healthy
        PROVE  health'[e].gen <= stored'.gen
    <3>1. stored'.gen \in Int
      BY <2>1, Numbers DEF Snapshots
    <3>2. CASE health'[e] = health[e]
      BY <1>0, <2>1, <2>3, <3>1, <3>2 DEF BucketInv
    <3>3. CASE u.previous = stored /\ health'[e].gen = u.gen
      BY <2>1, <3>1, <3>3
    <3>4. QED
      BY <2>2, <2>3, <3>2, <3>3
  <2>4. uploads' \subseteq uploads
    BY <1>9 DEF Put
  <2>5. QED
    BY <1>0, <2>1, <2>3, <2>4 DEF BucketInv
<1>10. ASSUME NEW f \in fetches, Serve(f) \/ Deliver(f) \/ FetchFails(f)
       PROVE  BucketInv' /\ stored.gen <= stored'.gen
  BY <1>2, <1>10 DEF Serve, Deliver, FetchFails, Settle, exporterVars
<1>11. QED
  BY <1>3, <1>4, <1>5, <1>6, <1>7, <1>8, <1>9, <1>10 DEF Next

\* The page shows what was stored, and the poll that is current was answered after the
\* one that it shows.
LEMMA NextPage == IInv /\ [Next]_vars => PageInv' /\ shown <= shown'
<1> SUFFICES ASSUME IInv, [Next]_vars PROVE PageInv' /\ shown <= shown'
  OBVIOUS
<1>0. /\ TypeOK /\ PageInv /\ fetches \subseteq Fetches
      /\ shown \in Int /\ polls \in Nat /\ stored.gen \in Int
      /\ \A f \in fetches : f.gen \in Int /\ f.id \in Nat
  BY Numbers DEF IInv, TypeOK, Fetches, Snapshots
<1>1. stored.gen <= stored'.gen /\ stored'.gen \in Int
  BY NextBucket, NextTyped, Numbers DEF TypeOK, Snapshots
<1>2. ASSUME UNCHANGED <<polls, shown>>, fetches' \subseteq fetches,
             active' \in {active, None}
      PROVE  PageInv' /\ shown <= shown'
  <2>1. \A f \in fetches' : f.id # None
    BY <1>0, <1>2, Numbers
  <2>2. QED
    BY <1>0, <1>1, <1>2, <2>1 DEF PageInv
<1>3. CASE Tick \/ UNCHANGED vars
  BY <1>2, <1>3 DEF Tick, vars, pageVars
<1>4. ASSUME NEW e \in Exporters, Build(e) \/ GiveUp(e)
      PROVE  PageInv' /\ shown <= shown'
  BY <1>2, <1>4 DEF Build, GiveUp, pageVars
<1>5. ASSUME NEW u \in uploads, Lose(u) \/ Refuse(u) \/ Head(u) \/ Put(u)
      PROVE  PageInv' /\ shown <= shown'
  BY <1>2, <1>5 DEF Lose, Refuse, Head, Put, pageVars
<1>6. ASSUME StartPoll, UNCHANGED <<stored, shown>>
      PROVE  PageInv' /\ shown <= shown'
  <2> DEFINE new == [id |-> polls', served |-> FALSE, gen |-> None]
  <2>1. /\ polls' = polls + 1 /\ active' = polls' /\ fetches' = fetches \cup {new}
    BY <1>0, <1>6, StartedPoll
  <2>2. new.id = polls' /\ ~new.served
    OBVIOUS
  <2> HIDE DEF new
  <2>3. \A f \in fetches : f.id <= polls' /\ f.id # active'
    BY <1>0, <2>1 DEF PageInv
  <2>4. QED
    BY <1>0, <1>6, <2>1, <2>2, <2>3 DEF PageInv
<1>7. CASE TimerFires \/ Show
  BY <1>6, <1>7 DEF TimerFires, Show
<1>8. CASE Hide
  BY <1>2, <1>8 DEF Hide
<1>9. ASSUME NEW f \in fetches, Serve(f)
      PROVE  PageInv' /\ shown <= shown'
  <2> DEFINE answered == [f EXCEPT !.served = TRUE, !.gen = stored.gen]
  <2>1. answered.id = f.id /\ answered.gen = stored.gen
    BY <1>0 DEF Fetches
  <2>2. fetches' = (fetches \ {f}) \cup {answered} /\ UNCHANGED <<stored, active, polls, shown>>
    BY <1>9 DEF Serve
  <2> HIDE DEF answered
  <2>3. QED
    BY <1>0, <2>1, <2>2 DEF PageInv
<1>10. ASSUME NEW f \in fetches, Deliver(f)
       PROVE  PageInv' /\ shown <= shown'
  <2>1. fetches' = fetches \ {f} /\ UNCHANGED <<polls, stored>> /\ f.served
    BY <1>10 DEF Deliver, Settle
  <2>2. CASE active = f.id /\ f.gen # None
    <3>1. shown' = f.gen /\ active' = None
      BY <1>10, <2>2 DEF Deliver, Settle
    <3>2. shown <= f.gen /\ f.gen <= stored.gen
      BY <2>1, <2>2 DEF IInv, PageInv
    <3>3. \A g \in fetches' : g.id # None
      BY <1>0, <2>1, Numbers
    <3>4. QED
      BY <1>0, <2>1, <3>1, <3>2, <3>3 DEF PageInv
  <2>3. CASE ~(active = f.id /\ f.gen # None)
    <3>1. shown' = shown /\ active' \in {active, None}
      BY <1>10, <2>3 DEF Deliver, Settle
    <3>2. QED
      BY <1>2, <2>1, <3>1
  <2>4. QED
    BY <2>2, <2>3
<1>11. ASSUME NEW f \in fetches, FetchFails(f)
       PROVE  PageInv' /\ shown <= shown'
  BY <1>2, <1>11 DEF FetchFails, Settle
<1>12. QED
  BY <1>3, <1>4, <1>5, <1>7, <1>8, <1>9, <1>10, <1>11 DEF Next

\* useSnapshot never has two polls scheduled or current, and never none while the page
\* is visible.
LEMMA NextPolling == IInv /\ [Next]_vars => PollingOnce'
<1> SUFFICES ASSUME IInv, [Next]_vars PROVE PollingOnce'
  OBVIOUS
<1>0. /\ TypeOK /\ PollingOnce /\ fetches \subseteq Fetches
      /\ visible \in BOOLEAN /\ timer \in BOOLEAN
  BY DEF IInv, TypeOK, Fetches
<1>1. ASSUME UNCHANGED <<visible, timer, active, fetches>> PROVE PollingOnce'
  BY <1>0, <1>1 DEF PollingOnce
<1>2. CASE Tick \/ UNCHANGED vars
  BY <1>1, <1>2 DEF Tick, vars, pageVars
<1>3. ASSUME NEW e \in Exporters, Build(e) \/ GiveUp(e) PROVE PollingOnce'
  BY <1>1, <1>3 DEF Build, GiveUp, pageVars
<1>4. ASSUME NEW u \in uploads, Lose(u) \/ Refuse(u) \/ Head(u) \/ Put(u)
      PROVE  PollingOnce'
  BY <1>1, <1>4 DEF Lose, Refuse, Head, Put, pageVars
<1>5. ASSUME StartPoll, visible' PROVE PollingOnce'
  <2> DEFINE new == [id |-> polls', served |-> FALSE, gen |-> None]
  <2>1. timer' = FALSE /\ active' = polls' /\ active' # None /\ new \in fetches'
    BY <1>0, <1>5, StartedPoll
  <2>2. new.id = active'
    BY <2>1
  <2> HIDE DEF new
  <2>3. QED
    BY <1>5, <2>1, <2>2 DEF PollingOnce
<1>6. CASE TimerFires
  <2>1. visible'
    BY <1>0, <1>6 DEF TimerFires, PollingOnce
  <2>2. QED
    BY <1>5, <1>6, <2>1 DEF TimerFires
<1>7. CASE Show
  BY <1>5, <1>7 DEF Show
<1>8. CASE Hide
  BY <1>8 DEF Hide, PollingOnce
<1>9. ASSUME NEW f \in fetches, Serve(f) PROVE PollingOnce'
  <2> DEFINE answered == [f EXCEPT !.served = TRUE, !.gen = stored.gen]
  <2>1. answered.id = f.id
    BY <1>0 DEF Fetches
  <2>2. fetches' = (fetches \ {f}) \cup {answered} /\ UNCHANGED <<visible, timer, active>>
    BY <1>9 DEF Serve
  <2> HIDE DEF answered
  <2>3. (\E g \in fetches : g.id = active) => \E g \in fetches' : g.id = active
    BY <2>1, <2>2
  <2>4. QED
    BY <1>0, <2>2, <2>3 DEF PollingOnce
<1>10. ASSUME NEW f \in fetches, Settle(f) PROVE PollingOnce'
  <2>1. fetches' = fetches \ {f} /\ visible' = visible
    BY <1>10 DEF Settle
  <2>2. CASE active = f.id
    <3>1. timer' = visible /\ active' = None
      BY <1>10, <2>2 DEF Settle
    <3>2. QED
      BY <1>0, <2>1, <3>1 DEF PollingOnce
  <2>3. CASE active # f.id
    <3>1. UNCHANGED <<timer, active>>
      BY <1>10, <2>3 DEF Settle
    <3>2. (\E g \in fetches : g.id = active) => \E g \in fetches' : g.id = active
      BY <2>1, <2>3
    <3>3. QED
      BY <1>0, <2>1, <3>1, <3>2 DEF PollingOnce
  <2>4. QED
    BY <2>2, <2>3
<1>11. ASSUME NEW f \in fetches, Deliver(f) \/ FetchFails(f) PROVE PollingOnce'
  BY <1>10, <1>11 DEF Deliver, FetchFails
<1>12. QED
  BY <1>2, <1>3, <1>4, <1>6, <1>7, <1>8, <1>9, <1>11 DEF Next

--------------------------------------------------------------------------------
\* The inductive invariant holds of the specification.
THEOREM PublicationInvariant == Spec => []IInv
<1>1. Init => IInv
  <2> SUFFICES ASSUME Init PROVE IInv
    OBVIOUS
  <2>1. TypeOK
    <3>1. [at |-> None, healthy |-> FALSE, gen |-> None] \in States
      BY DEF States
    <3>2. health \in [Exporters -> States]
      BY <3>1 DEF Init
    <3>3. /\ waiting \in [Exporters -> Times \cup {None}]
          /\ built \in [Exporters -> Times \cup {None}]
      BY DEF Init
    <3>4. stored \in Snapshots /\ shown \in Times \cup {None}
          /\ active \in (1..MaxPolls) \cup {None}
      BY DEF Init, Nothing, Snapshots
    <3>5. now \in Times /\ polls \in 0..MaxPolls
      BY Numbers DEF Init
    <3>6. visible \in BOOLEAN /\ timer \in BOOLEAN
      BY Zenon DEF Init
    <3>7. uploads = {} /\ fetches = {}
      BY DEF Init
    <3>8. QED
      BY <3>2, <3>3, <3>4, <3>5, <3>6, <3>7 DEF TypeOK, States
  <2>2. BucketInv
    <3>1. uploads = {} /\ \A e \in Exporters : ~health[e].healthy
      BY DEF Init
    <3>2. QED
      BY <3>1 DEF BucketInv
  <2>3. PageInv
    BY DEF Init, PageInv, Nothing, None
  <2>4. PollingOnce
    <3>1. visible \in BOOLEAN /\ timer = visible /\ active = None
      BY Zenon DEF Init
    <3>2. QED
      BY <3>1 DEF PollingOnce
  <2>5. QED
    BY <2>1, <2>2, <2>3, <2>4 DEF IInv
<1>2. IInv /\ [Next]_vars => IInv'
  BY NextTyped, NextBucket, NextPage, NextPolling DEF IInv
<1>3. QED
  BY <1>1, <1>2, PTL DEF Spec

\* Hiding and showing the page, aborting its polls and late answers neither stop its
\* polling nor start it twice.
THEOREM PagePollsOnce == Spec => []PollingOnce
<1>1. IInv => PollingOnce
  BY DEF IInv
<1>2. QED
  BY <1>1, PublicationInvariant, PTL

\* However late a request reaches the worker, whoever publishes beside it and whichever
\* polls the page aborts, neither the bucket nor the page goes back in time.
THEOREM NeverGoesBack == Spec => NeverOlder
<1>1. IInv /\ [Next]_vars => [stored'.gen >= stored.gen /\ shown' >= shown]_vars
  <2> SUFFICES ASSUME IInv, [Next]_vars
               PROVE  stored'.gen >= stored.gen /\ shown' >= shown
    OBVIOUS
  <2>1. stored.gen <= stored'.gen /\ shown <= shown'
    BY NextBucket, NextPage
  <2>2. /\ stored.gen \in Int /\ stored'.gen \in Int /\ shown \in Int /\ shown' \in Int
    BY NextTyped, Numbers DEF IInv, TypeOK, Snapshots
  <2>3. QED
    BY <2>1, <2>2
<1>2. QED
  BY <1>1, PublicationInvariant, PTL DEF Spec, NeverOlder

\* While the healthcheck of an exporter passes, the snapshot of its last attempt, or a
\* newer one, is in the bucket.
THEOREM HealthyExporterIsPublished == Spec => []HealthyIsPublished
<1>1. IInv => HealthyIsPublished
  <2> SUFFICES ASSUME IInv, NEW e \in Exporters, Healthcheck(e)
               PROVE  stored.gen >= health[e].gen
    BY DEF HealthyIsPublished
  <2>1. health[e].gen <= stored.gen
    BY DEF IInv, BucketInv, Healthcheck
  <2>2. health[e].gen \in Int /\ stored.gen \in Int
    BY Numbers DEF IInv, TypeOK, Snapshots
  <2>3. QED
    BY <2>1, <2>2
<1>2. QED
  BY <1>1, PublicationInvariant, PTL
================================================================================
