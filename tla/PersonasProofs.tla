--------------------------- MODULE PersonasProofs ---------------------------
(***************************************************************************)
(* Theorems about Personas, for any injections, any number of cron jobs    *)
(* and any number of failures.                                             *)
(***************************************************************************)
EXTENDS Personas, TLAPS

Injecting == {"find", "create", "store"}
Applying == {"secrets", "identity", "identify", "read", "patch", "jobs", "update", "fail"}
RollingBack == {"remove", "restore", "mark"}
CallStates ==
  [at : {"rest", "config", "jobs", "fail"} \cup Injecting \cup Applying \cup RollingBack,
   read : Personae, jobs : 0..JobCount]
SnapshotStates ==
  [status : {"none", "in_progress", "completed", "failed", "rolled_back"}, config : Personae, jobs : 0..JobCount]
Names(config, i) == config.identity = i \/ i \in config.patches
Known(i) == snapshots[i].status # "none"
JobsOf(i) == {n \in 1..JobCount : <<i, n>> \in cronJobs}

\* A call that is where it is has the snapshot that goes with it.
CallsMatchSnapshots == \A i \in Injections :
  /\ InjectAt(i, "rest") => injecting[i].jobs = 0
  /\ injecting[i].at \in {"config"} \cup Injecting => ~Known(i)
  /\ injecting[i].at \in Applying => snapshots[i].status = "in_progress"
  /\ injecting[i].at \in RollingBack => snapshots[i].status # "none" /\ i \in undone
  /\ snapshots[i].status = "rolled_back" => i \in undone
  /\ snapshots[i].status = "completed" => snapshots[i].jobs = JobCount
  /\ InjectAt(i, "remove") => injecting[i].jobs < snapshots[i].jobs

\* What an injection has put into the bot stays until its own or an older one's rollback.
AppliedStays == \A i \in Injections :
  /\ injecting[i].at \notin {"jobs", "update", "fail", "rest"} \cup RollingBack => injecting[i].jobs = 0
  /\ InjectAt(i, "jobs") => injecting[i].jobs < JobCount
  /\ InjectAt(i, "update") => injecting[i].jobs = JobCount
  /\ injecting[i].at \in {"jobs", "update"} => 1..injecting[i].jobs \subseteq JobsOf(i)
  /\ snapshots[i].status = "completed" /\ i \notin undone => JobsOf(i) = 1..JobCount
  /\ (snapshots[i].status = "completed" \/ injecting[i].at \in {"jobs", "update"}) /\ i \notin undone =>
       i \in persona.patches

\* Who is named anywhere has a snapshot, and one that another may know is entangled.
NamedAreKnown == \A i \in Injections :
  /\ Names(persona, i) => Known(i)
  /\ \A n \in 1..JobCount : <<i, n>> \in cronJobs => Known(i)
  /\ \A j \in Injections :
       /\ Names(snapshots[j].config, i) => Known(i) /\ i \in entangled
       /\ injecting[j].at \in Injecting /\ Names(injecting[j].read, i) => Known(i) /\ i \in entangled
       /\ injecting[j].at \in {"config"} \cup Injecting /\ i # j /\ i \notin entangled =>
            ~Known(i) /\ InjectAt(i, "rest")

\* What a rollback that was whole has taken away so far.
RolledBackIsGone == \A i \in Injections : i \notin entangled =>
  /\ injecting[i].at \in RollingBack => snapshots[i].status \in {"completed", "rolled_back"}
  /\ snapshots[i].status = "rolled_back" => snapshots[i].jobs = JobCount
  /\ InjectAt(i, "remove") => \A n \in JobsOf(i) : n > injecting[i].jobs
  /\ InjectAt(i, "restore") \/ InjectAt(i, "mark") \/ snapshots[i].status = "rolled_back" => JobsOf(i) = {}
  /\ InjectAt(i, "mark") \/ snapshots[i].status = "rolled_back" => ~Names(persona, i)

PersonaInv == PersonaTypeOK /\ CallsMatchSnapshots /\ AppliedStays /\ NamedAreKnown /\ RolledBackIsGone

LEMMA PersonaInvInit == PersonaInit => PersonaInv
  BY PersonaAssumption
     DEF PersonaInit, PersonaInv, PersonaTypeOK, CallsMatchSnapshots, AppliedStays, NamedAreKnown,
         RolledBackIsGone, InjectAt, Names, Known, JobsOf, Injecting, Applying, RollingBack, Personae,
         Untouched, NoSnapshot, NotInjecting

LEMMA MovedIsCall ==
  ASSUME PersonaTypeOK, NEW k \in Injections, NEW m \in 0..JobCount,
         NEW s \in {"jobs", "update", "remove", "restore"}
  PROVE  [injecting EXCEPT ![k].jobs = m, ![k].at = s] \in [Injections -> CallStates]
  <1> DEFINE Places == {"rest", "config", "jobs", "fail"} \cup Injecting \cup Applying \cup RollingBack
  <1>1. injecting \in [Injections -> CallStates]
    BY DEF PersonaTypeOK, CallStates, Injecting, Applying, RollingBack
  <1>2. s \in Places
    BY DEF Applying, RollingBack
  <1> HIDE DEF Places
  <1>3. CallStates = [at : Places, read : Personae, jobs : 0..JobCount]
    BY DEF CallStates, Places
  <1>4. ASSUME NEW c \in CallStates PROVE [c EXCEPT !.jobs = m] \in CallStates
    BY <1>3
  <1>5. ASSUME NEW c \in CallStates PROVE [c EXCEPT !.at = s] \in CallStates
    BY <1>2, <1>3
  <1>6. [[injecting[k] EXCEPT !.jobs = m] EXCEPT !.at = s] \in CallStates
    BY <1>1, <1>4, <1>5
  <1>7. QED
    BY <1>1, <1>6

\* What adding a job and removing one make of the call.
LEMMA AddJobMoves ==
  ASSUME PersonaInv, NEW k \in Injections, AddJob(k)
  PROVE  LET n == injecting[k].jobs + 1
         IN /\ InjectAt(k, "jobs") /\ n \in 1..JobCount
            /\ \/ n = JobCount /\ injecting'[k].at = "update"
               \/ n < JobCount /\ injecting'[k].at = "jobs"
            /\ injecting'[k].jobs = n
            /\ injecting'[k].read = injecting[k].read
            /\ \A i \in Injections : i # k => injecting'[i] = injecting[i]
            /\ \A i \in Injections, m \in 1..JobCount :
                 <<i, m>> \in cronJobs' <=> <<i, m>> \in cronJobs \/ (i = k /\ m = n)
            /\ UNCHANGED <<persona, templateRow, snapshots, undone, entangled, personaLeft>>
  <1>1. injecting[k].jobs \in 0..JobCount /\ injecting[k].jobs < JobCount /\ InjectAt(k, "jobs")
    BY DEF PersonaInv, PersonaTypeOK, AppliedStays, AddJob
  <1>2. injecting[k].jobs + 1 \in 1..JobCount
    BY <1>1, PersonaAssumption
  <1>3. injecting[k].jobs + 1 = JobCount \/ injecting[k].jobs + 1 < JobCount
    BY <1>1, PersonaAssumption
  <1>4. QED
    BY <1>1, <1>2, <1>3 DEF PersonaInv, PersonaTypeOK, AddJob

LEMMA RemoveJobMoves ==
  ASSUME PersonaInv, NEW k \in Injections, RemoveJob(k)
  PROVE  LET n == injecting[k].jobs + 1
         IN /\ InjectAt(k, "remove") /\ n \in 1..JobCount /\ n <= snapshots[k].jobs
            /\ \/ n = snapshots[k].jobs /\ injecting'[k].at = "restore"
               \/ n < snapshots[k].jobs /\ injecting'[k].at = "remove"
            /\ injecting'[k].jobs = n /\ injecting'[k].read = injecting[k].read
            /\ \A i \in Injections : i # k => injecting'[i] = injecting[i]
            /\ \A i \in Injections, m \in 1..JobCount :
                 <<i, m>> \in cronJobs' =>
                   <<i, m>> \in cronJobs /\ (i = k /\ k \notin entangled' => m # n)
            /\ \A i \in Injections, m \in 1..JobCount : i # k =>
                 (<<i, m>> \in cronJobs' <=> <<i, m>> \in cronJobs)
            /\ entangled \subseteq entangled'
            /\ UNCHANGED <<persona, templateRow, snapshots, undone>>
  <1>1. /\ injecting[k].jobs \in 0..JobCount /\ snapshots[k].jobs \in 0..JobCount
        /\ injecting[k].jobs < snapshots[k].jobs /\ InjectAt(k, "remove")
    BY DEF PersonaInv, PersonaTypeOK, CallsMatchSnapshots, RemoveJob
  <1>2. injecting[k].jobs + 1 \in 1..JobCount /\ injecting[k].jobs + 1 <= snapshots[k].jobs
    BY <1>1, PersonaAssumption
  <1>3. QED
    BY <1>1, <1>2 DEF PersonaInv, PersonaTypeOK, RemoveJob

\* A step of the call k.
CallSteps(k) ==
  \/ Inject(k) \/ GetConfig(k) \/ FindTemplateRow(k) \/ CreateTemplateRow(k) \/ CreateSnapshot(k)
  \/ StoreSecrets(k) \/ InjectIdentity(k) \/ ApplyPatch(k) \/ AddJob(k) \/ UpdateSnapshotCronJobs(k)
  \/ InjectionFails(k) \/ MarkSnapshotFailed(k)
  \/ Rollback(k) \/ RemoveJob(k) \/ RestoreConfig(k) \/ MarkRolledBack(k)

\* A call keeps the types.
LEMMA CallKeepsTypes ==
  ASSUME PersonaInv, NEW k \in Injections, CallSteps(k)
  PROVE  PersonaTypeOK'
  <1> USE PersonaAssumption DEF PersonaInv, PersonaTypeOK
  <1>1. CASE Inject(k)
    BY <1>1, SMTT(30) DEF Inject, GoesTo, NoneInjects
  <1>2. CASE GetConfig(k)
    BY <1>2, SMTT(30) DEF GetConfig, InjectAt
  <1>3. CASE FindTemplateRow(k)
    BY <1>3, SMTT(30) DEF FindTemplateRow, GoesTo
  <1>4. CASE CreateTemplateRow(k)
    BY <1>4, SMTT(30) DEF CreateTemplateRow, GoesTo, IsOver, NotInjecting, Untouched, Personae
  <1>5. CASE CreateSnapshot(k)
    BY <1>5, SMTT(30) DEF CreateSnapshot, GoesTo
  <1>6. CASE StoreSecrets(k)
    BY <1>6, SMTT(30) DEF StoreSecrets, GoesTo
  <1>7. CASE InjectIdentity(k)
    BY <1>7, SMTT(30) DEF InjectIdentity, GoesTo, Applies, Personae
  <1>8. CASE ApplyPatch(k)
    BY <1>8, SMTT(30) DEF ApplyPatch, GoesTo, Applies, Personae
  <1>9. CASE AddJob(k)
    <2> DEFINE n == injecting[k].jobs + 1
    <2>1. n \in 1..JobCount /\ n \in 0..JobCount
      BY <1>9, AddJobMoves
    <2> HIDE DEF n
    <2>2. injecting' \in [Injections -> CallStates]
      <3>1. PICK s \in {"update", "jobs"} : injecting' = [injecting EXCEPT ![k].jobs = n, ![k].at = s]
        BY <1>9 DEF AddJob, n
      <3>2. QED
        BY <2>1, <3>1, MovedIsCall
    <2>3. cronJobs' \subseteq Injections \X (1..JobCount)
      BY <1>9, <2>1 DEF AddJob, n
    <2>4. UNCHANGED <<persona, templateRow, snapshots, undone>> /\ entangled' \subseteq Injections /\ personaLeft' \in Nat
      BY <1>9, AddJobMoves
    <2>5. QED
      BY <2>2, <2>3, <2>4 DEF CallStates, Injecting, Applying, RollingBack
  <1>10. CASE UpdateSnapshotCronJobs(k)
    <2>1. injecting[k].jobs \in 0..JobCount
      OBVIOUS
    <2>2. snapshots' \in [Injections -> SnapshotStates]
      BY <1>10, <2>1 DEF UpdateSnapshotCronJobs, SnapshotStates
    <2>3. injecting' \in [Injections -> CallStates]
      BY <1>10 DEF UpdateSnapshotCronJobs, IsOver, NotInjecting, Untouched, Personae, CallStates, Injecting,
         Applying, RollingBack
    <2>4. UNCHANGED <<persona, cronJobs, templateRow, undone, entangled, personaLeft>>
      BY <1>10 DEF UpdateSnapshotCronJobs
    <2>5. QED
      BY <2>2, <2>3, <2>4 DEF SnapshotStates, CallStates, Injecting, Applying, RollingBack
  <1>11. CASE InjectionFails(k)
    BY <1>11, SMTT(30) DEF InjectionFails, GoesTo, IsOver, NotInjecting, Untouched, Personae
  <1>12. CASE MarkSnapshotFailed(k)
    BY <1>12, SMTT(30) DEF MarkSnapshotFailed, IsOver, NotInjecting, Untouched, Personae
  <1>13. CASE Rollback(k)
    BY <1>13, SMTT(30) DEF Rollback
  <1>14. CASE RemoveJob(k)
    <2> DEFINE n == injecting[k].jobs + 1
    <2>1. n \in 1..JobCount /\ n \in 0..JobCount
      BY <1>14, RemoveJobMoves
    <2> HIDE DEF n
    <2>2. injecting' \in [Injections -> CallStates]
      <3>1. PICK s \in {"restore", "remove"} : injecting' = [injecting EXCEPT ![k].jobs = n, ![k].at = s]
        BY <1>14 DEF RemoveJob, n
      <3>2. QED
        BY <2>1, <3>1, MovedIsCall
    <2>3. cronJobs' \subseteq Injections \X (1..JobCount)
      BY <1>14, <2>1 DEF RemoveJob, n
    <2>4. UNCHANGED <<persona, templateRow, snapshots, undone>> /\ entangled' \subseteq Injections /\ personaLeft' \in Nat
      BY <1>14 DEF RemoveJob
    <2>5. QED
      BY <2>2, <2>3, <2>4 DEF CallStates, Injecting, Applying, RollingBack
  <1>15. CASE RestoreConfig(k)
    BY <1>15, SMTT(30) DEF RestoreConfig, GoesTo, IsOver, NotInjecting, Untouched, Personae
  <1>16. CASE MarkRolledBack(k)
    BY <1>16, SMTT(30) DEF MarkRolledBack, IsOver, NotInjecting, Untouched, Personae
  <1>17. QED
    BY <1>1, <1>2, <1>3, <1>4, <1>5, <1>6, <1>7, <1>8, <1>9, <1>10, <1>11, <1>12, <1>13, <1>14,
       <1>15, <1>16 DEF CallSteps

\* ... and each call with the snapshot it belongs to,
LEMMA CallKeepsMatch ==
  ASSUME PersonaInv, PersonaTypeOK', NEW k \in Injections, CallSteps(k)
  PROVE  CallsMatchSnapshots'
  <1> USE PersonaAssumption
      DEF PersonaInv, PersonaTypeOK, CallsMatchSnapshots, InjectAt, Known, Injecting, Applying,
          RollingBack
  <1>1. CASE Inject(k)
    BY <1>1, SMTT(30) DEF Inject, GoesTo, NoneInjects
  <1>2. CASE GetConfig(k)
    BY <1>2, SMTT(30) DEF GetConfig
  <1>3. CASE FindTemplateRow(k)
    BY <1>3, SMTT(30) DEF FindTemplateRow, GoesTo
  <1>4. CASE CreateTemplateRow(k)
    <2>1. CASE templateRow
      BY <1>4, <2>1, SMTT(30) DEF CreateTemplateRow, GoesTo, IsOver, NotInjecting
    <2>2. CASE ~templateRow
      BY <1>4, <2>2, SMTT(30) DEF CreateTemplateRow, GoesTo, IsOver, NotInjecting
    <2>3. QED
      BY <1>4, <2>1, <2>2 DEF CreateTemplateRow, GoesTo, IsOver, NotInjecting
  <1>5. CASE CreateSnapshot(k)
    BY <1>5, SMTT(30) DEF CreateSnapshot, GoesTo, NoSnapshot
  <1>6. CASE StoreSecrets(k)
    BY <1>6, SMTT(30) DEF StoreSecrets, GoesTo
  <1>7. CASE InjectIdentity(k)
    <2>1. CASE Applies(k, [injecting[k].read EXCEPT !.identity = k]) /\ GoesTo(k, "read")
      BY <1>7, <2>1, SMTT(30) DEF InjectIdentity, GoesTo, Applies
    <2>2. CASE UNCHANGED persona /\ GoesTo(k, "fail")
      BY <1>7, <2>2, SMTT(30) DEF InjectIdentity, GoesTo, Applies
    <2>3. QED
      BY <1>7, <2>1, <2>2 DEF InjectIdentity, GoesTo, Applies
  <1>8. CASE ApplyPatch(k)
    <2>1. CASE Applies(k, [injecting[k].read EXCEPT !.patches = @ \cup {k}])
      BY <1>8, <2>1, SMTT(30) DEF ApplyPatch, GoesTo, Applies
    <2>2. CASE UNCHANGED persona /\ GoesTo(k, "fail")
      BY <1>8, <2>2, SMTT(30) DEF ApplyPatch, GoesTo, Applies
    <2>3. QED
      BY <1>8, <2>1, <2>2 DEF ApplyPatch, GoesTo, Applies
  <1>9. CASE AddJob(k)
    BY <1>9, AddJobMoves, SMTT(30)
  <1>10. CASE UpdateSnapshotCronJobs(k)
    <2>1. snapshots[k].jobs \in 0..JobCount /\ injecting[k].jobs = JobCount
      BY <1>10 DEF AppliedStays, UpdateSnapshotCronJobs
    <2>2. QED
      BY <1>10, <2>1, SMTT(30) DEF UpdateSnapshotCronJobs, IsOver, NotInjecting
  <1>11. CASE InjectionFails(k)
    <2>1. CASE ~Known(k)
      BY <1>11, <2>1, SMTT(30) DEF InjectionFails, GoesTo, IsOver, NotInjecting
    <2>2. CASE Known(k)
      BY <1>11, <2>2, SMTT(30) DEF InjectionFails, GoesTo, IsOver, NotInjecting
    <2>3. QED
      BY <1>11, <2>1, <2>2 DEF InjectionFails, GoesTo, IsOver, NotInjecting
  <1>12. CASE MarkSnapshotFailed(k)
    BY <1>12, SMTT(30) DEF MarkSnapshotFailed, IsOver, NotInjecting
  <1>13. CASE Rollback(k)
    <2>1. CASE snapshots[k].jobs = 0
      BY <1>13, <2>1, SMTT(30) DEF Rollback
    <2>2. CASE snapshots[k].jobs # 0
      BY <1>13, <2>2, SMTT(30) DEF Rollback
    <2>3. QED
      BY <1>13, <2>1, <2>2 DEF Rollback
  <1>14. CASE RemoveJob(k)
    <2> DEFINE n == injecting[k].jobs + 1
    <2>1. n \in Nat /\ snapshots[k].jobs \in Nat /\ n <= snapshots[k].jobs /\ InjectAt(k, "remove")
      BY <1>14, RemoveJobMoves, PersonaAssumption
    <2>2. injecting'[k].at \in {"restore", "remove"}
          /\ (injecting'[k].at = "remove" => injecting'[k].jobs < snapshots[k].jobs)
      BY <1>14, <2>1, RemoveJobMoves
    <2>3. /\ UNCHANGED <<snapshots, undone>>
          /\ \A i \in Injections : i # k => injecting'[i] = injecting[i]
      BY <1>14, RemoveJobMoves
    <2>4. QED
      BY <2>1, <2>2, <2>3
  <1>15. CASE RestoreConfig(k)
    <2>1. CASE GoesTo(k, "mark")
      BY <1>15, <2>1, SMTT(30) DEF RestoreConfig, GoesTo, IsOver, NotInjecting
    <2>2. CASE IsOver(k)
      BY <1>15, <2>2, SMTT(30) DEF RestoreConfig, GoesTo, IsOver, NotInjecting
    <2>3. QED
      BY <1>15, <2>1, <2>2 DEF RestoreConfig, GoesTo, IsOver, NotInjecting
  <1>16. CASE MarkRolledBack(k)
    BY <1>16, SMTT(30) DEF MarkRolledBack, IsOver, NotInjecting
  <1>17. QED
    BY <1>1, <1>2, <1>3, <1>4, <1>5, <1>6, <1>7, <1>8, <1>9, <1>10, <1>11, <1>12, <1>13, <1>14,
       <1>15, <1>16 DEF CallSteps

\* ... takes nothing from an injection that is not undone,
LEMMA CallKeepsApplied ==
  ASSUME PersonaInv, PersonaTypeOK', NEW k \in Injections, CallSteps(k)
  PROVE  AppliedStays'
  <1> USE PersonaAssumption
      DEF PersonaInv, PersonaTypeOK, CallsMatchSnapshots, AppliedStays, InjectAt, Known, JobsOf,
          Injecting, Applying, RollingBack
  <1>1. CASE Inject(k)
    BY <1>1, SMTT(30) DEF Inject, GoesTo, NoneInjects
  <1>2. CASE GetConfig(k)
    BY <1>2, SMTT(30) DEF GetConfig
  <1>3. CASE FindTemplateRow(k)
    BY <1>3, SMTT(30) DEF FindTemplateRow, GoesTo
  <1>4. CASE CreateTemplateRow(k)
    <2>1. CASE templateRow
      BY <1>4, <2>1, SMTT(30) DEF CreateTemplateRow, GoesTo, IsOver, NotInjecting
    <2>2. CASE ~templateRow
      BY <1>4, <2>2, SMTT(30) DEF CreateTemplateRow, GoesTo, IsOver, NotInjecting
    <2>3. QED
      BY <1>4, <2>1, <2>2 DEF CreateTemplateRow, GoesTo, IsOver, NotInjecting
  <1>5. CASE CreateSnapshot(k)
    BY <1>5, SMTT(30) DEF CreateSnapshot, GoesTo, NoSnapshot
  <1>6. CASE StoreSecrets(k)
    BY <1>6, SMTT(30) DEF StoreSecrets, GoesTo
  <1>7. CASE InjectIdentity(k)
    <2>1. CASE Applies(k, [injecting[k].read EXCEPT !.identity = k]) /\ GoesTo(k, "read")
      BY <1>7, <2>1, SMTT(30) DEF InjectIdentity, GoesTo, Applies
    <2>2. CASE UNCHANGED persona /\ GoesTo(k, "fail")
      BY <1>7, <2>2, SMTT(30) DEF InjectIdentity, GoesTo, Applies
    <2>3. QED
      BY <1>7, <2>1, <2>2 DEF InjectIdentity, GoesTo, Applies
  <1>8. CASE ApplyPatch(k)
    <2>1. CASE Applies(k, [injecting[k].read EXCEPT !.patches = @ \cup {k}])
      BY <1>8, <2>1, SMTT(30) DEF ApplyPatch, GoesTo, Applies
    <2>2. CASE UNCHANGED persona /\ GoesTo(k, "fail")
      BY <1>8, <2>2, SMTT(30) DEF ApplyPatch, GoesTo, Applies
    <2>3. QED
      BY <1>8, <2>1, <2>2 DEF ApplyPatch, GoesTo, Applies
  <1>9. CASE AddJob(k)
    <2> DEFINE n == injecting[k].jobs + 1
    <2>1. n \in 1..JobCount /\ JobCount \in Nat /\ injecting[k].jobs = n - 1 /\ snapshots[k].status = "in_progress"
      BY <1>9, AddJobMoves, PersonaAssumption
    <2>2. 1..n \subseteq JobsOf(k)'
      BY <1>9, <2>1, AddJobMoves
    <2>3. /\ injecting'[k].jobs = n
          /\ \/ injecting'[k].at = "update" /\ n = JobCount
             \/ injecting'[k].at = "jobs" /\ n < JobCount
      BY <1>9, <2>1, AddJobMoves
    <2>4. /\ UNCHANGED <<persona, snapshots, undone>>
          /\ \A i \in Injections : i # k => injecting'[i] = injecting[i] /\ JobsOf(i)' = JobsOf(i)
          /\ k \in undone \/ k \in persona.patches
      BY <1>9, AddJobMoves
    <2>5. QED
      BY <2>1, <2>2, <2>3, <2>4
  <1>10. CASE UpdateSnapshotCronJobs(k)
    BY <1>10, SMTT(30) DEF UpdateSnapshotCronJobs, IsOver, NotInjecting
  <1>11. CASE InjectionFails(k)
    <2>1. CASE ~Known(k)
      BY <1>11, <2>1, SMTT(30) DEF InjectionFails, GoesTo, IsOver, NotInjecting
    <2>2. CASE Known(k)
      BY <1>11, <2>2, SMTT(30) DEF InjectionFails, GoesTo, IsOver, NotInjecting
    <2>3. QED
      BY <1>11, <2>1, <2>2 DEF InjectionFails, GoesTo, IsOver, NotInjecting
  <1>12. CASE MarkSnapshotFailed(k)
    BY <1>12, SMTT(30) DEF MarkSnapshotFailed, IsOver, NotInjecting
  <1>13. CASE Rollback(k)
    <2>1. CASE snapshots[k].jobs = 0
      BY <1>13, <2>1, SMTT(30) DEF Rollback
    <2>2. CASE snapshots[k].jobs # 0
      BY <1>13, <2>2, SMTT(30) DEF Rollback
    <2>3. QED
      BY <1>13, <2>1, <2>2 DEF Rollback
  <1>14. CASE RemoveJob(k)
    BY <1>14, RemoveJobMoves, SMTT(30)
  <1>15. CASE RestoreConfig(k)
    <2>1. CASE GoesTo(k, "mark")
      BY <1>15, <2>1, SMTT(30) DEF RestoreConfig, GoesTo, IsOver, NotInjecting
    <2>2. CASE IsOver(k)
      BY <1>15, <2>2, SMTT(30) DEF RestoreConfig, GoesTo, IsOver, NotInjecting
    <2>3. QED
      BY <1>15, <2>1, <2>2 DEF RestoreConfig, GoesTo, IsOver, NotInjecting
  <1>16. CASE MarkRolledBack(k)
    BY <1>16, SMTT(30) DEF MarkRolledBack, IsOver, NotInjecting
  <1>17. QED
    BY <1>1, <1>2, <1>3, <1>4, <1>5, <1>6, <1>7, <1>8, <1>9, <1>10, <1>11, <1>12, <1>13, <1>14,
       <1>15, <1>16 DEF CallSteps

\* What all steps of a call do but those that ask for the configuration or store a snapshot.
MovesOn(k) ==
  /\ \A i \in Injections : Known(i)' <=> Known(i)
  /\ \A i \in Injections : Names(persona, i)' => Known(i)
  /\ \A i \in Injections, n \in 1..JobCount : <<i, n>> \in cronJobs' => Known(i)
  /\ \A j \in Injections : snapshots'[j].config = snapshots[j].config
  /\ entangled \subseteq entangled'
  /\ \A i \in Injections : i # k => injecting'[i] = injecting[i]
  /\ injecting[k].at = "rest" => Known(k)
  /\ injecting'[k].at \in {"config"} \cup Injecting =>
       /\ injecting'[k].at \in Injecting /\ injecting[k].at \in Injecting
       /\ injecting'[k].read = injecting[k].read

LEMMA MovingOnKeepsNamed ==
  ASSUME PersonaInv, NEW k \in Injections, MovesOn(k)
  PROVE  NamedAreKnown'
  <1>1. ASSUME NEW i \in Injections
        PROVE  /\ Names(persona, i)' => Known(i)'
               /\ \A n \in 1..JobCount : <<i, n>> \in cronJobs' => Known(i)'
    BY DEF MovesOn
  <1>2. ASSUME NEW i \in Injections, NEW j \in Injections, Names(snapshots[j].config, i)'
        PROVE  Known(i)' /\ i \in entangled'
    <2>1. Names(snapshots[j].config, i)
      BY <1>2 DEF MovesOn, Names
    <2>2. Known(i) /\ i \in entangled
      BY <2>1 DEF PersonaInv, NamedAreKnown
    <2>3. QED
      BY <2>2 DEF MovesOn
  <1>3. ASSUME NEW i \in Injections, NEW j \in Injections, injecting'[j].at \in Injecting,
               Names(injecting[j].read, i)'
        PROVE  Known(i)' /\ i \in entangled'
    <2>1. injecting[j].at \in Injecting /\ injecting'[j].read = injecting[j].read
      BY <1>3 DEF MovesOn
    <2>2. Names(injecting[j].read, i)
      BY <1>3, <2>1 DEF Names
    <2>3. Known(i) /\ i \in entangled
      BY <2>1, <2>2 DEF PersonaInv, NamedAreKnown
    <2>4. QED
      BY <2>3 DEF MovesOn
  <1>4. ASSUME NEW i \in Injections, NEW j \in Injections, injecting'[j].at \in {"config"} \cup Injecting,
               i # j, i \notin entangled'
        PROVE  ~Known(i)' /\ injecting'[i].at = "rest"
    <2>1. injecting[j].at \in {"config"} \cup Injecting
      BY <1>4 DEF MovesOn
    <2>2. ~Known(i) /\ injecting[i].at = "rest"
      BY <1>4, <2>1 DEF MovesOn, PersonaInv, NamedAreKnown, InjectAt
    <2>3. QED
      BY <2>2 DEF MovesOn
  <1>5. QED
    BY <1>1, <1>2, <1>3, <1>4 DEF NamedAreKnown, InjectAt

LEMMA CallMovesOn ==
  ASSUME PersonaInv, NEW k \in Injections,
         \/ FindTemplateRow(k) \/ CreateTemplateRow(k) \/ StoreSecrets(k) \/ InjectIdentity(k)
         \/ ApplyPatch(k) \/ AddJob(k) \/ UpdateSnapshotCronJobs(k)
         \/ InjectionFails(k) \/ MarkSnapshotFailed(k)
         \/ Rollback(k) \/ RemoveJob(k) \/ RestoreConfig(k) \/ MarkRolledBack(k)
  PROVE  MovesOn(k)
  <1>1. /\ injecting \in [Injections -> CallStates] /\ snapshots \in [Injections -> SnapshotStates]
        /\ \A i \in Injections : Names(persona, i) => Known(i)
        /\ \A i \in Injections, n \in 1..JobCount : <<i, n>> \in cronJobs => Known(i)
        /\ \A i, j \in Injections : Names(snapshots[j].config, i) => Known(i)
        /\ injecting[k].at \in Applying \cup RollingBack => Known(k)
    BY DEF PersonaInv, PersonaTypeOK, CallStates, SnapshotStates, Injecting, Applying, RollingBack,
           CallsMatchSnapshots, NamedAreKnown, Known
  <1>2. CASE FindTemplateRow(k)
    BY <1>1, <1>2, SMTT(30) DEF MovesOn, CallStates, SnapshotStates, Names, Known, Injecting, Applying,
       RollingBack,
       FindTemplateRow, GoesTo, InjectAt
  <1>3. CASE CreateTemplateRow(k)
    BY <1>1, <1>3, SMTT(30) DEF MovesOn, CallStates, SnapshotStates, Names, Known, Injecting, Applying,
       RollingBack,
       CreateTemplateRow, GoesTo, IsOver, NotInjecting, InjectAt
  <1>4. CASE StoreSecrets(k)
    BY <1>1, <1>4, SMTT(30) DEF MovesOn, CallStates, SnapshotStates, Names, Known, Injecting, Applying,
       RollingBack,
       StoreSecrets, GoesTo, InjectAt
  <1>5. CASE InjectIdentity(k)
    <2>1. /\ UNCHANGED <<cronJobs, snapshots, entangled>> /\ injecting[k].at = "identify"
          /\ injecting'[k].at \in {"read", "fail"}
          /\ \A i \in Injections : i # k => injecting'[i] = injecting[i]
      BY <1>1, <1>5 DEF InjectIdentity, GoesTo, InjectAt, CallStates
    <2>2. persona' = [persona EXCEPT !.identity = k] \/ persona' = persona
      BY <1>5 DEF InjectIdentity, Applies
    <2>3. persona \in Personae
      BY DEF PersonaInv, PersonaTypeOK
    <2>4. \A i \in Injections : Names(persona, i)' => i = k \/ Names(persona, i)
      BY <2>2, <2>3 DEF Names, Personae
    <2>5. Known(k)
      BY <1>1, <2>1 DEF Applying
    <2>6. QED
      BY <1>1, <2>1, <2>4, <2>5 DEF MovesOn, Known, Injecting
  <1>6. CASE ApplyPatch(k)
    <2>1. /\ UNCHANGED <<cronJobs, snapshots, entangled>> /\ injecting[k].at = "patch"
          /\ injecting'[k].at \in {"jobs", "update", "fail"}
          /\ \A i \in Injections : i # k => injecting'[i] = injecting[i]
      BY <1>1, <1>6 DEF ApplyPatch, GoesTo, InjectAt, CallStates
    <2>2. persona' = [persona EXCEPT !.patches = @ \cup {k}] \/ persona' = persona
      BY <1>6 DEF ApplyPatch, Applies
    <2>3. persona \in Personae
      BY DEF PersonaInv, PersonaTypeOK
    <2>4. \A i \in Injections : Names(persona, i)' => i = k \/ Names(persona, i)
      BY <2>2, <2>3 DEF Names, Personae
    <2>5. Known(k)
      BY <1>1, <2>1 DEF Applying
    <2>6. QED
      BY <1>1, <2>1, <2>4, <2>5 DEF MovesOn, Known, Injecting
  <1>7. CASE AddJob(k)
    BY <1>1, <1>7, AddJobMoves DEF MovesOn, Names, Known, InjectAt, Injecting, Applying, RollingBack
  <1>8. CASE UpdateSnapshotCronJobs(k)
    BY <1>1, <1>8, SMTT(30) DEF MovesOn, CallStates, SnapshotStates, Names, Known, Injecting, Applying,
       RollingBack,
       UpdateSnapshotCronJobs, IsOver, NotInjecting, InjectAt
  <1>9. CASE InjectionFails(k)
    BY <1>1, <1>9, SMTT(30) DEF MovesOn, CallStates, SnapshotStates, Names, Known, Injecting, Applying,
       RollingBack,
       InjectionFails, GoesTo, IsOver, NotInjecting
  <1>10. CASE MarkSnapshotFailed(k)
    <2>1. /\ UNCHANGED <<persona, cronJobs, entangled>> /\ injecting[k].at = "fail"
          /\ injecting'[k].at = "rest"
          /\ \A i \in Injections : i # k => injecting'[i] = injecting[i]
      BY <1>1, <1>10 DEF MarkSnapshotFailed, IsOver, NotInjecting, InjectAt
    <2>2. snapshots' = [snapshots EXCEPT ![k].status = "failed"] \/ snapshots' = snapshots
      BY <1>10 DEF MarkSnapshotFailed
    <2>3. Known(k)
      BY <1>1, <2>1 DEF Applying, RollingBack
    <2>4. \A i \in Injections : (Known(i)' <=> Known(i)) /\ snapshots'[i].config = snapshots[i].config
      BY <1>1, <2>2, <2>3 DEF Known, SnapshotStates
    <2>5. QED
      BY <1>1, <2>1, <2>3, <2>4 DEF MovesOn, Names, Injecting
  <1>11. CASE Rollback(k)
    BY <1>1, <1>11, SMTT(30) DEF MovesOn, CallStates, SnapshotStates, Names, Known, Injecting, Applying,
       RollingBack,
       Rollback, InjectAt
  <1>12. CASE RemoveJob(k)
    BY <1>1, <1>12, RemoveJobMoves DEF MovesOn, Names, Known, InjectAt, Injecting, Applying, RollingBack
  <1>13. CASE RestoreConfig(k)
    BY <1>1, <1>13, SMTT(30) DEF MovesOn, CallStates, SnapshotStates, Names, Known, Injecting, Applying,
       RollingBack,
       RestoreConfig, GoesTo, IsOver, NotInjecting, InjectAt
  <1>14. CASE MarkRolledBack(k)
    <2>1. /\ UNCHANGED <<persona, cronJobs, entangled>> /\ injecting[k].at = "mark"
          /\ injecting'[k].at = "rest"
          /\ \A i \in Injections : i # k => injecting'[i] = injecting[i]
      BY <1>1, <1>14 DEF MarkRolledBack, IsOver, NotInjecting, InjectAt
    <2>2. snapshots' = [snapshots EXCEPT ![k].status = "rolled_back"] \/ snapshots' = snapshots
      BY <1>14 DEF MarkRolledBack
    <2>3. Known(k)
      BY <1>1, <2>1 DEF Applying, RollingBack
    <2>4. \A i \in Injections : (Known(i)' <=> Known(i)) /\ snapshots'[i].config = snapshots[i].config
      BY <1>1, <2>2, <2>3 DEF Known, SnapshotStates
    <2>5. QED
      BY <1>1, <2>1, <2>3, <2>4 DEF MovesOn, Names, Injecting
  <1>15. QED
    BY <1>2, <1>3, <1>4, <1>5, <1>6, <1>7, <1>8, <1>9, <1>10, <1>11, <1>12, <1>13, <1>14

\* ... names nobody who has no snapshot,
LEMMA CallKeepsNamed ==
  ASSUME PersonaInv, PersonaTypeOK', NEW k \in Injections, CallSteps(k)
  PROVE  NamedAreKnown'
  <1> USE PersonaAssumption
      DEF PersonaInv, PersonaTypeOK, CallsMatchSnapshots, NamedAreKnown, InjectAt, Names, Known,
          Injecting, Applying, RollingBack, Untouched, Personae
  <1>1. CASE Inject(k)
    BY <1>1, SMTT(30) DEF Inject, GoesTo, NoneInjects
  <1>2. CASE GetConfig(k)
    BY <1>2, SMTT(30) DEF GetConfig
  <1>3. CASE CreateSnapshot(k)
    BY <1>3, SMTT(30) DEF CreateSnapshot, GoesTo, NoSnapshot
  <1>4. CASE ~(Inject(k) \/ GetConfig(k) \/ CreateSnapshot(k))
    BY <1>4, CallMovesOn, MovingOnKeepsNamed DEF CallSteps
  <1>5. QED
    BY <1>1, <1>2, <1>3, <1>4

\* ... and brings back nothing that was rolled back.
LEMMA CallKeepsGone ==
  ASSUME PersonaInv, PersonaTypeOK', NEW k \in Injections, CallSteps(k)
  PROVE  RolledBackIsGone'
  <1> USE PersonaAssumption
      DEF PersonaInv, PersonaTypeOK, CallsMatchSnapshots, AppliedStays, NamedAreKnown,
          RolledBackIsGone, InjectAt, Names, Known, JobsOf, Injecting, Applying, RollingBack,
          Untouched
  <1>1. CASE Inject(k)
    BY <1>1, SMTT(30) DEF Inject, GoesTo, NoneInjects
  <1>2. CASE GetConfig(k)
    BY <1>2, SMTT(30) DEF GetConfig
  <1>3. CASE FindTemplateRow(k)
    BY <1>3, SMTT(30) DEF FindTemplateRow, GoesTo
  <1>4. CASE CreateTemplateRow(k)
    <2>1. CASE templateRow
      BY <1>4, <2>1, SMTT(30) DEF CreateTemplateRow, GoesTo, IsOver, NotInjecting
    <2>2. CASE ~templateRow
      BY <1>4, <2>2, SMTT(30) DEF CreateTemplateRow, GoesTo, IsOver, NotInjecting
    <2>3. QED
      BY <1>4, <2>1, <2>2 DEF CreateTemplateRow, GoesTo, IsOver, NotInjecting
  <1>5. CASE CreateSnapshot(k)
    BY <1>5, SMTT(30) DEF CreateSnapshot, GoesTo, NoSnapshot
  <1>6. CASE StoreSecrets(k)
    BY <1>6, SMTT(30) DEF StoreSecrets, GoesTo
  <1>7. CASE InjectIdentity(k)
    <2>1. CASE Applies(k, [injecting[k].read EXCEPT !.identity = k]) /\ GoesTo(k, "read")
      BY <1>7, <2>1, SMTT(30) DEF InjectIdentity, GoesTo, Applies
    <2>2. CASE UNCHANGED persona /\ GoesTo(k, "fail")
      BY <1>7, <2>2, SMTT(30) DEF InjectIdentity, GoesTo, Applies
    <2>3. QED
      BY <1>7, <2>1, <2>2 DEF InjectIdentity, GoesTo, Applies
  <1>8. CASE ApplyPatch(k)
    <2>1. CASE Applies(k, [injecting[k].read EXCEPT !.patches = @ \cup {k}])
      BY <1>8, <2>1, SMTT(30) DEF ApplyPatch, GoesTo, Applies
    <2>2. CASE UNCHANGED persona /\ GoesTo(k, "fail")
      BY <1>8, <2>2, SMTT(30) DEF ApplyPatch, GoesTo, Applies
    <2>3. QED
      BY <1>8, <2>1, <2>2 DEF ApplyPatch, GoesTo, Applies
  <1>9. CASE AddJob(k)
    BY <1>9, AddJobMoves, SMTT(30)
  <1>10. CASE UpdateSnapshotCronJobs(k)
    BY <1>10, SMTT(30) DEF UpdateSnapshotCronJobs, IsOver, NotInjecting
  <1>11. CASE InjectionFails(k)
    <2>1. CASE ~Known(k)
      BY <1>11, <2>1, SMTT(30) DEF InjectionFails, GoesTo, IsOver, NotInjecting
    <2>2. CASE Known(k)
      BY <1>11, <2>2, SMTT(30) DEF InjectionFails, GoesTo, IsOver, NotInjecting
    <2>3. QED
      BY <1>11, <2>1, <2>2 DEF InjectionFails, GoesTo, IsOver, NotInjecting
  <1>12. CASE MarkSnapshotFailed(k)
    BY <1>12, SMTT(30) DEF MarkSnapshotFailed, IsOver, NotInjecting
  <1>13. CASE Rollback(k)
    <2>1. CASE snapshots[k].jobs = 0
      BY <1>13, <2>1, SMTT(30) DEF Rollback
    <2>2. CASE snapshots[k].jobs # 0
      BY <1>13, <2>2, SMTT(30) DEF Rollback
    <2>3. QED
      BY <1>13, <2>1, <2>2 DEF Rollback
  <1>14. CASE RemoveJob(k)
    <2> DEFINE n == injecting[k].jobs + 1
    <2>1. /\ injecting[k].jobs \in Nat /\ JobCount \in Nat /\ snapshots[k].jobs \in 0..JobCount
          /\ n <= snapshots[k].jobs /\ InjectAt(k, "remove")
      BY <1>14, RemoveJobMoves, PersonaAssumption
    <2>2. /\ UNCHANGED <<persona, snapshots, undone>> /\ entangled \subseteq entangled'
          /\ \A i \in Injections : i # k => injecting'[i] = injecting[i] /\ JobsOf(i)' = JobsOf(i)
      BY <1>14, RemoveJobMoves
    <2>3. k \notin entangled' => /\ snapshots[k].jobs = JobCount
                                /\ \A m \in JobsOf(k)' : m \in JobsOf(k) /\ m > n
      <3> SUFFICES ASSUME k \notin entangled'
                   PROVE  snapshots[k].jobs = JobCount /\ \A m \in JobsOf(k)' : m \in JobsOf(k) /\ m > n
        OBVIOUS
      <3>1. snapshots[k].jobs = JobCount /\ \A m \in JobsOf(k) : m > injecting[k].jobs
        BY <2>1, <2>2
      <3>2. \A m \in JobsOf(k)' : m \in JobsOf(k) /\ m \in Nat /\ m # n
        BY <1>14, RemoveJobMoves
      <3>3. \A m \in Nat : m > injecting[k].jobs /\ m # n => m > n
        BY <2>1
      <3>4. \A m \in JobsOf(k)' : m > n
        BY <3>1, <3>2, <3>3
      <3>5. QED
        BY <3>1, <3>2, <3>4
    <2>4. /\ injecting'[k].jobs = n
          /\ injecting'[k].at = "remove" \/ (injecting'[k].at = "restore" /\ n = snapshots[k].jobs)
      BY <1>14, RemoveJobMoves
    <2>5. k \notin entangled' /\ injecting'[k].at = "restore" => JobsOf(k)' = {}
      BY <2>1, <2>3, <2>4
    <2>6. QED
      BY <2>1, <2>2, <2>3, <2>4, <2>5
  <1>15. CASE RestoreConfig(k)
    <2>1. CASE GoesTo(k, "mark")
      BY <1>15, <2>1, SMTT(30) DEF RestoreConfig, GoesTo, IsOver, NotInjecting
    <2>2. CASE IsOver(k)
      BY <1>15, <2>2, SMTT(30) DEF RestoreConfig, GoesTo, IsOver, NotInjecting
    <2>3. QED
      BY <1>15, <2>1, <2>2 DEF RestoreConfig, GoesTo, IsOver, NotInjecting
  <1>16. CASE MarkRolledBack(k)
    BY <1>16, SMTT(30) DEF MarkRolledBack, IsOver, NotInjecting
  <1>17. QED
    BY <1>1, <1>2, <1>3, <1>4, <1>5, <1>6, <1>7, <1>8, <1>9, <1>10, <1>11, <1>12, <1>13, <1>14,
       <1>15, <1>16 DEF CallSteps

LEMMA PersonaInvStep == PersonaInv /\ [PersonaNext]_personaVars => PersonaInv'
  <1> SUFFICES ASSUME PersonaInv, [PersonaNext]_personaVars PROVE PersonaInv'
    OBVIOUS
  <1> USE DEF PersonaInv, PersonaTypeOK, CallsMatchSnapshots, AppliedStays, NamedAreKnown, RolledBackIsGone,
              InjectAt, Names, Known, JobsOf
  <1>1. ASSUME NEW k \in Injections, CallSteps(k) PROVE PersonaInv'
    <2>1. PersonaTypeOK'
      BY <1>1, CallKeepsTypes
    <2>2. QED
      BY <1>1, <2>1, CallKeepsMatch, CallKeepsApplied, CallKeepsNamed, CallKeepsGone
  <1>2. CASE EditConfig
    BY <1>2 DEF EditConfig, Personae
  <1>3. CASE PersonaCrash
    <2>1. /\ UNCHANGED <<persona, cronJobs, templateRow, snapshots, undone, entangled>>
          /\ \A i \in Injections : injecting'[i] = NotInjecting
      BY <1>3 DEF PersonaCrash
    <2>2. PersonaTypeOK'
      BY <1>3, PersonaAssumption DEF PersonaCrash, NotInjecting, Untouched, Personae
    <2>3. CallsMatchSnapshots'
      BY <2>1 DEF NotInjecting, Injecting, Applying, RollingBack
    <2>4. AppliedStays'
      BY <2>1 DEF NotInjecting, Injecting, Applying, RollingBack
    <2>5. NamedAreKnown'
      BY <2>1 DEF NotInjecting, Injecting
    <2>6. RolledBackIsGone'
      BY <2>1 DEF NotInjecting, RollingBack
    <2>7. QED
      BY <2>2, <2>3, <2>4, <2>5, <2>6
  <1>4. CASE UNCHANGED personaVars
    BY <1>4 DEF personaVars
  <1>5. CASE ReplaceConfig
    <2>1. /\ UNCHANGED <<cronJobs, templateRow, snapshots, injecting, entangled, personaLeft>>
          /\ undone' = undone \cup persona.patches
          /\ persona' \in Personae /\ persona'.identity = NoOne /\ persona'.patches = {}
      BY <1>5 DEF ReplaceConfig, Untouched, Personae
    <2>2. PersonaTypeOK'
      BY <2>1 DEF Personae
    <2>3. CallsMatchSnapshots'
      BY <2>1
    <2>4. AppliedStays'
      BY <2>1
    <2>5. \A i \in Injections : ~Names(persona, i)'
      BY <2>1, PersonaAssumption
    <2>6. NamedAreKnown' /\ RolledBackIsGone'
      BY <2>1, <2>5
    <2>7. QED
      BY <2>2, <2>3, <2>4, <2>6
  <1>6. QED
    BY <1>1, <1>2, <1>3, <1>4, <1>5 DEF PersonaNext, CallSteps

LEMMA PersonaInvSuffices == PersonaInv => InjectionsAreWhole
  BY DEF PersonaInv, CallsMatchSnapshots, AppliedStays, RolledBackIsGone, InjectionsAreWhole, JobsOf, Names,
         InjectAt

\* Whatever overlaps, fails or dies, an injection that completed has its patches and jobs in
\* the bot until it is rolled back, an older one is, or a reconcile replaces the configuration, and one that was rolled back, untangled from any other, has left nothing.
THEOREM InjectionsWholeOrGone == PersonaSpec => []InjectionsAreWhole
  <1>1. PersonaSpec => []PersonaInv
    BY PersonaInvInit, PersonaInvStep, PTL DEF PersonaSpec
  <1>2. QED
    BY <1>1, PersonaInvSuffices, PTL
=============================================================================
