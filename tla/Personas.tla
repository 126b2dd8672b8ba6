------------------------------ MODULE Personas ------------------------------
(***************************************************************************)
(* Injecting persona templates into a running bot, and rolling injections  *)
(* back: TemplateOrchestratorService with its config and cron injectors.   *)
(* A snapshot of the configuration is stored first; identity and patches   *)
(* are each read, merged and applied under the hash of what was read; the  *)
(* cron jobs of the template are added one by one.                         *)
(***************************************************************************)
EXTENDS Naturals

CONSTANTS
  Injections,    \* injections of one template into one bot; what each puts in is told apart
  NoOne,         \* whose identity the bot has before
  JobCount,      \* the cron jobs of the template
  PersonaFaults  \* how many calls may fail

ASSUME PersonaAssumption == NoOne \notin Injections /\ JobCount \in Nat /\ PersonaFaults \in Nat

VARIABLES
  persona,      \* the gateway's configuration: identity, merged patches, edits of others
  cronJobs,     \* its cron jobs: whose, and which
  templateRow,  \* whether the template has its row
  snapshots,    \* the snapshot of each injection
  injecting,    \* each call: where it is, and the configuration it read
  undone,       \* history: the injections whose rollback began, or whose patches another's or a
                \* reconcile removed
  entangled,    \* history: those another may have in its snapshot, or whose rollback was not whole
  personaLeft

personaVars == <<persona, cronJobs, templateRow, snapshots, injecting, undone, entangled, personaLeft>>

Personae == [identity : Injections \cup {NoOne}, patches : SUBSET Injections, edit : {0, 1}]
Untouched == [identity |-> NoOne, patches |-> {}, edit |-> 0]
NoSnapshot == [status |-> "none", config |-> Untouched, jobs |-> 0]
NotInjecting == [at |-> "rest", read |-> Untouched, jobs |-> 0]

PersonaTypeOK ==
  /\ persona \in Personae
  /\ cronJobs \subseteq Injections \X (1..JobCount)
  /\ templateRow \in BOOLEAN
  /\ snapshots \in [Injections -> [status : {"none", "in_progress", "completed", "failed", "rolled_back"},
                                   config : Personae, jobs : 0..JobCount]]
  /\ injecting \in [Injections -> [at : {"rest", "config", "find", "create", "store", "secrets", "identity",
                                         "identify", "read", "patch", "jobs", "update", "fail", "remove",
                                         "restore", "mark"},
                                   read : Personae, jobs : 0..JobCount]]
  /\ undone \subseteq Injections /\ entangled \subseteq Injections
  /\ personaLeft \in Nat

PersonaInit ==
  /\ persona = Untouched /\ cronJobs = {}
  /\ templateRow \in BOOLEAN
  /\ snapshots = [i \in Injections |-> NoSnapshot]
  /\ injecting = [i \in Injections |-> NotInjecting]
  /\ undone = {} /\ entangled = {} /\ personaLeft = PersonaFaults

InjectAt(i, s) == injecting[i].at = s
GoesTo(i, s) == injecting' = [injecting EXCEPT ![i].at = s]
NoneInjects == \A i \in Injections : InjectAt(i, "rest")
IsOver(i) == injecting' = [injecting EXCEPT ![i] = NotInjecting]

-----------------------------------------------------------------------------
(* inject() *)

\* The template is found and its secrets are given, or nothing happens.  The snapshot may
\* have all that was injected before, and is taken while others are at work.
Inject(i) ==
  /\ InjectAt(i, "rest") /\ snapshots[i].status = "none"
  /\ GoesTo(i, "config")
  /\ entangled' = entangled \cup {j \in Injections : snapshots[j].status # "none"}
                            \cup IF NoneInjects THEN {} ELSE Injections
  /\ UNCHANGED <<persona, cronJobs, templateRow, snapshots, undone, personaLeft>>

\* getConfig, for the snapshot, for the identity and for the patches.
GetConfig(i) == \E step \in {<<"config", "find">>, <<"identity", "identify">>, <<"read", "patch">>} :
  /\ InjectAt(i, step[1])
  /\ injecting' = [injecting EXCEPT ![i].read = persona, ![i].at = step[2]]
  /\ UNCHANGED <<persona, cronJobs, templateRow, snapshots, undone, entangled, personaLeft>>

FindTemplateRow(i) ==
  /\ InjectAt(i, "find")
  /\ GoesTo(i, IF templateRow THEN "store" ELSE "create")
  /\ UNCHANGED <<persona, cronJobs, templateRow, snapshots, undone, entangled, personaLeft>>

\* The row is unique; without a snapshot there is none to mark as failed.
CreateTemplateRow(i) ==
  /\ InjectAt(i, "create")
  /\ IF templateRow THEN IsOver(i) ELSE GoesTo(i, "store")
  /\ templateRow' = TRUE
  /\ UNCHANGED <<persona, cronJobs, snapshots, undone, entangled, personaLeft>>

CreateSnapshot(i) ==
  /\ InjectAt(i, "store")
  /\ snapshots' = [snapshots EXCEPT ![i] = [status |-> "in_progress", config |-> injecting[i].read, jobs |-> 0]]
  /\ GoesTo(i, "secrets")
  /\ UNCHANGED <<persona, cronJobs, templateRow, undone, entangled, personaLeft>>

StoreSecrets(i) ==
  /\ InjectAt(i, "secrets")
  /\ GoesTo(i, "identity")
  /\ UNCHANGED <<persona, cronJobs, templateRow, snapshots, undone, entangled, personaLeft>>

\* Faulty variant: the gateway is sent no hash.
AppliesBlindly(i, config) == persona' = config
\* What was merged into what was read is applied if that is still the configuration.
Applies(i, config) == injecting[i].read = persona /\ persona' = config

InjectIdentity(i) ==
  /\ InjectAt(i, "identify")
  /\ \/ Applies(i, [injecting[i].read EXCEPT !.identity = i]) /\ GoesTo(i, "read")
     \/ injecting[i].read # persona /\ UNCHANGED persona /\ GoesTo(i, "fail")
  /\ UNCHANGED <<cronJobs, templateRow, snapshots, undone, entangled, personaLeft>>

ApplyPatch(i) ==
  /\ InjectAt(i, "patch")
  /\ \/ Applies(i, [injecting[i].read EXCEPT !.patches = @ \cup {i}])
        /\ GoesTo(i, IF JobCount = 0 THEN "update" ELSE "jobs")
     \/ injecting[i].read # persona /\ UNCHANGED persona /\ GoesTo(i, "fail")
  /\ UNCHANGED <<cronJobs, templateRow, snapshots, undone, entangled, personaLeft>>

AddJob(i) ==
  /\ InjectAt(i, "jobs")
  /\ LET n == injecting[i].jobs + 1
     IN /\ cronJobs' = cronJobs \cup {<<i, n>>}
        /\ injecting' = [injecting EXCEPT ![i].jobs = n, ![i].at = IF n = JobCount THEN "update" ELSE "jobs"]
  /\ UNCHANGED <<persona, templateRow, snapshots, undone, entangled, personaLeft>>

\* Only now does the snapshot know its jobs.
UpdateSnapshotCronJobs(i) ==
  /\ InjectAt(i, "update")
  /\ snapshots' = [snapshots EXCEPT ![i].status = "completed", ![i].jobs = injecting[i].jobs]
  /\ IsOver(i)
  /\ UNCHANGED <<persona, cronJobs, templateRow, undone, entangled, personaLeft>>

\* Any call to the gateway or to the database may fail.
InjectionFails(i) ==
  /\ injecting[i].at \in {"config", "find", "create", "store", "secrets", "identity", "identify", "read",
                          "patch", "jobs", "update"}
  /\ personaLeft > 0 /\ personaLeft' = personaLeft - 1
  /\ IF snapshots[i].status = "none" THEN IsOver(i) ELSE GoesTo(i, "fail")
  /\ UNCHANGED <<persona, cronJobs, templateRow, snapshots, undone, entangled>>

MarkSnapshotFailed(i) ==
  /\ InjectAt(i, "fail") /\ IsOver(i)
  /\ \/ snapshots' = [snapshots EXCEPT ![i].status = "failed"] /\ UNCHANGED personaLeft
     \/ personaLeft > 0 /\ personaLeft' = personaLeft - 1 /\ UNCHANGED snapshots
  /\ UNCHANGED <<persona, cronJobs, templateRow, undone, entangled>>

-----------------------------------------------------------------------------
(* rollback(): its snapshot may have any status, rolled back already among them, but its *)
(* injection is taken to have ended                                                       *)

Rollback(i) ==
  /\ InjectAt(i, "rest") /\ snapshots[i].status # "none"
  /\ injecting' = [injecting EXCEPT ![i].at = IF snapshots[i].jobs = 0 THEN "restore" ELSE "remove"]
  /\ entangled' = entangled \cup IF snapshots[i].status \in {"completed", "rolled_back"} THEN {} ELSE {i}
  /\ undone' = undone \cup {i}
  /\ UNCHANGED <<persona, cronJobs, templateRow, snapshots, personaLeft>>

\* Each job the snapshot lists; one that cannot be removed is left.
RemoveJob(i) ==
  /\ InjectAt(i, "remove")
  /\ LET n == injecting[i].jobs + 1
     IN /\ injecting' = [injecting EXCEPT ![i].jobs = n,
                                          ![i].at = IF n = snapshots[i].jobs THEN "restore" ELSE "remove"]
        /\ \/ cronJobs' = cronJobs \ {<<i, n>>} /\ UNCHANGED <<entangled, personaLeft>>
           \/ /\ personaLeft > 0 /\ personaLeft' = personaLeft - 1
              /\ entangled' = entangled \cup {i} /\ UNCHANGED cronJobs
  /\ UNCHANGED <<persona, templateRow, snapshots, undone>>

\* The old configuration is applied under no hash, over whatever there is.
RestoreConfig(i) ==
  /\ InjectAt(i, "restore")
  /\ \/ persona' = snapshots[i].config /\ GoesTo(i, "mark") /\ UNCHANGED personaLeft
        /\ undone' = undone \cup (persona.patches \ snapshots[i].config.patches)
     \/ /\ personaLeft > 0 /\ personaLeft' = personaLeft - 1
        /\ IsOver(i) /\ UNCHANGED <<persona, undone>>
  /\ UNCHANGED <<cronJobs, templateRow, snapshots, entangled>>

MarkRolledBack(i) ==
  /\ InjectAt(i, "mark") /\ IsOver(i)
  /\ \/ snapshots' = [snapshots EXCEPT ![i].status = "rolled_back"] /\ UNCHANGED personaLeft
     \/ personaLeft > 0 /\ personaLeft' = personaLeft - 1 /\ UNCHANGED snapshots
  /\ UNCHANGED <<persona, cronJobs, templateRow, undone, entangled>>

-----------------------------------------------------------------------------
\* A pairing or the tool policy is patched: the rest of the configuration stays.
EditConfig ==
  /\ persona.edit = 0
  /\ persona' = [persona EXCEPT !.edit = 1]
  /\ UNCHANGED <<cronJobs, templateRow, snapshots, injecting, undone, entangled, personaLeft>>

\* LifecycleManager.update: the configuration that the manifest gives replaces the bot's, as a
\* whole, unless it is the same.  Its hash was read before; were it another, nothing would be applied.
ReplaceConfig ==
  /\ \E e \in {0, 1} : persona' = [Untouched EXCEPT !.edit = e]
  /\ persona' # persona
  /\ undone' = undone \cup persona.patches
  /\ UNCHANGED <<cronJobs, templateRow, snapshots, injecting, entangled, personaLeft>>

PersonaCrash ==
  /\ ~NoneInjects
  /\ personaLeft > 0 /\ personaLeft' = personaLeft - 1
  /\ injecting' = [i \in Injections |-> NotInjecting]
  /\ UNCHANGED <<persona, cronJobs, templateRow, snapshots, undone, entangled>>

PersonaNext ==
  \/ EditConfig \/ ReplaceConfig \/ PersonaCrash
  \/ \E i \in Injections :
       \/ Inject(i) \/ GetConfig(i) \/ FindTemplateRow(i) \/ CreateTemplateRow(i) \/ CreateSnapshot(i)
       \/ StoreSecrets(i) \/ InjectIdentity(i) \/ ApplyPatch(i) \/ AddJob(i) \/ UpdateSnapshotCronJobs(i)
       \/ InjectionFails(i) \/ MarkSnapshotFailed(i)
       \/ Rollback(i) \/ RemoveJob(i) \/ RestoreConfig(i) \/ MarkRolledBack(i)

PersonaSpec == PersonaInit /\ [][PersonaNext]_personaVars

-----------------------------------------------------------------------------
\* An injection is whole or it is gone.  One that completed has its patches and all its
\* cron jobs in the bot, whatever overlapped with it, failed or died, until its rollback
\* begins, that of an older one takes it along, or the reconciler applies the manifest's
\* configuration over it (undone: nothing in the code puts its patches back then).  One
\* that completed and was rolled back has left neither identity nor patch nor job, unless
\* another may have it in its snapshot or a job would not go (entangled).
InjectionsAreWhole == \A i \in Injections :
  LET Jobs == {n \in 1..JobCount : <<i, n>> \in cronJobs}
  IN /\ snapshots[i].status = "completed" /\ InjectAt(i, "rest") /\ i \notin undone =>
          i \in persona.patches /\ Jobs = 1..JobCount
     /\ snapshots[i].status = "rolled_back" /\ i \notin entangled =>
          i \notin persona.patches /\ persona.identity # i /\ Jobs = {}
=============================================================================
