------------------------ MODULE DashboardBox_proofs ------------------------
(***************************************************************************)
(* Proofs about DashboardBox for every number of checkouts, slots, commits *)
(* and revisions and every budget of events: types, and how far a command  *)
(* and a run of boot-pull are from their end.                              *)
(***************************************************************************)
EXTENDS DashboardBox, FiniteSetTheorems, TLAPS

\* The sections of a command after its reset, and after CURRENT_SHA was read.
AfterReset == Section \ {"idle", "fetch", "reset", "failed", "revert", "reprovision",
   "reverted"}
AfterResolve == AfterReset \ {"resolve", "ok"}

\* A command that can still use its pinned sha, or its CURRENT_SHA, has one.
PinsSet ==
    \A s \in Slot :
        /\ pc[s] # "idle" => target[s] # None
        /\ pc[s] \in AfterResolve => current[s] # None

TypeInv == TypeOK /\ PinsSet

USE CheckoutAssumption DEF CheckoutAssumption, None, Sha

-----------------------------------------------------------------------------
\* Spending one event leaves a number of each.
LEMMA SpendType ==
    ASSUME budget \in [Event -> Nat], NEW e \in Event, Spend(e)
    PROVE  budget' \in [Event -> Nat]
BY DEF Spend

\* What the tree holds is a revision.
LEMMA TreeType ==
    ASSUME SharedTypeOK, NEW a \in Artifact
    PROVE  Tree(a) \in Rev /\ Tree(a) # None
BY DEF SharedTypeOK, Tree

\* Copying artifacts from the tree leaves a revision, or nothing, of each.
LEMMA ProvideType ==
    ASSUME SharedTypeOK, NEW as
    PROVE  Provide(as) \in [Artifact -> Rev \cup {None}]
BY TreeType DEF SharedTypeOK, Provide

\* So does refreshing one that differs.
LEMMA RefreshType ==
    ASSUME SharedTypeOK, NEW a \in Artifact
    PROVE  Refresh(a) \in [Artifact -> Rev \cup {None}]
BY TreeType DEF SharedTypeOK, Refresh

\* What services are restarted on is a commit, or they do not start.
LEMMA StartedType == ASSUME SharedTypeOK PROVE Started \in Sha \cup {None}
BY DEF SharedTypeOK, Started

\* A section that fails only moves its command to "failed".
LEMMA AbortType ==
    ASSUME TypeInv, NEW s \in Slot, Abort(s), pc[s] # "idle"
    PROVE  /\ budget' \in [Event -> Nat]
           /\ pc' \in [Slot -> Section]
           /\ (UNCHANGED <<target, current>> => PinsSet')
<1>1. budget' \in [Event -> Nat]
  BY SpendType DEF Abort, Event, TypeInv, TypeOK, SharedTypeOK
<1>2. pc' = [pc EXCEPT ![s] = "failed"] /\ pc \in [Slot -> Section]
  BY DEF Abort, Goto, TypeInv, TypeOK, DeployTypeOK
<1>3. pc' \in [Slot -> Section]
  BY <1>2 DEF Section, Rebuild, Ended
<1>4. ASSUME UNCHANGED <<target, current>> PROVE PinsSet'
  BY <1>4, <1>2, <1>3 DEF PinsSet, TypeInv, AfterResolve, AfterReset, Section, Rebuild, Ended
<1> QED
  BY <1>1, <1>3, <1>4

\* The provisioned box the model starts from.
LEMMA TypeInit == Init => TypeInv
<1> SUFFICES ASSUME Init PROVE TypeInv
  OBVIOUS
<1>0. 1 \in Sha
  OBVIOUS
<1>1. SharedTypeOK
  <2>1. Content[1] \in [Artifact -> Rev]
    OBVIOUS
  <2>2. installed \in [Artifact -> Rev \cup {None}]
    BY <2>1 DEF Init, SharedInit
  <2>3. stamp \in [Stamped -> Rev \cup {None}]
    BY <2>1 DEF Init, SharedInit, Artifact, Stamped
  <2>4. budget \in [Event -> Nat] /\ mover = "init" /\ running \in Sha \cup {None}
    BY <1>0 DEF Init, SharedInit
  <2>5. /\ origin \in [Repo -> Sha] /\ fetched \in [Repo -> Sha] /\ head \in [Repo -> Sha]
        /\ dirty \in [Repo -> BOOLEAN]
    BY <1>0 DEF Init, SharedInit
  <2>6. lock \in [Repo -> {"free", "bootpull", "daily"}]
    BY DEF Init, SharedInit
  <2> QED
    BY <2>2, <2>3, <2>4, <2>5, <2>6 DEF SharedTypeOK
<1>2. DeployTypeOK
  BY DEF Init, DeployInit, DeployTypeOK, Venv, NoVenv, Section, Rebuild, Ended, NoRunner
<1>3. BootPullTypeOK
  <2>1. bpc \in BootPullPc /\ attempts \in 1 .. MaxAttempts
    BY DEF Init, BootPullInit, BootPullPc, Resting, MaxAttempts
  <2>2. /\ pulled \in [Repo -> Sha \cup {None}] /\ mainAtStart \in [Repo -> Sha]
        /\ prev \in Sha \cup {None}
    BY <1>0 DEF Init, BootPullInit
  <2> QED
    BY <2>1, <2>2 DEF Init, BootPullInit, BootPullTypeOK
<1>4. PinsSet
  BY DEF Init, DeployInit, PinsSet, AfterResolve, AfterReset, Section, Rebuild, Ended
<1> QED
  BY <1>1, <1>2, <1>3, <1>4 DEF TypeInv, TypeOK

\* A venv put aside stays one when it is put back or pruned.
LEMMA KeptType ==
    ASSUME NEW v \in Venv, NEW b \in BOOLEAN
    PROVE  [v EXCEPT !.kept = b] \in Venv
BY DEF Venv

LEMMA PruneType ==
    ASSUME aside \in [Slot -> Venv], Prune
    PROVE  aside' \in [Slot -> Venv]
<1>1. PICK old : aside' = [t \in Slot |-> [aside[t] EXCEPT !.kept = @ /\ t \notin old]]
  BY DEF Prune
<1>2. ASSUME NEW t \in Slot PROVE aside'[t] = [aside[t] EXCEPT !.kept = aside[t].kept /\ t \notin old]
  BY <1>1
<1>3. ASSUME NEW t \in Slot PROVE aside'[t] \in Venv
  <2>1. aside[t] \in Venv /\ (aside[t].kept /\ t \notin old) \in BOOLEAN
    BY DEF Venv
  <2> QED
    BY <1>2, <2>1, KeptType
<1> QED
  BY <1>1, <1>3

-----------------------------------------------------------------------------
\* The workflow and the commands: one step per action, and under it one per part
\* of the invariant.
LEMMA TypeDeploy == TypeInv /\ DeployNext => TypeInv'
<1> SUFFICES ASSUME TypeInv, DeployNext PROVE TypeInv'
  OBVIOUS
<1> USE DEF TypeInv, TypeOK, Local, git, box
<1>0. BootPullTypeOK'
  BY DEF DeployNext, bootpull, BootPullTypeOK
<1>1. CASE Merge
  <2> USE <1>1 DEF Merge, Queue, Event
  <2>0. origin[Dash] + 1 \in Sha
    <3>1. origin[Dash] \in Sha /\ origin[Dash] < MaxSha /\ MaxSha \in Nat
      BY DEF SharedTypeOK
    <3> QED
      BY ONLY <3>1 DEF Sha
  <2>1. SharedTypeOK'
    BY <2>0, SpendType DEF SharedTypeOK
  <2>2. DeployTypeOK'
    BY <2>0 DEF DeployTypeOK, Goto, Section, Rebuild, Ended, SharedTypeOK
  <2>3. PinsSet'
    BY DEF PinsSet, AfterResolve, AfterReset, Goto, DeployTypeOK, Section, Rebuild, Ended, SharedTypeOK
  <2> QED
    BY <2>1, <2>2, <2>3, <1>0
<1>2. ASSUME NEW sha \in Sha, Dispatch(sha) PROVE TypeInv'
  <2> USE <1>2 DEF Dispatch, Queue, Event
  <2>1. SharedTypeOK'
    BY SpendType DEF SharedTypeOK
  <2>2. DeployTypeOK'
    BY DEF DeployTypeOK, Goto, Section, Rebuild, Ended, SharedTypeOK
  <2>3. PinsSet'
    BY DEF PinsSet, AfterResolve, AfterReset, Goto, DeployTypeOK, Section, Rebuild, Ended, SharedTypeOK
  <2> QED
    BY <2>1, <2>2, <2>3, <1>0
<1>3. CASE DeliveryFailure
  <2> USE <1>3 DEF DeliveryFailure, Event
  <2>1. SharedTypeOK'
    BY SpendType DEF SharedTypeOK
  <2>2. DeployTypeOK'
    BY DEF DeployTypeOK, Goto, Section, Rebuild, Ended, SharedTypeOK
  <2>3. PinsSet'
    BY DEF PinsSet, AfterResolve, AfterReset, Goto, DeployTypeOK, Section, Rebuild, Ended, SharedTypeOK
  <2> QED
    BY <2>1, <2>2, <2>3, <1>0
<1>4. ASSUME NEW s \in Slot, SendCommand(s) PROVE TypeInv'
  <2> USE <1>4 DEF SendCommand
  <2>1. SharedTypeOK'
    BY DEF SharedTypeOK
  <2>2. DeployTypeOK'
    BY DEF DeployTypeOK, Goto, Section, Rebuild, Ended, SharedTypeOK
  <2>3. PinsSet'
    BY DEF PinsSet, AfterResolve, AfterReset, Goto, DeployTypeOK, Section, Rebuild, Ended, SharedTypeOK
  <2> QED
    BY <2>1, <2>2, <2>3, <1>0
<1>5. ASSUME NEW s \in Slot, StopWaiting(s) PROVE TypeInv'
  <2> USE <1>5 DEF StopWaiting, NoRunner, Event
  <2>1. SharedTypeOK'
    BY SpendType DEF SharedTypeOK
  <2>2. DeployTypeOK'
    BY DEF DeployTypeOK, Goto, Section, Rebuild, Ended, SharedTypeOK
  <2>3. PinsSet'
    BY DEF PinsSet, AfterResolve, AfterReset, Goto, DeployTypeOK, Section, Rebuild, Ended, SharedTypeOK
  <2> QED
    BY <2>1, <2>2, <2>3, <1>0
<1>6. ASSUME NEW s \in Slot, CommandEnds(s) PROVE TypeInv'
  <2> USE <1>6 DEF CommandEnds, NoRunner
  <2>1. SharedTypeOK'
    BY DEF SharedTypeOK
  <2>2. DeployTypeOK'
    BY DEF DeployTypeOK, Goto, Section, Rebuild, Ended, SharedTypeOK
  <2>3. PinsSet'
    BY DEF PinsSet, AfterResolve, AfterReset, Goto, DeployTypeOK, Section, Rebuild, Ended, SharedTypeOK
  <2> QED
    BY <2>1, <2>2, <2>3, <1>0
<1>7. ASSUME NEW s \in Slot, SsmFetch(s) PROVE TypeInv'
  <2> USE <1>7 DEF SsmFetch, Fetch
  <2>1. SharedTypeOK'
    BY AbortType DEF SharedTypeOK
  <2>2. DeployTypeOK'
    BY AbortType DEF DeployTypeOK, Goto, Section, Rebuild, Ended, SharedTypeOK
  <2>3. PinsSet'
    BY AbortType DEF PinsSet, AfterResolve, AfterReset, Goto, DeployTypeOK, Section, Rebuild, Ended,
       SharedTypeOK
  <2> QED
    BY <2>1, <2>2, <2>3, <1>0
<1>8. ASSUME NEW s \in Slot, SsmReset(s) PROVE TypeInv'
  <2> USE <1>8 DEF SsmReset, ResetHard
  <2>0. target[s] # None /\ target[s] \in Sha \cup {None}
    BY DEF PinsSet, DeployTypeOK
  <2>1. SharedTypeOK'
    BY <2>0, AbortType DEF SharedTypeOK
  <2>2. DeployTypeOK'
    BY <2>0, AbortType DEF DeployTypeOK, Goto, Section, Rebuild, Ended, SharedTypeOK
  <2>3. PinsSet'
    BY AbortType DEF PinsSet, AfterResolve, AfterReset, Goto, DeployTypeOK, Section, Rebuild, Ended,
       SharedTypeOK
  <2> QED
    BY <2>1, <2>2, <2>3, <1>0
<1>9. ASSUME NEW s \in Slot, ResolveHead(s) PROVE TypeInv'
  <2> USE <1>9 DEF ResolveHead
  <2>1. SharedTypeOK'
    BY DEF SharedTypeOK
  <2>2. DeployTypeOK'
    BY DEF DeployTypeOK, Goto, Section, Rebuild, Ended, SharedTypeOK
  <2>3. PinsSet'
    BY DEF PinsSet, AfterResolve, AfterReset, Goto, DeployTypeOK, Section, Rebuild, Ended, SharedTypeOK
  <2> QED
    BY <2>1, <2>2, <2>3, <1>0
<1>10. ASSUME NEW s \in Slot, Requirements(s) PROVE TypeInv'
  <2> USE <1>10 DEF Requirements
  <2>i. installed' \in [Artifact -> Rev \cup {None}]
    BY ProvideType DEF SharedTypeOK, Artifact
  <2>t. stamp' \in [Stamped -> Rev \cup {None}]
    BY TreeType DEF SharedTypeOK, Artifact, Stamped
  <2>1. SharedTypeOK'
    BY <2>i, <2>t, AbortType DEF SharedTypeOK
  <2>2. DeployTypeOK'
    BY AbortType DEF DeployTypeOK, Goto, Section, Rebuild, Ended, SharedTypeOK
  <2>3. PinsSet'
    BY AbortType DEF PinsSet, AfterResolve, AfterReset, Goto, DeployTypeOK, Section, Rebuild, Ended,
       SharedTypeOK
  <2> QED
    BY <2>1, <2>2, <2>3, <1>0
<1>11. ASSUME NEW s \in Slot, Nginx(s) PROVE TypeInv'
  <2> USE <1>11 DEF Nginx, CmpSection
  <2>i. installed' \in [Artifact -> Rev \cup {None}]
    BY RefreshType DEF SharedTypeOK, Artifact
  <2>1. SharedTypeOK'
    BY <2>i, AbortType DEF SharedTypeOK
  <2>2. DeployTypeOK'
    BY AbortType DEF DeployTypeOK, Goto, Section, Rebuild, Ended, SharedTypeOK
  <2>3. PinsSet'
    BY AbortType DEF PinsSet, AfterResolve, AfterReset, Goto, DeployTypeOK, Section, Rebuild, Ended,
       SharedTypeOK
  <2> QED
    BY <2>1, <2>2, <2>3, <1>0
<1>12. ASSUME NEW s \in Slot, SystemdUnits(s) PROVE TypeInv'
  <2> USE <1>12 DEF SystemdUnits, CmpSection
  <2>i. installed' \in [Artifact -> Rev \cup {None}]
    BY RefreshType DEF SharedTypeOK, Artifact
  <2>1. SharedTypeOK'
    BY <2>i, AbortType DEF SharedTypeOK
  <2>2. DeployTypeOK'
    BY AbortType DEF DeployTypeOK, Goto, Section, Rebuild, Ended, SharedTypeOK
  <2>3. PinsSet'
    BY AbortType DEF PinsSet, AfterResolve, AfterReset, Goto, DeployTypeOK, Section, Rebuild, Ended,
       SharedTypeOK
  <2> QED
    BY <2>1, <2>2, <2>3, <1>0
<1>13. ASSUME NEW s \in Slot, RouteBootPull(s) PROVE TypeInv'
  <2> USE <1>13 DEF RouteBootPull
  <2>i. installed' \in [Artifact -> Rev \cup {None}]
    BY ProvideType DEF SharedTypeOK, Artifact
  <2>1. SharedTypeOK'
    BY <2>i, AbortType DEF SharedTypeOK
  <2>2. DeployTypeOK'
    BY AbortType DEF DeployTypeOK, Goto, Section, Rebuild, Ended, SharedTypeOK
  <2>3. PinsSet'
    BY AbortType DEF PinsSet, AfterResolve, AfterReset, Goto, DeployTypeOK, Section, Rebuild, Ended,
       SharedTypeOK
  <2> QED
    BY <2>1, <2>2, <2>3, <1>0
<1>14. ASSUME NEW s \in Slot, RouteLimits(s) PROVE TypeInv'
  <2> USE <1>14 DEF RouteLimits
  <2>i. installed' \in [Artifact -> Rev \cup {None}]
    BY ProvideType DEF SharedTypeOK, Artifact
  <2>t. stamp' \in [Stamped -> Rev \cup {None}]
    BY TreeType DEF SharedTypeOK, Artifact, Stamped
  <2>1. SharedTypeOK'
    BY <2>i, <2>t, AbortType DEF SharedTypeOK
  <2>2. DeployTypeOK'
    BY AbortType DEF DeployTypeOK, Goto, Section, Rebuild, Ended, SharedTypeOK
  <2>3. PinsSet'
    BY AbortType DEF PinsSet, AfterResolve, AfterReset, Goto, DeployTypeOK, Section, Rebuild, Ended,
       SharedTypeOK
  <2> QED
    BY <2>1, <2>2, <2>3, <1>0
<1>15. ASSUME NEW s \in Slot, AppServices(s) PROVE TypeInv'
  <2> USE <1>15 DEF AppServices
  <2>i. installed' \in [Artifact -> Rev \cup {None}]
    BY RefreshType DEF SharedTypeOK, Artifact
  <2>1. SharedTypeOK'
    BY <2>i, StartedType, AbortType DEF SharedTypeOK
  <2>2. DeployTypeOK'
    BY AbortType DEF DeployTypeOK, Goto, Section, Rebuild, Ended, SharedTypeOK
  <2>3. PinsSet'
    BY AbortType DEF PinsSet, AfterResolve, AfterReset, Goto, DeployTypeOK, Section, Rebuild, Ended,
       SharedTypeOK
  <2> QED
    BY <2>1, <2>2, <2>3, <1>0
<1>16. ASSUME NEW s \in Slot, DashWeb(s) PROVE TypeInv'
  <2> USE <1>16 DEF DashWeb
  <2>i. installed' \in [Artifact -> Rev \cup {None}]
    BY ProvideType DEF SharedTypeOK, Artifact
  <2>1. SharedTypeOK'
    BY <2>i, AbortType DEF SharedTypeOK
  <2>2. DeployTypeOK'
    BY AbortType DEF DeployTypeOK, Goto, Section, Rebuild, Ended, SharedTypeOK
  <2>3. PinsSet'
    BY AbortType DEF PinsSet, AfterResolve, AfterReset, Goto, DeployTypeOK, Section, Rebuild, Ended,
       SharedTypeOK
  <2> QED
    BY <2>1, <2>2, <2>3, <1>0
<1>17. ASSUME NEW s \in Slot, HealthCheck(s) PROVE TypeInv'
  <2> USE <1>17 DEF HealthCheck, Unhealthy, Event
  <2>1. SharedTypeOK'
    BY SpendType DEF SharedTypeOK
  <2>2. DeployTypeOK'
    BY DEF DeployTypeOK, Goto, Section, Rebuild, Ended, SharedTypeOK
  <2>3. PinsSet'
    BY DEF PinsSet, AfterResolve, AfterReset, Goto, DeployTypeOK, Section, Rebuild, Ended, SharedTypeOK
  <2> QED
    BY <2>1, <2>2, <2>3, <1>0
<1>18. ASSUME NEW s \in Slot, RecordGood(s) PROVE TypeInv'
  <2> USE <1>18 DEF RecordGood, GoodSha, Event
  <2>1. SharedTypeOK'
    BY SpendType DEF SharedTypeOK
  <2>a. aside' \in [Slot -> Venv]
    BY PruneType DEF DeployTypeOK
  <2>2. DeployTypeOK'
    BY <2>a DEF DeployTypeOK, Goto, Section, Rebuild, Ended, SharedTypeOK
  <2>3. PinsSet'
    BY DEF PinsSet, AfterResolve, AfterReset, Goto, DeployTypeOK, Section, Rebuild, Ended, SharedTypeOK
  <2> QED
    BY <2>1, <2>2, <2>3, <1>0
<1>19. ASSUME NEW s \in Slot, RevertReset(s) PROVE TypeInv'
  <2> USE <1>19 DEF RevertReset, Revertable, ResetHard
  <2>0. Revertable(s) => lastGood \in Sha
    BY DEF DeployTypeOK
  <2>h. /\ head' \in [Repo -> Sha]
        /\ dirty' \in [Repo -> BOOLEAN]
        /\ mover' \in Slot \cup {"init", "bootpull", "daily"}
    <3>1. \/ UNCHANGED <<head, dirty, mover>>
          \/ lastGood \in Sha /\ ResetHard(Dash, lastGood, s)
      BY <2>0
    <3>2. ASSUME lastGood \in Sha, head' = [head EXCEPT ![Dash] = lastGood]
          PROVE  head' \in [Repo -> Sha]
      BY <3>2 DEF SharedTypeOK
    <3> QED
      BY <3>1, <3>2 DEF SharedTypeOK
  <2>b. budget' \in [Event -> Nat]
    BY AbortType DEF SharedTypeOK
  <2>1. SharedTypeOK'
    BY <2>0, <2>h, <2>b DEF SharedTypeOK
  <2>2. DeployTypeOK'
    BY <2>0, AbortType DEF DeployTypeOK, Goto, Section, Rebuild, Ended, SharedTypeOK
  <2>3. PinsSet'
    <3>1. /\ UNCHANGED <<target, current>>
          /\ pc' \in {[pc EXCEPT ![s] = "failed"], [pc EXCEPT ![s] = "reprovision"]}
          /\ pc[s] = "revert"
      BY DEF Local, Abort, Goto
    <3>2. PinsSet /\ DeployTypeOK
      OBVIOUS
    <3> QED
      BY ONLY <3>1, <3>2 DEF PinsSet, AfterResolve, AfterReset, DeployTypeOK, Section, Rebuild, Ended
  <2> QED
    BY <2>1, <2>2, <2>3, <1>0
<1>20. ASSUME NEW s \in Slot, Reprovision(s) PROVE TypeInv'
  <2> USE <1>20 DEF Reprovision, Event
  <2>p. PICK as : installed' = Provide(as)
    OBVIOUS
  <2>i. installed' \in [Artifact -> Rev \cup {None}]
    BY <2>p, ProvideType DEF SharedTypeOK, Artifact
  <2>1. SharedTypeOK'
    BY <2>p, <2>i, StartedType, SpendType DEF SharedTypeOK
  <2>2. DeployTypeOK'
    BY DEF DeployTypeOK, Goto, Section, Rebuild, Ended, SharedTypeOK
  <2>3. PinsSet'
    BY DEF PinsSet, AfterResolve, AfterReset, Goto, DeployTypeOK, Section, Rebuild, Ended, SharedTypeOK
  <2> QED
    BY <2>1, <2>2, <2>3, <1>0
<1>21. ASSUME NEW s \in Slot, CheckVenv(s) PROVE TypeInv'
  <2> USE <1>21 DEF CheckVenv, PutAside, Event
  <2>i. installed' \in [Artifact -> Rev \cup {None}] /\ aside' \in [Slot -> Venv]
    <3>1. [py |-> installed["py"], req |-> installed["req"], kept |-> TRUE] \in Venv
      BY DEF SharedTypeOK, Artifact, Venv
    <3>2. installed \in [Artifact -> Rev \cup {None}] /\ aside \in [Slot -> Venv]
      BY DEF SharedTypeOK, DeployTypeOK
    <3>3. \/ UNCHANGED <<installed, aside>>
          \/ /\ aside' = [aside EXCEPT ![s] = [py |-> installed["py"], req |-> installed["req"],
                                                kept |-> TRUE]]
             /\ installed' = [installed EXCEPT !["py"] = None, !["req"] = None]
      BY ONLY <1>21 DEF CheckVenv, PutAside
    <3>4. CASE UNCHANGED <<installed, aside>>
      BY ONLY <3>2, <3>4
    <3>5. CASE /\ aside' = [aside EXCEPT ![s] = [py |-> installed["py"], req |-> installed["req"],
                                                kept |-> TRUE]]
               /\ installed' = [installed EXCEPT !["py"] = None, !["req"] = None]
      BY ONLY <3>1, <3>2, <3>5
    <3> QED
      BY ONLY <3>3, <3>4, <3>5
  <2>b. budget' \in [Event -> Nat]
    BY AbortType, SpendType DEF SharedTypeOK
  <2>r. running' \in Sha \cup {None}
    BY DEF SharedTypeOK
  <2>1. SharedTypeOK'
    BY <2>i, <2>b, <2>r DEF SharedTypeOK
  <2>p. pc' \in [Slot -> Section]
    BY AbortType DEF DeployTypeOK, Goto, Section, Rebuild, Ended
  <2>2. DeployTypeOK'
    BY <2>i, <2>p DEF DeployTypeOK
  <2>3. PinsSet'
    BY AbortType DEF PinsSet, AfterResolve, AfterReset, Goto, DeployTypeOK, Section, Rebuild, Ended
  <2> QED
    BY <2>1, <2>2, <2>3, <1>0
<1>22. ASSUME NEW s \in Slot, CreateVenv(s) PROVE TypeInv'
  <2> USE <1>22 DEF CreateVenv, OrRollBack, Event
  <2>i. installed' \in [Artifact -> Rev \cup {None}]
    <3>1. installed' = installed \/ installed' = Provide({"py"})
      OBVIOUS
    <3>2. SharedTypeOK /\ installed \in [Artifact -> Rev \cup {None}]
      BY DEF SharedTypeOK
    <3> QED
      BY ONLY <3>1, <3>2, ProvideType
  <2>1. SharedTypeOK'
    BY <2>i, SpendType DEF SharedTypeOK
  <2>2. DeployTypeOK'
    BY DEF DeployTypeOK, Goto, Section, Rebuild, Ended
  <2>3. PinsSet'
    BY DEF PinsSet, AfterResolve, AfterReset, Goto, DeployTypeOK, Section, Rebuild, Ended
  <2> QED
    BY <2>1, <2>2, <2>3, <1>0
<1>23. ASSUME NEW s \in Slot, InstallVenv(s) PROVE TypeInv'
  <2> USE <1>23 DEF InstallVenv, OrRollBack, Event
  <2>i. installed' \in [Artifact -> Rev \cup {None}]
    <3>1. installed' = installed \/ installed' = Provide({"req"})
      OBVIOUS
    <3>2. SharedTypeOK /\ installed \in [Artifact -> Rev \cup {None}]
      BY DEF SharedTypeOK
    <3> QED
      BY ONLY <3>1, <3>2, ProvideType
  <2>1. SharedTypeOK'
    BY <2>i, SpendType DEF SharedTypeOK
  <2>2. DeployTypeOK'
    BY DEF DeployTypeOK, Goto, Section, Rebuild, Ended
  <2>3. PinsSet'
    BY DEF PinsSet, AfterResolve, AfterReset, Goto, DeployTypeOK, Section, Rebuild, Ended
  <2> QED
    BY <2>1, <2>2, <2>3, <1>0
<1>24. ASSUME NEW s \in Slot, RestartOnVenv(s) PROVE TypeInv'
  <2> USE <1>24 DEF RestartOnVenv, OrRollBack, Event
  <2>1. SharedTypeOK'
    BY StartedType, SpendType DEF SharedTypeOK
  <2>2. DeployTypeOK'
    BY DEF DeployTypeOK, Goto, Section, Rebuild, Ended
  <2>3. PinsSet'
    BY DEF PinsSet, AfterResolve, AfterReset, Goto, DeployTypeOK, Section, Rebuild, Ended
  <2> QED
    BY <2>1, <2>2, <2>3, <1>0
<1>25. ASSUME NEW s \in Slot, ProbeVenv(s) PROVE TypeInv'
  <2> USE <1>25 DEF ProbeVenv, Event
  <2>t. stamp' \in [Stamped -> Rev \cup {None}]
    BY TreeType DEF SharedTypeOK, Artifact, Stamped
  <2>b. budget' \in [Event -> Nat]
    BY AbortType, SpendType DEF SharedTypeOK
  <2>1. SharedTypeOK'
    BY <2>t, <2>b DEF SharedTypeOK
  <2>2. DeployTypeOK'
    BY AbortType DEF DeployTypeOK, Goto, Section, Rebuild, Ended
  <2>3. PinsSet'
    BY AbortType DEF PinsSet, AfterResolve, AfterReset, Goto, DeployTypeOK, Section, Rebuild, Ended
  <2> QED
    BY <2>1, <2>2, <2>3, <1>0
<1>26. ASSUME NEW s \in Slot, RollBackVenv(s) PROVE TypeInv'
  <2> USE <1>26 DEF RollBackVenv, Event
  <2>i. installed' \in [Artifact -> Rev \cup {None}]
    <3>1. aside[s].py \in Rev \cup {None} /\ aside[s].req \in Rev \cup {None}
      BY DEF DeployTypeOK, Venv
    <3>2. installed \in [Artifact -> Rev \cup {None}]
      BY DEF SharedTypeOK
    <3> QED
      BY <3>1, <3>2
  <2>r. running' \in Sha \cup {None}
    BY DEF SharedTypeOK
  <2>1. SharedTypeOK'
    BY <2>i, <2>r, SpendType DEF SharedTypeOK
  <2>a. aside' \in [Slot -> Venv]
    <3>1. aside' = aside \/ aside' = [aside EXCEPT ![s].kept = FALSE]
      OBVIOUS
    <3>2. [aside[s] EXCEPT !.kept = FALSE] \in Venv /\ aside \in [Slot -> Venv]
      BY KeptType DEF DeployTypeOK
    <3> QED
      BY ONLY <3>1, <3>2
  <2>2. DeployTypeOK'
    BY <2>a DEF DeployTypeOK, Goto, Section, Rebuild, Ended
  <2>3. PinsSet'
    BY DEF PinsSet, AfterResolve, AfterReset, Goto, DeployTypeOK, Section, Rebuild, Ended
  <2> QED
    BY <2>1, <2>2, <2>3, <1>0
<1>27. ASSUME NEW s \in Slot, CheckDrift(s) PROVE TypeInv'
  <2> USE <1>27 DEF CheckDrift
  <2>1. SharedTypeOK'
    BY AbortType DEF SharedTypeOK
  <2>2. DeployTypeOK'
    BY AbortType DEF DeployTypeOK, Goto, Section, Rebuild, Ended
  <2>3. PinsSet'
    BY AbortType DEF PinsSet, AfterResolve, AfterReset, Goto, DeployTypeOK, Section, Rebuild, Ended
  <2> QED
    BY <2>1, <2>2, <2>3, <1>0
<1> QED
  BY <1>1, <1>2, <1>3, <1>4, <1>5, <1>6, <1>7, <1>8, <1>9, <1>10, <1>11, <1>12, <1>13, <1>14,
     <1>15, <1>16, <1>17, <1>18, <1>19, <1>20, <1>21, <1>22, <1>23, <1>24, <1>25, <1>26, <1>27
     DEF DeployNext, Workflow, Command

\* A run that is over leaves its variables as they were before the first one.
LEMMA ExitType ==
    ASSUME NEW status \in Resting, Exit(status)
    PROVE  BootPullTypeOK'
<1>1. 1 \in Sha /\ Dash \in Repo /\ 1 \in 1 .. MaxAttempts
  BY DEF MaxAttempts
<1>2. bpc' \in BootPullPc
  BY DEF Exit, BootPullPc
<1>3. pulled' \in [Repo -> Sha \cup {None}] /\ mainAtStart' \in [Repo -> Sha]
  BY <1>1 DEF Exit
<1> QED
  BY <1>1, <1>2, <1>3 DEF Exit, BootPullTypeOK

\* boot-pull.
LEMMA TypeBootPull == TypeInv /\ BootPullNext => TypeInv'
<1> SUFFICES ASSUME TypeInv, BootPullNext PROVE TypeInv'
  OBVIOUS
<1> USE DEF TypeInv, TypeOK, git, box
<1>0. DeployTypeOK' /\ PinsSet'
  BY DEF BootPullNext, deploy, DeployTypeOK, PinsSet
<1>1. CASE Start
  <2> USE <1>1 DEF Start, Fetch, Event
  <2>1. SharedTypeOK'
    BY SpendType DEF SharedTypeOK
  <2>p. bpc' \in BootPullPc
    BY DEF BootPullPc, BootPullTypeOK
  <2>2. BootPullTypeOK'
    BY <2>p DEF BootPullTypeOK, SharedTypeOK, MaxAttempts
  <2> QED
    BY <2>1, <2>2, <1>0
<1>2. CASE AuthOrRosterFailure
  <2> USE <1>2 DEF AuthOrRosterFailure, Event
  <2>1. SharedTypeOK'
    BY SpendType DEF SharedTypeOK
  <2>p. bpc' \in BootPullPc
    BY DEF BootPullPc, BootPullTypeOK
  <2>2. BootPullTypeOK'
    BY <2>p DEF BootPullTypeOK, SharedTypeOK, MaxAttempts
  <2> QED
    BY <2>1, <2>2, <1>0
<1>3. CASE NextRepo
  <2> USE <1>3 DEF NextRepo
  <2>1. SharedTypeOK'
    BY DEF SharedTypeOK
  <2>p. bpc' \in BootPullPc
    BY DEF BootPullPc, BootPullTypeOK
  <2>q. prev' \in Sha \cup {None} /\ attempts' \in 1 .. MaxAttempts
    BY DEF BootPullTypeOK, SharedTypeOK, MaxAttempts
  <2>r. repo' \in Repo /\ todo' \subseteq Repo
    BY DEF BootPullTypeOK
  <2>2. BootPullTypeOK'
    BY <2>p, <2>q, <2>r DEF BootPullTypeOK, SharedTypeOK, MaxAttempts
  <2> QED
    BY <2>1, <2>2, <1>0
<1>4. CASE SyncFetch
  <2> USE <1>4 DEF SyncFetch, Fetch, PullFailed, Event
  <2>1. SharedTypeOK'
    BY SpendType DEF SharedTypeOK
  <2>p. bpc' \in BootPullPc
    BY DEF BootPullPc, BootPullTypeOK
  <2>q. attempts' \in 1 .. MaxAttempts
    BY DEF BootPullTypeOK, MaxAttempts
  <2>r. failures' \in BOOLEAN
    BY DEF BootPullTypeOK
  <2>2. BootPullTypeOK'
    BY <2>p, <2>q, <2>r DEF BootPullTypeOK, SharedTypeOK, MaxAttempts
  <2> QED
    BY <2>1, <2>2, <1>0
<1>5. CASE SyncMerge
  <2> USE <1>5 DEF SyncMerge, FastForward, PullFailed
  <2>1. SharedTypeOK'
    BY DEF SharedTypeOK
  <2>p. bpc' \in BootPullPc
    BY DEF BootPullPc, BootPullTypeOK
  <2>2. BootPullTypeOK'
    BY <2>p DEF BootPullTypeOK, SharedTypeOK, MaxAttempts
  <2> QED
    BY <2>1, <2>2, <1>0
<1>6. CASE ReadNew
  <2> USE <1>6 DEF ReadNew
  <2>1. SharedTypeOK'
    BY DEF SharedTypeOK
  <2>p. bpc' \in BootPullPc
    BY DEF BootPullPc, BootPullTypeOK
  <2>q. pulled' \in [Repo -> Sha \cup {None}]
    BY DEF BootPullTypeOK
  <2>2. BootPullTypeOK'
    BY <2>p, <2>q DEF BootPullTypeOK
  <2> QED
    BY <2>1, <2>2, <1>0
<1>7. CASE PipInstall
  <2> USE <1>7 DEF PipInstall, PipFailed, Event
  <2>i. installed' \in [Artifact -> Rev \cup {None}]
    <3>1. installed' = installed \/ installed' = Provide({"req"})
      OBVIOUS
    <3>2. SharedTypeOK /\ installed \in [Artifact -> Rev \cup {None}]
      BY DEF SharedTypeOK
    <3> QED
      BY ONLY <3>1, <3>2, ProvideType
  <2>1. SharedTypeOK'
    BY <2>i, SpendType DEF SharedTypeOK
  <2>p. bpc' \in BootPullPc
    BY DEF BootPullPc, BootPullTypeOK
  <2>2. BootPullTypeOK'
    BY <2>p DEF BootPullTypeOK, SharedTypeOK, MaxAttempts
  <2> QED
    BY <2>1, <2>2, <1>0
<1>8. CASE HydrateConfig
  <2> USE <1>8 DEF HydrateConfig, Event
  <2>1. SharedTypeOK'
    BY SpendType DEF SharedTypeOK
  <2>p. bpc' \in BootPullPc
    BY DEF BootPullPc, BootPullTypeOK
  <2>2. BootPullTypeOK'
    BY <2>p DEF BootPullTypeOK, SharedTypeOK, MaxAttempts
  <2> QED
    BY <2>1, <2>2, <1>0
<1>9. CASE InstallLauncher
  <2> USE <1>9 DEF InstallLauncher, Event
  <2>i. installed' \in [Artifact -> Rev \cup {None}]
    <3>1. installed' = installed \/ installed' = Provide({"launcher"})
      OBVIOUS
    <3>2. SharedTypeOK /\ installed \in [Artifact -> Rev \cup {None}]
      BY DEF SharedTypeOK
    <3> QED
      BY ONLY <3>1, <3>2, ProvideType
  <2>1. SharedTypeOK'
    BY <2>i, SpendType DEF SharedTypeOK
  <2>p. bpc' \in BootPullPc
    BY DEF BootPullPc, BootPullTypeOK
  <2>2. BootPullTypeOK'
    BY <2>p DEF BootPullTypeOK, SharedTypeOK, MaxAttempts
  <2> QED
    BY <2>1, <2>2, <1>0
<1>10. CASE SyncUnits
  <2> USE <1>10 DEF SyncUnits
  <2>i. installed' \in [Artifact -> Rev \cup {None}]
    BY ProvideType DEF SharedTypeOK
  <2>1. SharedTypeOK'
    BY <2>i, StartedType DEF SharedTypeOK
  <2>2. BootPullTypeOK'
    <3>1. CASE Exit(ExitStatus(failures \/ HeldBack # {}))
      BY <3>1, ExitType DEF ExitStatus, Resting
    <3>2. CASE ~Exit(ExitStatus(failures \/ HeldBack # {}))
      <4>1. bpc' \in BootPullPc /\ failures' \in BOOLEAN
        BY <3>2 DEF BootPullPc, BootPullTypeOK
      <4> QED
        BY <3>2, <4>1 DEF BootPullTypeOK
    <3> QED
      BY <3>1, <3>2
  <2> QED
    BY <2>1, <2>2, <1>0
<1>11. CASE Gate
  <2> USE <1>11 DEF Gate, Event
  <2>1. SharedTypeOK'
    BY SpendType DEF SharedTypeOK
  <2>2. BootPullTypeOK'
    <3>1. CASE Exit(ExitStatus(failures))
      BY <3>1, ExitType DEF ExitStatus, Resting
    <3>2. CASE ~Exit(ExitStatus(failures))
      <4>1. bpc' \in BootPullPc /\ failures' \in BOOLEAN
        BY <3>2 DEF BootPullPc, BootPullTypeOK
      <4> QED
        BY <3>2, <4>1 DEF BootPullTypeOK
    <3> QED
      BY <3>1, <3>2
  <2> QED
    BY <2>1, <2>2, <1>0
<1>12. CASE Revert
  <2> USE <1>12 DEF Revert, ResetHard
  <2>h. /\ head' \in [Repo -> Sha]
        /\ dirty' \in [Repo -> BOOLEAN]
        /\ mover' \in Slot \cup {"init", "bootpull", "daily"}
    <3>1. CASE UNCHANGED <<head, dirty, mover>>
      BY <3>1 DEF SharedTypeOK
    <3>2. ASSUME NEW r \in Repo, pulled[r] # None, ResetHard(r, pulled[r], "bootpull")
          PROVE  head' \in [Repo -> Sha]
      BY <3>2 DEF SharedTypeOK, BootPullTypeOK
    <3> QED
      BY <3>1, <3>2 DEF SharedTypeOK
  <2>1. SharedTypeOK'
    BY <2>h DEF SharedTypeOK
  <2>p. bpc' \in BootPullPc
    BY DEF BootPullPc, BootPullTypeOK
  <2>2. BootPullTypeOK'
    BY <2>p DEF BootPullTypeOK, SharedTypeOK, MaxAttempts
  <2> QED
    BY <2>1, <2>2, <1>0
<1>13. CASE Resync
  <2> USE <1>13 DEF Resync
  <2>i. installed' \in [Artifact -> Rev \cup {None}]
    BY ProvideType DEF SharedTypeOK
  <2>1. SharedTypeOK'
    BY <2>i, StartedType DEF SharedTypeOK
  <2>2. BootPullTypeOK'
    BY ExitType DEF Resting
  <2> QED
    BY <2>1, <2>2, <1>0
<1>14. CASE Killed
  <2> USE <1>14 DEF Killed, Event
  <2>1. SharedTypeOK'
    BY SpendType DEF SharedTypeOK
  <2>2. BootPullTypeOK'
    BY ExitType DEF Resting
  <2> QED
    BY <2>1, <2>2, <1>0
<1> QED
  BY <1>1, <1>2, <1>3, <1>4, <1>5, <1>6, <1>7, <1>8, <1>9, <1>10, <1>11, <1>12, <1>13, <1>14
     DEF BootPullNext, BootPullStep

\* The daily pull, the operator, pushes to other checkouts, and a reboot.
LEMMA TypeOther == TypeInv /\ (OtherNext \/ Reboot) => TypeInv'
<1> SUFFICES ASSUME TypeInv, OtherNext \/ Reboot PROVE TypeInv'
  OBVIOUS
<1> USE DEF TypeInv, TypeOK, git, box
<1>0. OtherNext => DeployTypeOK' /\ PinsSet' /\ BootPullTypeOK'
  BY DEF OtherNext, deploy, bootpull, DeployTypeOK, PinsSet, BootPullTypeOK
<1>1. ASSUME DailyFetch PROVE SharedTypeOK'
  BY <1>1, SpendType DEF DailyFetch, Fetch, SharedTypeOK, Event
<1>2. ASSUME DailyMerge PROVE SharedTypeOK'
  BY <1>2 DEF DailyMerge, FastForward, SharedTypeOK
<1>3. ASSUME NEW r \in Repo, HandEdit(r) PROVE SharedTypeOK'
  BY <1>3, SpendType DEF HandEdit, SharedTypeOK, Event
<1>4. ASSUME NEW r \in Repo, MergeElsewhere(r) PROVE SharedTypeOK'
  <2>1. origin[r] + 1 \in Sha
    BY <1>4 DEF MergeElsewhere, SharedTypeOK
  <2> QED
    BY <1>4, <2>1, SpendType DEF MergeElsewhere, SharedTypeOK, Event
<1>5. CASE Reboot
  <2> USE <1>5 DEF Reboot, Event
  <2>1. SharedTypeOK'
    BY StartedType, SpendType DEF SharedTypeOK
  <2>2. DeployTypeOK'
    BY DEF DeployTypeOK, Section, Rebuild, Ended
  <2>3. PinsSet'
    BY DEF PinsSet, DeployTypeOK, AfterResolve, AfterReset, Section, Rebuild, Ended
  <2>4. BootPullTypeOK'
    BY ExitType DEF Resting
  <2> QED
    BY <2>1, <2>2, <2>3, <2>4
<1> QED
  BY <1>0, <1>1, <1>2, <1>3, <1>4, <1>5 DEF OtherNext

\* Every step, or none.
LEMMA TypeStep == TypeInv /\ [Next]_vars => TypeInv'
<1>1. ASSUME TypeInv, UNCHANGED vars PROVE TypeInv'
  BY <1>1 DEF vars, git, box, deploy, bootpull, TypeInv, TypeOK, SharedTypeOK, DeployTypeOK,
       BootPullTypeOK, PinsSet
<1> QED
  BY <1>1, TypeDeploy, TypeBootPull, TypeOther DEF Next

\* The system never leaves its types; HEAD in particular is always a commit of
\* main, because a command that still has to use its pinned sha or CURRENT_SHA has
\* one and boot-pull only goes back to a sha it recorded.
THEOREM TypeCorrect == Spec => []TypeOK
<1>1. TypeInv => TypeOK
  BY DEF TypeInv
<1> QED
  BY TypeInit, TypeStep, <1>1, PTL DEF Spec

\* The inductive invariant itself, for the proofs of DashboardBoxSafety_proofs.
THEOREM PinsAlwaysSet == Spec => []TypeInv
BY TypeInit, TypeStep, PTL DEF Spec

-----------------------------------------------------------------------------
(***************************************************************************)
(* Commands and boot-pull runs end: each has a number that its steps       *)
(* lessen and nobody else's raise.                                         *)
(***************************************************************************)

\* How many steps a command has left at most, by its section.
Left(section) ==
    CASE section = "fetch" -> 19      [] section = "reset" -> 18
      [] section = "resolve" -> 17    [] section = "venv" -> 16
      [] section = "create" -> 15     [] section = "install" -> 14
      [] section = "restart" -> 13    [] section = "probe" -> 12
      [] section = "req" -> 12        [] section = "drift" -> 11
      [] section = "nginx" -> 10      [] section = "sysd" -> 9
      [] section = "bootpull" -> 8    [] section = "limits" -> 7
      [] section = "app" -> 6         [] section = "web" -> 5
      [] section = "health" -> 4      [] section = "revert" -> 3
      [] section = "record" -> 2      [] section = "reprovision" -> 2
      [] section = "rollback" -> 2
      [] section \in Ended -> 1       [] section = "idle" -> 0

\* No section is entered a second time, on no way out of one.
LEMMA CommandShortens ==
    ASSUME TypeInv, NEW s \in Slot, Command(s)
    PROVE  /\ Left(pc'[s]) < Left(pc[s])
           /\ \A t \in Slot \ {s} : pc'[t] = pc[t]
<1>0. pc \in [Slot -> Section]
  BY DEF TypeInv, TypeOK, DeployTypeOK
<1>1. \A section : Goto(s, section) => pc'[s] = section /\ \A t \in Slot \ {s} : pc'[t] = pc[t]
  BY <1>0 DEF Goto
<1>2. CASE SsmFetch(s) \/ SsmReset(s) \/ ResolveHead(s)
  BY <1>1, <1>2 DEF SsmFetch, SsmReset, ResolveHead, Abort, Left, Ended
<1>3. CASE CheckVenv(s) \/ CreateVenv(s) \/ InstallVenv(s)
  BY <1>1, <1>3 DEF CheckVenv, CreateVenv, InstallVenv, OrRollBack, Abort, Left, Ended
<1>4. CASE RestartOnVenv(s) \/ ProbeVenv(s) \/ RollBackVenv(s)
  BY <1>1, <1>4 DEF RestartOnVenv, ProbeVenv, RollBackVenv, OrRollBack, Abort, Left, Ended
<1>5. CASE Requirements(s) \/ CheckDrift(s) \/ Nginx(s) \/ SystemdUnits(s)
  BY <1>1, <1>5 DEF Requirements, CheckDrift, Nginx, SystemdUnits, CmpSection, Abort, Left, Ended
<1>6. CASE RouteBootPull(s) \/ RouteLimits(s) \/ AppServices(s) \/ DashWeb(s)
  BY <1>1, <1>6 DEF RouteBootPull, RouteLimits, AppServices, DashWeb, Abort, Left, Ended
<1>7. CASE HealthCheck(s) \/ RecordGood(s) \/ RevertReset(s) \/ Reprovision(s)
  BY <1>1, <1>7 DEF HealthCheck, RecordGood, RevertReset, Reprovision, Abort, Left, Ended
<1> QED
  BY <1>2, <1>3, <1>4, <1>5, <1>6, <1>7 DEF Command

\* Only one that is sent has more to do than it had.
LEMMA CommandsOnlySent ==
    ASSUME TypeInv, [Next]_vars, NEW s \in Slot
    PROVE  \/ Left(pc'[s]) <= Left(pc[s])
           \/ pc[s] = "idle" /\ pc'[s] = "fetch"
<1>t. \A section \in Section : Left(section) \in 0 .. 19
  BY DEF Section, Rebuild, Left, Ended
<1>0. pc \in [Slot -> Section] /\ Left(pc[s]) \in 0 .. 19
  BY <1>t DEF TypeInv, TypeOK, DeployTypeOK
<1>p. Left(pc'[s]) \in 0 .. 19
  BY <1>t, TypeStep DEF TypeInv, TypeOK, DeployTypeOK
<1>1. CASE DeployNext
  <2>1. ASSUME NEW t \in Slot, Command(t) PROVE Left(pc'[s]) <= Left(pc[s])
    <3>1. CASE t = s
      <4>1. Left(pc'[s]) < Left(pc[s])
        BY <2>1, <3>1, CommandShortens
      <4>2. \A m, n \in 0 .. 19 : m < n => m <= n
        OBVIOUS
      <4> QED
        BY <1>0, <1>p, <4>1, <4>2, Zenon
    <3>2. CASE t # s
      <4>1. pc'[s] = pc[s]
        BY <2>1, <3>2, CommandShortens
      <4> QED
        BY <1>0, <4>1
    <3> QED
      BY <3>1, <3>2
  <2>2. CASE Merge \/ DeliveryFailure \/ (\E sha \in Sha : Dispatch(sha))
             \/ \E t \in Slot : StopWaiting(t)
    <3>1. pc' = pc
      BY <2>2 DEF Merge, DeliveryFailure, Dispatch, StopWaiting
    <3> QED
      BY <1>0, <3>1
  <2>3. ASSUME NEW t \in Slot, SendCommand(t) \/ CommandEnds(t)
        PROVE  \/ Left(pc'[s]) <= Left(pc[s])
               \/ pc[s] = "idle" /\ pc'[s] = "fetch"
    <3>1. CASE t # s
      <4>1. pc'[s] = pc[s]
        BY <1>0, <2>3, <3>1 DEF SendCommand, CommandEnds, Goto
      <4> QED
        BY <1>0, <4>1
    <3>2. CASE t = s /\ SendCommand(s)
      BY <1>0, <3>2 DEF SendCommand, Goto
    <3>3. CASE t = s /\ CommandEnds(s)
      BY <1>0, <3>3 DEF CommandEnds, Goto, Ended, Left
    <3> QED
      BY <2>3, <3>1, <3>2, <3>3
  <2> QED
    BY <1>1, <2>1, <2>2, <2>3 DEF DeployNext, Workflow
<1>2. CASE Reboot
  <2>1. pc'[s] = pc[s] \/ (pc[s] # "idle" /\ pc'[s] = "failed")
    BY <1>2 DEF Reboot
  <2> QED
    BY <1>0, <2>1 DEF Left, Ended, Section, Rebuild
<1>3. CASE BootPullNext \/ OtherNext \/ UNCHANGED vars
  <2>1. pc' = pc
    BY <1>3 DEF BootPullNext, OtherNext, deploy, vars
  <2> QED
    BY <1>0, <2>1
<1> QED
  BY <1>1, <1>2, <1>3 DEF Next

\* A command runs down its sections: whatever fails, whoever else moves the checkout
\* or rebuilds its venv, and whether it reverts, each of its steps leaves fewer to
\* take, and only SendCommand begins anew; 19 steps are the longest way
\* (no section of deploy-on-merge.sh is taken twice, and its revert reverts nothing again).
THEOREM CommandsRunDown ==
    Spec => /\ [](\A s \in Slot : Left(pc[s]) \in 0 .. 19)
            /\ [][\A s \in Slot :
                     /\ Command(s) => Left(pc'[s]) < Left(pc[s])
                     /\ pc[s] # "idle" => Left(pc'[s]) <= Left(pc[s])]_vars
<1>1. TypeInv => \A s \in Slot : Left(pc[s]) \in 0 .. 19
  BY DEF TypeInv, TypeOK, DeployTypeOK, Section, Rebuild, Left, Ended
<1>2. TypeInv /\ [Next]_vars
         => [\A s \in Slot :
                /\ Command(s) => Left(pc'[s]) < Left(pc[s])
                /\ pc[s] # "idle" => Left(pc'[s]) <= Left(pc[s])]_vars
  BY CommandShortens, CommandsOnlySent
<1> QED
  BY <1>1, <1>2, TypeInit, TypeStep, PTL DEF Spec

-----------------------------------------------------------------------------
\* Checkouts a rollback has yet to take back.
ToTakeBack == {r \in Repo : pulled[r] # None}

\* A fault before the first checkout may still be noted.
Unnoted == IF failures THEN 0 ELSE 1

\* Behind the pulls a run has its config, launcher, units, gate and rollback.
BehindPulls == Cardinality(Repo) + 7

\* One checkout is read, fetched, with the attempts it has, merged, read again, and
\* its packages installed.
APull == MaxAttempts + 4

\* How many steps a run of boot-pull has left at most.
RunLeft ==
    CASE bpc \in Resting   -> 0
      [] bpc = "next"      -> APull * Cardinality(todo) + BehindPulls + Unnoted
      [] bpc = "sync"      -> APull * Cardinality(todo) + BehindPulls + Unnoted
                                 + 4 + (MaxAttempts - attempts)
      [] bpc = "merge"     -> APull * Cardinality(todo) + BehindPulls + Unnoted + 3
      [] bpc = "new"       -> APull * Cardinality(todo) + BehindPulls + Unnoted + 2
      [] bpc = "pip"       -> APull * Cardinality(todo) + BehindPulls + Unnoted + 1
      [] bpc = "config"    -> Cardinality(Repo) + 6
      [] bpc = "launcher"  -> Cardinality(Repo) + 5
      [] bpc = "units"     -> Cardinality(Repo) + 4
      [] bpc = "gate"      -> Cardinality(Repo) + 3
      [] bpc = "revert"    -> Cardinality(ToTakeBack) + 2
      [] bpc = "resync"    -> 1

\* The number of steps of the longest run.
LongestRun == APull * Cardinality(Repo) + BehindPulls + 1

\* Sets of checkouts are counted, and one checkout less is one less.
LEMMA Checkouts ==
    ASSUME NEW S \in SUBSET Repo
    PROVE  /\ Cardinality(S) \in 0 .. Cardinality(Repo) /\ Cardinality(Repo) \in Nat
           /\ \A r \in S : Cardinality(S \ {r}) = Cardinality(S) - 1 /\ Cardinality(S) >= 1
<1>1. IsFiniteSet(Repo) /\ IsFiniteSet(S)
  BY RosterAssumption, FS_Subset
<1>2. /\ Cardinality(S) \in Nat /\ Cardinality(Repo) \in Nat
      /\ Cardinality(S) <= Cardinality(Repo)
  BY <1>1, FS_Subset, FS_CardinalityType
<1>3. ASSUME NEW r \in S PROVE Cardinality(S \ {r}) = Cardinality(S) - 1 /\ Cardinality(S) >= 1
  <2>1. Cardinality(S) # 0
    BY <1>1, FS_EmptySet
  <2>2. Cardinality(S \ {r}) = Cardinality(S) - 1
    BY <1>1, FS_RemoveElement
  <2> QED
    BY <1>2, <2>1, <2>2
<1> QED
  BY <1>2, <1>3

RunNumbers ==
    /\ Cardinality(todo) \in 0 .. Cardinality(Repo)
    /\ Cardinality(ToTakeBack) \in 0 .. Cardinality(Repo)
    /\ Cardinality(Repo) \in Nat /\ attempts \in 1 .. 3 /\ Unnoted \in 0 .. 1
    /\ bpc \in BootPullPc

LEMMA RunNumbersHold == TypeInv => RunNumbers
<1> SUFFICES ASSUME TypeInv PROVE RunNumbers
  OBVIOUS
<1>1. todo \in SUBSET Repo /\ ToTakeBack \in SUBSET Repo
  BY DEF TypeInv, TypeOK, BootPullTypeOK, ToTakeBack
<1>2. attempts \in 1 .. 3 /\ Unnoted \in 0 .. 1 /\ bpc \in BootPullPc
  BY DEF TypeInv, TypeOK, BootPullTypeOK, Unnoted, MaxAttempts
<1> QED
  BY <1>1, <1>2, Checkouts DEF RunNumbers

LEMMA RunNumbersStay == TypeInv' => RunNumbers'
BY RunNumbersHold, PTL

LEMMA RunLeftNatural ==
    TypeInv => RunLeft \in Nat /\ (bpc \notin Resting => RunLeft >= 1)
<1> SUFFICES ASSUME TypeInv PROVE RunLeft \in Nat /\ (bpc \notin Resting => RunLeft >= 1)
  OBVIOUS
<1>0. RunNumbers
  BY RunNumbersHold
<1>p. APull * Cardinality(todo) \in Nat /\ BehindPulls \in Nat /\ BehindPulls >= 1
  BY <1>0 DEF RunNumbers, BehindPulls, APull, MaxAttempts
<1> USE DEF RunNumbers, Resting, MaxAttempts, RunLeft
<1>1. CASE bpc \in Resting
  BY <1>1
<1>2. CASE bpc = "next"
  BY <1>0, <1>p, <1>2
<1>6. CASE bpc = "sync"
  <2>1. RunLeft = APull * Cardinality(todo) + BehindPulls + Unnoted + 4 + (3 - attempts)
    BY <1>6
  <2>2. attempts \in 1 .. 3 /\ Unnoted \in 0 .. 1
    BY <1>0
  <2>3. ASSUME NEW m \in Nat, NEW n \in Nat, n >= 1, NEW u \in 0 .. 1, NEW k \in 1 .. 3
        PROVE  m + n + u + 4 + (3 - k) \in Nat /\ m + n + u + 4 + (3 - k) >= 1
    OBVIOUS
  <2> HIDE DEF RunLeft
  <2> QED
    BY ONLY <1>p, <2>1, <2>2, <2>3
<1>3. CASE bpc \in {"merge", "new", "pip"}
  BY <1>0, <1>p, <1>3
<1>4. CASE bpc \in {"config", "launcher", "units", "gate"}
  BY <1>0, <1>4
<1>5. CASE bpc \in {"revert", "resync"}
  BY <1>0, <1>5
<1> QED
  BY <1>0, <1>1, <1>2, <1>3, <1>4, <1>5, <1>6 DEF BootPullPc

LEMMA RunLeftStays == TypeInv' => (RunLeft \in Nat)'
BY RunLeftNatural, PTL

\* A run that is over has nothing left.
LEMMA ExitEndsRun ==
    ASSUME NEW status \in {"failed", "clean"}, bpc' = status
    PROVE  RunLeft' = 0
BY DEF RunLeft, Resting

\* The pulls.
LEMMA PullShortens ==
    ASSUME TypeInv, TypeInv', AuthOrRosterFailure \/ NextRepo \/ SyncFetch \/ SyncMerge \/ ReadNew \/ PipInstall
    PROVE  RunLeft' < RunLeft
<1>0. RunNumbers /\ RunNumbers'
  BY RunNumbersHold, RunNumbersStay
<1> USE DEF RunNumbers, Resting, APull, MaxAttempts, BehindPulls
<1>1. CASE AuthOrRosterFailure
  <2>1. /\ bpc = "next" /\ bpc' = "next" /\ Unnoted = 1 /\ Unnoted' = 0
        /\ Cardinality(todo') <= Cardinality(todo)
    <3>1. todo = Repo /\ todo' \in SUBSET Repo
      BY <1>1 DEF AuthOrRosterFailure
    <3>2. Cardinality(todo') <= Cardinality(todo)
      BY <3>1, Checkouts
    <3> QED
      BY <1>1, <3>2 DEF AuthOrRosterFailure, Unnoted
  <2> QED
    BY <1>0, <2>1 DEF RunLeft
<1>2. CASE NextRepo
  <2>0. bpc = "next" /\ Unnoted' = Unnoted
    BY <1>2 DEF NextRepo, Unnoted
  <2>1. ASSUME NEW r \in todo, todo' = todo \ {r}, attempts' = 1, bpc' = "sync"
        PROVE  RunLeft' < RunLeft
    <3>1. todo \in SUBSET Repo
      BY DEF TypeInv, TypeOK, BootPullTypeOK
    <3>2. Cardinality(todo') = Cardinality(todo) - 1
      BY <2>1, <3>1, Checkouts
    <3>3. RunLeft = APull * Cardinality(todo) + BehindPulls + Unnoted
      BY <2>0 DEF RunLeft
    <3>4. RunLeft' = APull * (Cardinality(todo) - 1) + BehindPulls + Unnoted + 4 + (MaxAttempts - 1)
      BY <2>0, <2>1, <3>2 DEF RunLeft
    <3>5. APull * (Cardinality(todo) - 1) = APull * Cardinality(todo) - 7
      BY <1>0
    <3>6. APull * Cardinality(todo) \in Nat /\ BehindPulls \in Nat /\ Unnoted \in Nat
      BY <1>0
    <3>7. MaxAttempts = 3
      OBVIOUS
    <3> HIDE DEF APull, BehindPulls, MaxAttempts
    <3> QED
      BY <3>3, <3>4, <3>5, <3>6, <3>7
  <2>2. CASE todo = {} /\ bpc' = "config"
    BY <1>0, <2>0, <2>2 DEF RunLeft
  <2> QED
    BY <1>2, <2>1, <2>2 DEF NextRepo
<1>3. CASE SyncFetch
  <2>1. bpc = "sync" /\ todo' = todo
    BY <1>3 DEF SyncFetch
  <2>2. CASE bpc' = "merge" /\ UNCHANGED failures
    BY <1>0, <2>1, <2>2 DEF RunLeft, Unnoted
  <2>3. CASE attempts' = attempts + 1 /\ UNCHANGED <<bpc, failures>>
    BY <1>0, <2>1, <2>3 DEF RunLeft, Unnoted
  <2>4. CASE PullFailed
    BY <1>0, <2>1, <2>4 DEF RunLeft, Unnoted, PullFailed
  <2> QED
    BY <1>3, <2>2, <2>3, <2>4 DEF SyncFetch
<1>4. CASE SyncMerge
  BY <1>0, <1>4 DEF SyncMerge, RunLeft, Unnoted, PullFailed
<1>5. CASE ReadNew
  BY <1>0, <1>5 DEF ReadNew, RunLeft, Unnoted
<1>6. CASE PipInstall
  BY <1>0, <1>6 DEF PipInstall, RunLeft, Unnoted, PipFailed
<1> QED
  BY <1>1, <1>2, <1>3, <1>4, <1>5, <1>6

\* What comes after them.
LEMMA ProvisionShortens ==
    ASSUME TypeInv, TypeInv',
           HydrateConfig \/ InstallLauncher \/ SyncUnits \/ Gate \/ Revert \/ Resync \/ Killed
    PROVE  RunLeft' < RunLeft
<1>0. RunNumbers /\ RunNumbers'
  BY RunNumbersHold, RunNumbersStay
<1>e. \A failed \in BOOLEAN : ExitStatus(failed) \in {"failed", "clean"}
  BY DEF ExitStatus
<1>f. failures \in BOOLEAN
  BY DEF TypeInv, TypeOK, BootPullTypeOK
<1>1. CASE HydrateConfig \/ InstallLauncher
  BY <1>0, <1>1 DEF HydrateConfig, InstallLauncher, RunLeft, RunNumbers, Resting
<1>2. CASE SyncUnits
  <2>1. bpc = "units" /\ RunLeft = Cardinality(Repo) + 4
    BY <1>2 DEF SyncUnits, RunLeft, Resting
  <2>2. CASE bpc' = "gate"
    BY <1>0, <2>1, <2>2 DEF RunLeft, Resting, RunNumbers
  <2>3. CASE Exit(ExitStatus(failures \/ HeldBack # {}))
    <3>1. RunLeft' = 0
      BY <1>e, <1>f, <2>3, ExitEndsRun DEF Exit
    <3> QED
      BY <1>0, <2>1, <3>1 DEF RunNumbers
  <2> QED
    BY <1>2, <2>2, <2>3 DEF SyncUnits
<1>3. CASE Gate
  <2>1. bpc = "gate" /\ RunLeft = Cardinality(Repo) + 3
    BY <1>3 DEF Gate, RunLeft, Resting
  <2>2. CASE bpc' = "revert"
    BY <1>0, <2>1, <2>2 DEF RunLeft, Resting, RunNumbers
  <2>3. CASE Exit(ExitStatus(failures))
    <3>1. RunLeft' = 0
      BY <1>e, <1>f, <2>3, ExitEndsRun DEF Exit
    <3> QED
      BY <1>0, <2>1, <3>1 DEF RunNumbers
  <2> QED
    BY <1>3, <2>2, <2>3 DEF Gate
<1>4. CASE Revert
  <2>1. bpc = "revert" /\ RunLeft = Cardinality(ToTakeBack) + 2
    BY <1>4 DEF Revert, RunLeft, Resting
  <2>2. ASSUME NEW r \in Repo, pulled[r] # None, pulled' = [pulled EXCEPT ![r] = None], bpc' = bpc
        PROVE  RunLeft' < RunLeft
    <3>1. ToTakeBack \in SUBSET Repo /\ r \in ToTakeBack /\ ToTakeBack' = ToTakeBack \ {r}
      BY <2>2 DEF ToTakeBack, TypeInv, TypeOK, BootPullTypeOK
    <3>2. Cardinality(ToTakeBack') = Cardinality(ToTakeBack) - 1
      BY <3>1, Checkouts
    <3>3. RunLeft' = Cardinality(ToTakeBack') + 2
      BY <2>1, <2>2 DEF RunLeft, Resting
    <3> QED
      BY <1>0, <2>1, <3>2, <3>3 DEF RunNumbers
  <2>3. CASE bpc' = "resync"
    BY <1>0, <2>1, <2>3 DEF RunLeft, Resting, RunNumbers
  <2> QED
    BY <1>4, <2>2, <2>3 DEF Revert
<1>5. CASE Resync \/ Killed
  <2>1. RunLeft >= 1 /\ RunLeft \in Nat
    BY <1>5, RunLeftNatural DEF Resync, Killed, Resting
  <2>2. RunLeft' = 0
    BY <1>5, ExitEndsRun DEF Resync, Killed, Exit
  <2> QED
    BY <2>1, <2>2
<1> QED
  BY <1>1, <1>2, <1>3, <1>4, <1>5

\* Everybody else leaves a run as it is, or ends it.
LEMMA OthersLeaveRun ==
    ASSUME TypeInv, DeployNext \/ OtherNext \/ Reboot \/ UNCHANGED vars
    PROVE  RunLeft' <= RunLeft
<1>0. RunLeft \in Nat
  BY RunLeftNatural
<1>1. CASE DeployNext \/ OtherNext \/ UNCHANGED vars
  <2>1. UNCHANGED bootpull
    BY <1>1 DEF DeployNext, OtherNext, vars
  <2>2. UNCHANGED <<bpc, todo, attempts, failures, pulled>>
    BY <2>1 DEF bootpull
  <2>3. RunLeft' = RunLeft
    BY <2>2 DEF RunLeft, APull, BehindPulls, Unnoted, ToTakeBack
  <2> QED
    BY <1>0, <2>3
<1>2. CASE Reboot
  <2>1. RunLeft' = 0
    BY <1>2, ExitEndsRun DEF Reboot, Exit
  <2> QED
    BY <1>0, <2>1
<1> QED
  BY <1>1, <1>2

\* A run that starts has as many steps before it as any.
LEMMA StartsRun ==
    ASSUME TypeInv, TypeInv', Start
    PROVE  RunLeft' = LongestRun
<1>1. bpc' = "next" /\ todo' = Repo /\ Unnoted' = 1
  BY DEF Start, Unnoted
<1> QED
  BY <1>1 DEF RunLeft, Resting, LongestRun, BehindPulls, APull

\* A run of boot-pull is over after a number of steps that only the roster and the
\* attempts of a pull bound: each of its steps leaves fewer, whatever fails; nobody
\* else gives a run in progress more to do, and only the launcher begins anew.  The
\* retries of sync_repo_to_main and the rollback are all that loops in boot-pull.sh.
THEOREM BootPullRunsDown ==
    Spec => /\ [](RunLeft \in 0 .. LongestRun)
            /\ [][bpc \notin Resting => /\ RunLeft' <= RunLeft
                                        /\ BootPullNext => RunLeft' < RunLeft]_vars
<1>0. Init => RunLeft \in 0 .. LongestRun
  <2>1. Init => RunLeft = 0
    BY DEF Init, BootPullInit, RunLeft, Resting
  <2>2. LongestRun \in Nat
    BY Checkouts DEF LongestRun, BehindPulls, APull, MaxAttempts
  <2> QED
    BY <2>1, <2>2
<1>1. TypeInv /\ TypeInv' /\ [Next]_vars
         => /\ bpc \notin Resting => /\ RunLeft' <= RunLeft
                                     /\ BootPullNext => RunLeft' < RunLeft
            /\ RunLeft' <= RunLeft \/ RunLeft' = LongestRun
  <2> SUFFICES ASSUME TypeInv, TypeInv', [Next]_vars
               PROVE  /\ bpc \notin Resting => /\ RunLeft' <= RunLeft
                                               /\ BootPullNext => RunLeft' < RunLeft
                      /\ RunLeft' <= RunLeft \/ RunLeft' = LongestRun
    OBVIOUS
  <2>1. RunLeft \in Nat /\ RunLeft' \in Nat
    BY RunLeftNatural, RunLeftStays
  <2>2. ASSUME BootPullNext, ~Start PROVE RunLeft' < RunLeft
    BY <2>2, PullShortens, ProvisionShortens DEF BootPullNext, BootPullStep
  <2>3. ASSUME Start PROVE bpc \in Resting /\ RunLeft' = LongestRun
    <3>1. bpc \in Resting
      BY <2>3 DEF Start
    <3> QED
      BY <2>3, <3>1, StartsRun
  <2>4. ASSUME ~BootPullNext PROVE RunLeft' <= RunLeft
    BY <2>4, OthersLeaveRun DEF Next
  <2>5. RunLeft' < RunLeft => RunLeft' <= RunLeft
    BY <2>1
  <2> QED
    BY <2>2, <2>3, <2>4, <2>5
<1>2. TypeInv /\ TypeInv' /\ [Next]_vars /\ RunLeft \in 0 .. LongestRun
         => (RunLeft \in 0 .. LongestRun)'
  <2> SUFFICES ASSUME TypeInv, TypeInv', [Next]_vars, RunLeft \in 0 .. LongestRun
               PROVE  (RunLeft \in 0 .. LongestRun)'
    OBVIOUS
  <2>1. RunLeft' \in Nat /\ LongestRun' = LongestRun /\ LongestRun \in Nat
    BY RunLeftStays, Checkouts DEF LongestRun, BehindPulls, APull, MaxAttempts
  <2>2. RunLeft' <= RunLeft \/ RunLeft' = LongestRun
    BY <1>1
  <2> QED
    BY <2>1, <2>2
<1> QED
  BY <1>0, <1>1, <1>2, PinsAlwaysSet, PTL DEF Spec

=============================================================================
