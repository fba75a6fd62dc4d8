--------------------- MODULE DashboardBoxSafety_proofs ---------------------
(***************************************************************************)
(* Safety of DashboardBox for every number of checkouts, slots, commits    *)
(* and revisions and every budget of events, from the type invariant of    *)
(* DashboardBox_proofs.                                                    *)
(***************************************************************************)
EXTENDS DashboardBox_proofs

USE CheckoutAssumption DEF CheckoutAssumption, None, Sha

-----------------------------------------------------------------------------
(* What is on the box *)

\* Whoever installs an artifact installs the tree's copy of it.
LEMMA ProvideStep ==
    ASSUME TypeInv, NEW as, NEW a \in Artifact
    PROVE  Provide(as)[a] \in {installed[a], Tree(a)}
BY DEF Provide

\* A section gated on cmp installs its own artifact and no other.
LEMMA RefreshStep ==
    ASSUME TypeInv, NEW b \in Artifact, NEW a \in Artifact
    PROVE  /\ Refresh(b)[a] \in {installed[a], Tree(a)}
           /\ Refresh(a)[a] = Tree(a)
           /\ a # b => Refresh(b)[a] = installed[a]
BY DEF Refresh, Stale, TypeInv, TypeOK, SharedTypeOK

\* What a rebuild of the venv does not take away.
OutsideVenv == Artifact \ {"py", "req"}

\* In every step every such artifact stays or becomes the tree's.
LEMMA InstalledStep ==
    ASSUME TypeInv, [Next]_vars
    PROVE  \A a \in OutsideVenv : installed'[a] \in {installed[a], Tree(a)}
<1> DEFINE Goal == \A a \in OutsideVenv : installed'[a] \in {installed[a], Tree(a)}
<1>0. OutsideVenv \subseteq Artifact
  BY DEF OutsideVenv
<1>1. ASSUME Merge, UNCHANGED bootpull PROVE Goal
  BY <1>1 DEF Merge, Queue, git, box, Local
<1>2. ASSUME NEW sha \in Sha, Dispatch(sha), UNCHANGED bootpull PROVE Goal
  BY <1>2 DEF Dispatch, git, box, Local
<1>3. ASSUME DeliveryFailure, UNCHANGED bootpull PROVE Goal
  BY <1>3 DEF DeliveryFailure, git, box, Local
<1>4. ASSUME NEW s \in Slot, SendCommand(s), UNCHANGED bootpull PROVE Goal
  BY <1>4 DEF SendCommand, git, box, Local
<1>5. ASSUME NEW s \in Slot, StopWaiting(s), UNCHANGED bootpull PROVE Goal
  BY <1>5 DEF StopWaiting, git, box, Local
<1>6. ASSUME NEW s \in Slot, CommandEnds(s), UNCHANGED bootpull PROVE Goal
  BY <1>6 DEF CommandEnds, git, box, Local
<1>7. ASSUME NEW s \in Slot, SsmFetch(s), UNCHANGED bootpull PROVE Goal
  BY <1>7 DEF SsmFetch, Fetch, git, box, Local
<1>8. ASSUME NEW s \in Slot, SsmReset(s), UNCHANGED bootpull PROVE Goal
  BY <1>8 DEF SsmReset, ResetHard, git, box, Local
<1>9. ASSUME NEW s \in Slot, ResolveHead(s), UNCHANGED bootpull PROVE Goal
  BY <1>9 DEF ResolveHead, git, box, Local
<1>10. ASSUME NEW s \in Slot, Requirements(s), UNCHANGED bootpull PROVE Goal
  <2>1. installed' \in {installed} \cup {Provide({"req"})}
    BY <1>10 DEF Requirements
  <2> QED
    BY <1>0, <2>1, ProvideStep
<1>11. ASSUME NEW s \in Slot, Nginx(s), UNCHANGED bootpull PROVE Goal
  <2>1. "nginx" \in Artifact /\ installed' \in {installed, Refresh("nginx")}
    BY <1>11 DEF Artifact, Nginx, CmpSection
  <2> QED
    BY <1>0, <2>1, RefreshStep
<1>12. ASSUME NEW s \in Slot, SystemdUnits(s), UNCHANGED bootpull PROVE Goal
  <2>1. "sysd" \in Artifact /\ installed' \in {installed, Refresh("sysd")}
    BY <1>12 DEF Artifact, SystemdUnits, CmpSection
  <2> QED
    BY <1>0, <2>1, RefreshStep
<1>13. ASSUME NEW s \in Slot, RouteBootPull(s), UNCHANGED bootpull PROVE Goal
  <2>1. installed' \in {installed} \cup {Provide({"launcher"}), Provide({"launcher", "bpunit"})}
    BY <1>13 DEF RouteBootPull
  <2> QED
    BY <1>0, <2>1, ProvideStep
<1>14. ASSUME NEW s \in Slot, RouteLimits(s), UNCHANGED bootpull PROVE Goal
  <2>1. installed' \in {installed} \cup {Provide({"limits"})}
    BY <1>14 DEF RouteLimits
  <2> QED
    BY <1>0, <2>1, ProvideStep
<1>15. ASSUME NEW s \in Slot, AppServices(s), UNCHANGED bootpull PROVE Goal
  <2>1. "unit" \in Artifact /\ installed' \in {installed, Refresh("unit")}
    BY <1>15 DEF Artifact, AppServices
  <2> QED
    BY <1>0, <2>1, RefreshStep
<1>16. ASSUME NEW s \in Slot, DashWeb(s), UNCHANGED bootpull PROVE Goal
  <2>1. installed' \in {installed} \cup {Provide({"web"})}
    BY <1>16 DEF DashWeb
  <2> QED
    BY <1>0, <2>1, ProvideStep
<1>17. ASSUME NEW s \in Slot, HealthCheck(s), UNCHANGED bootpull PROVE Goal
  BY <1>17 DEF HealthCheck, git, box, Local
<1>18. ASSUME NEW s \in Slot, RecordGood(s), UNCHANGED bootpull PROVE Goal
  BY <1>18 DEF RecordGood, GoodSha, git, box, Local
<1>19. ASSUME NEW s \in Slot, RevertReset(s), UNCHANGED bootpull PROVE Goal
  BY <1>19 DEF RevertReset, Revertable, ResetHard, git, box, Local
<1>20. ASSUME NEW s \in Slot, Reprovision(s), UNCHANGED bootpull PROVE Goal
  <2>1. PICK as : installed' = Provide(as)
    BY <1>20 DEF Reprovision
  <2> QED
    BY <1>0, <2>1, ProvideStep
<1>21. ASSUME Start, UNCHANGED deploy PROVE Goal
  BY <1>21 DEF Start, Fetch, git, box, Local
<1>22. ASSUME AuthOrRosterFailure, UNCHANGED deploy PROVE Goal
  BY <1>22 DEF AuthOrRosterFailure, git, box, Local
<1>23. ASSUME NextRepo, UNCHANGED deploy PROVE Goal
  BY <1>23 DEF NextRepo, git, box, Local
<1>24. ASSUME SyncFetch, UNCHANGED deploy PROVE Goal
  BY <1>24 DEF SyncFetch, Fetch, git, box, Local
<1>25. ASSUME SyncMerge, UNCHANGED deploy PROVE Goal
  BY <1>25 DEF SyncMerge, FastForward, git, box, Local
<1>26. ASSUME ReadNew, UNCHANGED deploy PROVE Goal
  BY <1>26 DEF ReadNew, git, box, Local
<1>27. ASSUME PipInstall, UNCHANGED deploy PROVE Goal
  <2>1. installed' \in {installed} \cup {Provide({"req"})}
    BY <1>27 DEF PipInstall, PipFailed
  <2> QED
    BY <1>0, <2>1, ProvideStep
<1>28. ASSUME HydrateConfig, UNCHANGED deploy PROVE Goal
  BY <1>28 DEF HydrateConfig, git, box, Local
<1>29. ASSUME InstallLauncher, UNCHANGED deploy PROVE Goal
  <2>1. installed' \in {installed} \cup {Provide({"launcher"})}
    BY <1>29 DEF InstallLauncher
  <2> QED
    BY <1>0, <2>1, ProvideStep
<1>30. ASSUME SyncUnits, UNCHANGED deploy PROVE Goal
  <2>1. installed' \in {installed} \cup {Provide(ToSync)}
    BY <1>30 DEF SyncUnits
  <2> QED
    BY <1>0, <2>1, ProvideStep
<1>31. ASSUME Gate, UNCHANGED deploy PROVE Goal
  BY <1>31 DEF Gate, Exit, git, box, Local
<1>32. ASSUME Revert, UNCHANGED deploy PROVE Goal
  BY <1>32 DEF Revert, ResetHard, git, box, Local
<1>33. ASSUME Resync, UNCHANGED deploy PROVE Goal
  <2>1. installed' \in {installed} \cup {Provide({u \in ToSync : installed[u] # None})}
    BY <1>33 DEF Resync
  <2> QED
    BY <1>0, <2>1, ProvideStep
<1>34. ASSUME Killed, UNCHANGED deploy PROVE Goal
  BY <1>34 DEF Killed, Exit, git, box, Local
<1>35. ASSUME DailyFetch, UNCHANGED <<deploy, bootpull>> PROVE Goal
  BY <1>35 DEF DailyFetch, Fetch, git, box, Local
<1>36. ASSUME DailyMerge, UNCHANGED <<deploy, bootpull>> PROVE Goal
  BY <1>36 DEF DailyMerge, FastForward, git, box, Local
<1>37. ASSUME NEW r \in Repo, HandEdit(r), UNCHANGED <<deploy, bootpull>> PROVE Goal
  BY <1>37 DEF HandEdit, git, box, Local
<1>38. ASSUME NEW r \in Repo, MergeElsewhere(r), UNCHANGED <<deploy, bootpull>> PROVE Goal
  BY <1>38 DEF MergeElsewhere, git, box, Local
<1>39. ASSUME Reboot PROVE Goal
  BY <1>39 DEF Reboot, Exit, git, box, Local
<1>40. ASSUME UNCHANGED vars PROVE Goal
  BY <1>40 DEF vars, git, box, Local
<1>41. ASSUME NEW s \in Slot, CheckVenv(s), UNCHANGED bootpull PROVE Goal
  BY <1>41 DEF CheckVenv, PutAside, OutsideVenv, TypeInv, TypeOK, SharedTypeOK
<1>42. ASSUME NEW s \in Slot, CreateVenv(s), UNCHANGED bootpull PROVE Goal
  <2>1. installed' \in {installed} \cup {Provide({"py"})}
    BY <1>42 DEF CreateVenv
  <2> QED
    BY <1>0, <2>1, ProvideStep
<1>43. ASSUME NEW s \in Slot, InstallVenv(s), UNCHANGED bootpull PROVE Goal
  <2>1. installed' \in {installed} \cup {Provide({"req"})}
    BY <1>43 DEF InstallVenv
  <2> QED
    BY <1>0, <2>1, ProvideStep
<1>44. ASSUME NEW s \in Slot, RestartOnVenv(s), UNCHANGED bootpull PROVE Goal
  BY <1>44 DEF RestartOnVenv, git, box, Local
<1>45. ASSUME NEW s \in Slot, ProbeVenv(s), UNCHANGED bootpull PROVE Goal
  BY <1>45 DEF ProbeVenv, git, box, Local
<1>46. ASSUME NEW s \in Slot, RollBackVenv(s), UNCHANGED bootpull PROVE Goal
  BY <1>46 DEF RollBackVenv, OutsideVenv, TypeInv, TypeOK, SharedTypeOK
<1>47. ASSUME NEW s \in Slot, CheckDrift(s), UNCHANGED bootpull PROVE Goal
  BY <1>47 DEF CheckDrift, git, box, Local
<1> QED
  BY <1>1, <1>2, <1>3, <1>4, <1>5, <1>6, <1>7, <1>8, <1>9, <1>10, <1>11, <1>12, <1>13, <1>14,
     <1>15, <1>16, <1>17, <1>18, <1>19, <1>20, <1>21, <1>22, <1>23, <1>24, <1>25, <1>26,
     <1>27, <1>28, <1>29, <1>30, <1>31, <1>32, <1>33, <1>34, <1>35, <1>36, <1>37, <1>38,
     <1>39, <1>40, <1>41, <1>42, <1>43, <1>44, <1>45, <1>46, <1>47
     DEF Next, DeployNext, Workflow, Command, BootPullNext, BootPullStep, OtherNext

\* Who brings boot-pull.service brings the launcher with it, or has checked for it.
LEMMA LauncherStep ==
    ASSUME TypeInv, LauncherBeforeUnit, [Next]_vars
    PROVE  LauncherBeforeUnit'
<1>0. \A a \in OutsideVenv : installed'[a] \in {installed[a], Tree(a)}
  BY InstalledStep
<1>art. /\ "bpunit" \in Artifact /\ "launcher" \in Artifact
        /\ "bpunit" \in OutsideVenv /\ "launcher" \in OutsideVenv
  BY DEF Artifact, OutsideVenv
<1>mono. installed["launcher"] # None => installed'["launcher"] # None
  BY <1>0, <1>art, TreeType DEF TypeInv, TypeOK
<1>3. SUFFICES installed'["bpunit"] = installed["bpunit"] \/ installed'["launcher"] # None
               \/ Tree("bpunit") \notin NamesLauncher
  BY <1>0, <1>mono, <1>art DEF LauncherBeforeUnit
<1> QED
  <2> DEFINE Goal == \/ installed'["bpunit"] = installed["bpunit"]
                     \/ installed'["launcher"] # None
                     \/ Tree("bpunit") \notin NamesLauncher
  <2>1. ASSUME Merge, UNCHANGED bootpull PROVE Goal
    BY <2>1 DEF Merge, Queue, git, box, Local
  <2>2. ASSUME NEW sha \in Sha, Dispatch(sha), UNCHANGED bootpull PROVE Goal
    BY <2>2 DEF Dispatch, git, box, Local
  <2>3. ASSUME DeliveryFailure, UNCHANGED bootpull PROVE Goal
    BY <2>3 DEF DeliveryFailure, git, box, Local
  <2>4. ASSUME NEW s \in Slot, SendCommand(s), UNCHANGED bootpull PROVE Goal
    BY <2>4 DEF SendCommand, git, box, Local
  <2>5. ASSUME NEW s \in Slot, StopWaiting(s), UNCHANGED bootpull PROVE Goal
    BY <2>5 DEF StopWaiting, git, box, Local
  <2>6. ASSUME NEW s \in Slot, CommandEnds(s), UNCHANGED bootpull PROVE Goal
    BY <2>6 DEF CommandEnds, git, box, Local
  <2>7. ASSUME NEW s \in Slot, SsmFetch(s), UNCHANGED bootpull PROVE Goal
    BY <2>7 DEF SsmFetch, Fetch, git, box, Local
  <2>8. ASSUME NEW s \in Slot, SsmReset(s), UNCHANGED bootpull PROVE Goal
    BY <2>8 DEF SsmReset, ResetHard, git, box, Local
  <2>9. ASSUME NEW s \in Slot, ResolveHead(s), UNCHANGED bootpull PROVE Goal
    BY <2>9 DEF ResolveHead, git, box, Local
  <2>10. ASSUME NEW s \in Slot, Requirements(s), UNCHANGED bootpull PROVE Goal
    <3>1. installed' \in {installed, Provide({"req"})}
      BY <2>10 DEF Requirements
    <3> QED
      BY <3>1, <1>art DEF Provide
  <2>11. ASSUME NEW s \in Slot, Nginx(s), UNCHANGED bootpull PROVE Goal
    <3>1. "nginx" \in Artifact /\ installed' \in {installed, Refresh("nginx")}
      BY <2>11 DEF Artifact, Nginx, CmpSection
    <3> QED
      BY <3>1, <1>art, RefreshStep
  <2>12. ASSUME NEW s \in Slot, SystemdUnits(s), UNCHANGED bootpull PROVE Goal
    <3>1. "sysd" \in Artifact /\ installed' \in {installed, Refresh("sysd")}
      BY <2>12 DEF Artifact, SystemdUnits, CmpSection
    <3> QED
      BY <3>1, <1>art, RefreshStep
  <2>13. ASSUME NEW s \in Slot, RouteBootPull(s), UNCHANGED bootpull PROVE Goal
    <3>1. installed' \in {installed, Provide({"launcher"}), Provide({"launcher", "bpunit"})}
      BY <2>13 DEF RouteBootPull
    <3> QED
      BY <3>1, <1>art, TreeType DEF Provide, TypeInv, TypeOK
  <2>14. ASSUME NEW s \in Slot, RouteLimits(s), UNCHANGED bootpull PROVE Goal
    <3>1. installed' \in {installed, Provide({"limits"})}
      BY <2>14 DEF RouteLimits
    <3> QED
      BY <3>1, <1>art DEF Provide
  <2>15. ASSUME NEW s \in Slot, AppServices(s), UNCHANGED bootpull PROVE Goal
    <3>1. "unit" \in Artifact /\ installed' \in {installed, Refresh("unit")}
      BY <2>15 DEF Artifact, AppServices
    <3> QED
      BY <3>1, <1>art, RefreshStep
  <2>16. ASSUME NEW s \in Slot, DashWeb(s), UNCHANGED bootpull PROVE Goal
    <3>1. installed' \in {installed, Provide({"web"})}
      BY <2>16 DEF DashWeb
    <3> QED
      BY <3>1, <1>art DEF Provide
  <2>17. ASSUME NEW s \in Slot, HealthCheck(s), UNCHANGED bootpull PROVE Goal
    BY <2>17 DEF HealthCheck, git, box, Local
  <2>18. ASSUME NEW s \in Slot, RecordGood(s), UNCHANGED bootpull PROVE Goal
    BY <2>18 DEF RecordGood, GoodSha, git, box, Local
  <2>19. ASSUME NEW s \in Slot, RevertReset(s), UNCHANGED bootpull PROVE Goal
    BY <2>19 DEF RevertReset, Revertable, ResetHard, git, box, Local
  <2>20. ASSUME NEW s \in Slot, Reprovision(s), UNCHANGED bootpull PROVE Goal
    <3>1. PICK as \in SUBSET {"limits", "sysd"} : installed' = Provide(as)
      BY <2>20 DEF Reprovision
    <3> QED
      BY <3>1, <1>art DEF Provide
  <2>21. ASSUME Start, UNCHANGED deploy PROVE Goal
    BY <2>21 DEF Start, Fetch, git, box, Local
  <2>22. ASSUME AuthOrRosterFailure, UNCHANGED deploy PROVE Goal
    BY <2>22 DEF AuthOrRosterFailure, git, box, Local
  <2>23. ASSUME NextRepo, UNCHANGED deploy PROVE Goal
    BY <2>23 DEF NextRepo, git, box, Local
  <2>24. ASSUME SyncFetch, UNCHANGED deploy PROVE Goal
    BY <2>24 DEF SyncFetch, Fetch, git, box, Local
  <2>25. ASSUME SyncMerge, UNCHANGED deploy PROVE Goal
    BY <2>25 DEF SyncMerge, FastForward, git, box, Local
  <2>26. ASSUME ReadNew, UNCHANGED deploy PROVE Goal
    BY <2>26 DEF ReadNew, git, box, Local
  <2>27. ASSUME PipInstall, UNCHANGED deploy PROVE Goal
    <3>1. installed' \in {installed, Provide({"req"})}
      BY <2>27 DEF PipInstall, PipFailed
    <3> QED
      BY <3>1, <1>art DEF Provide
  <2>28. ASSUME HydrateConfig, UNCHANGED deploy PROVE Goal
    BY <2>28 DEF HydrateConfig, git, box, Local
  <2>29. ASSUME InstallLauncher, UNCHANGED deploy PROVE Goal
    <3>1. installed' \in {installed, Provide({"launcher"})}
      BY <2>29 DEF InstallLauncher
    <3> QED
      BY <3>1, <1>art DEF Provide
  <2>30. ASSUME SyncUnits, UNCHANGED deploy PROVE Goal
    <3>1. installed' = Provide(ToSync)
      BY <2>30 DEF SyncUnits
    <3>2. CASE "bpunit" \in ToSync
      <4>1. Tree("bpunit") \notin NamesLauncher \/ installed["launcher"] # None
        BY <3>2 DEF ToSync, Installable
      <4> QED
        BY <4>1, <1>mono
    <3>3. CASE "bpunit" \notin ToSync
      BY <3>1, <3>3, <1>art DEF Provide
    <3> QED
      BY <3>2, <3>3
  <2>31. ASSUME Gate, UNCHANGED deploy PROVE Goal
    BY <2>31 DEF Gate, Exit, git, box, Local
  <2>32. ASSUME Revert, UNCHANGED deploy PROVE Goal
    BY <2>32 DEF Revert, ResetHard, git, box, Local
  <2>33. ASSUME Resync, UNCHANGED deploy PROVE Goal
    <3>1. installed' = Provide({u \in ToSync : installed[u] # None})
      BY <2>33 DEF Resync
    <3>2. CASE "bpunit" \in ToSync
      <4>1. Tree("bpunit") \notin NamesLauncher \/ installed["launcher"] # None
        BY <3>2 DEF ToSync, Installable
      <4> QED
        BY <4>1, <1>mono
    <3>3. CASE "bpunit" \notin ToSync
      BY <3>1, <3>3, <1>art DEF Provide
    <3> QED
      BY <3>2, <3>3
  <2>34. ASSUME Killed, UNCHANGED deploy PROVE Goal
    BY <2>34 DEF Killed, Exit, git, box, Local
  <2>35. ASSUME DailyFetch, UNCHANGED <<deploy, bootpull>> PROVE Goal
    BY <2>35 DEF DailyFetch, Fetch, git, box, Local
  <2>36. ASSUME DailyMerge, UNCHANGED <<deploy, bootpull>> PROVE Goal
    BY <2>36 DEF DailyMerge, FastForward, git, box, Local
  <2>37. ASSUME NEW r \in Repo, HandEdit(r), UNCHANGED <<deploy, bootpull>> PROVE Goal
    BY <2>37 DEF HandEdit, git, box, Local
  <2>38. ASSUME NEW r \in Repo, MergeElsewhere(r), UNCHANGED <<deploy, bootpull>> PROVE Goal
    BY <2>38 DEF MergeElsewhere, git, box, Local
  <2>39. ASSUME Reboot PROVE Goal
    BY <2>39 DEF Reboot, Exit, git, box, Local
  <2>40. ASSUME UNCHANGED vars PROVE Goal
    BY <2>40 DEF vars, git, box, Local
  <2>41. ASSUME NEW s \in Slot, CheckVenv(s), UNCHANGED bootpull PROVE Goal
    BY <2>41, <1>art DEF CheckVenv, PutAside, TypeInv, TypeOK, SharedTypeOK
  <2>42. ASSUME NEW s \in Slot, CreateVenv(s), UNCHANGED bootpull PROVE Goal
    <3>1. installed' \in {installed, Provide({"py"})}
      BY <2>42 DEF CreateVenv
    <3> QED
      BY <3>1, <1>art DEF Provide
  <2>43. ASSUME NEW s \in Slot, InstallVenv(s), UNCHANGED bootpull PROVE Goal
    <3>1. installed' \in {installed, Provide({"req"})}
      BY <2>43 DEF InstallVenv
    <3> QED
      BY <3>1, <1>art DEF Provide
  <2>44. ASSUME NEW s \in Slot, RestartOnVenv(s), UNCHANGED bootpull PROVE Goal
    BY <2>44 DEF RestartOnVenv, git, box, Local
  <2>45. ASSUME NEW s \in Slot, ProbeVenv(s), UNCHANGED bootpull PROVE Goal
    BY <2>45 DEF ProbeVenv, git, box, Local
  <2>46. ASSUME NEW s \in Slot, RollBackVenv(s), UNCHANGED bootpull PROVE Goal
    BY <2>46, <1>art DEF RollBackVenv, TypeInv, TypeOK, SharedTypeOK
  <2>47. ASSUME NEW s \in Slot, CheckDrift(s), UNCHANGED bootpull PROVE Goal
    BY <2>47 DEF CheckDrift, git, box, Local
  <2> QED
    BY <2>1, <2>2, <2>3, <2>4, <2>5, <2>6, <2>7, <2>8, <2>9, <2>10, <2>11, <2>12, <2>13,
       <2>14, <2>15, <2>16, <2>17, <2>18, <2>19, <2>20, <2>21, <2>22, <2>23, <2>24, <2>25,
       <2>26, <2>27, <2>28, <2>29, <2>30, <2>31, <2>32, <2>33, <2>34, <2>35, <2>36, <2>37,
       <2>38, <2>39, <2>40, <2>41, <2>42, <2>43, <2>44, <2>45, <2>46, <2>47
       DEF Next, DeployNext, Workflow, Command, BootPullNext, BootPullStep, OtherNext

\* boot-pull.service never names a launcher that is not there, so no run of the
\* safety net can fail 203/EXEC, the one that would repair it included.
THEOREM LauncherFirst == Spec => []LauncherBeforeUnit
<1>1. Init => LauncherBeforeUnit
  <2> SUFFICES ASSUME Init PROVE LauncherBeforeUnit
    OBVIOUS
  <2>1. Content[1] \in [Artifact -> Rev]
    OBVIOUS
  <2>2. "launcher" \in Artifact /\ "bpunit" \in Artifact
    BY DEF Artifact
  <2>3. \A v \in Rev : v # None
    OBVIOUS
  <2>4. Content[1]["launcher"] # None
    BY <2>1, <2>2, <2>3
  <2> QED
    BY <2>1, <2>2, <2>4 DEF LauncherBeforeUnit, Init, SharedInit
<1>2. TypeInv /\ LauncherBeforeUnit /\ [Next]_vars => LauncherBeforeUnit'
  BY LauncherStep
<1> QED
  BY <1>1, <1>2, PinsAlwaysSet, PTL DEF Spec

-----------------------------------------------------------------------------
(* Where HEAD is *)

\* Every sha a reset may go back to has been fetched.
ShasFetched ==
    /\ lastGood <= fetched[Dash]
    /\ \A s \in Slot : current[s] <= fetched[Dash]
    /\ prev <= fetched[repo]
    /\ \A r \in Repo : pulled[r] <= fetched[r]

GitInv == HeadWithinMain /\ ShasFetched

\* A step that moves no ref and remembers no sha it did not know keeps GitInv.
LEMMA GitFrame ==
    ASSUME TypeInv, GitInv, UNCHANGED <<origin, fetched, head>>,
           UNCHANGED <<lastGood, current, prev, repo, pulled>>
    PROVE  GitInv'
BY DEF GitInv, HeadWithinMain, ShasFetched

\* Refs only move forward, to what main has.
LEMMA FetchStep ==
    ASSUME TypeInv, GitInv, NEW r \in Repo, Fetch(r), UNCHANGED <<origin, head>>,
           UNCHANGED <<lastGood, current>>,
           UNCHANGED <<prev, repo, pulled>> \/ (UNCHANGED <<prev, repo>> /\ pulled' = [q \in
              Repo |-> None])
    PROVE  GitInv'
<1>0. \A q \in Repo : /\ fetched[q] \in Nat /\ origin[q] \in Nat
                      /\ head[q] \in Nat /\ pulled[q] \in Nat
  <2>1. \A q \in Repo : fetched[q] \in Sha /\ origin[q] \in Sha /\ head[q] \in Sha
    BY DEF TypeInv, TypeOK, SharedTypeOK
  <2>2. \A q \in Repo : pulled[q] \in Sha \cup {None}
    BY DEF TypeInv, TypeOK, BootPullTypeOK
  <2> QED
    BY <2>1, <2>2
<1>r. \A q \in Repo : fetched'[q] \in {fetched[q], origin[q]}
  BY DEF Fetch, TypeInv, TypeOK, SharedTypeOK
<1>1. \A q \in Repo : /\ fetched[q] <= fetched'[q] /\ fetched'[q] <= origin[q]
                      /\ fetched[q] \in Nat /\ fetched'[q] \in Nat /\ origin[q] \in Nat
                      /\ head[q] \in Nat /\ pulled[q] \in Nat
  BY <1>0, <1>r DEF GitInv, HeadWithinMain
<1>2. lastGood \in Nat /\ prev \in Nat /\ repo \in Repo /\ \A s \in Slot : current[s] \in Nat
  BY DEF TypeInv, TypeOK, DeployTypeOK, BootPullTypeOK
<1>3. HeadWithinMain'
  BY <1>1 DEF GitInv, HeadWithinMain
<1>4. ShasFetched'
  <2>1. lastGood' <= fetched'[Dash] /\ \A s \in Slot : current'[s] <= fetched'[Dash]
    BY <1>1, <1>2 DEF GitInv, ShasFetched
  <2>2. prev' <= fetched'[repo']
    BY <1>1, <1>2 DEF GitInv, ShasFetched
  <2>3. ASSUME NEW q \in Repo PROVE pulled'[q] <= fetched'[q]
    <3>1. pulled[q] <= fetched[q]
      BY DEF GitInv, ShasFetched
    <3>2. pulled'[q] \in {pulled[q], None}
      OBVIOUS
    <3> QED
      BY <1>1, <3>1, <3>2
  <2> QED
    BY <2>1, <2>2, <2>3 DEF ShasFetched
<1> QED
  BY <1>3, <1>4 DEF GitInv

\* HEAD moves to the remote-tracking ref or to a fetched sha.
LEMMA HeadStep ==
    ASSUME TypeInv, GitInv, NEW r \in Repo, NEW sha \in Sha, sha <= fetched[r],
           head' = [head EXCEPT ![r] = sha], UNCHANGED <<origin, fetched>>,
           UNCHANGED <<lastGood, current, prev, repo>>,
           \A q \in Repo : pulled'[q] \in {pulled[q], None}
    PROVE  GitInv'
<1>1. HeadWithinMain'
  BY DEF GitInv, HeadWithinMain, TypeInv, TypeOK, SharedTypeOK
<1>2. \A q \in Repo : fetched[q] >= 0
  BY DEF TypeInv, TypeOK, SharedTypeOK
<1>3. ShasFetched'
  BY <1>2 DEF GitInv, ShasFetched
<1> QED
  BY <1>1, <1>3 DEF GitInv

\* A step that only brings in shas at or behind HEAD, or forgets some.
LEMMA NoteStep ==
    ASSUME TypeInv, GitInv, UNCHANGED <<origin, fetched, head>>,
           lastGood' = lastGood \/ \E s \in Slot : lastGood' = current[s],
           \A s \in Slot : current'[s] \in {current[s], head[Dash], None},
           \/ UNCHANGED <<prev, repo>> /\ \A r \in Repo : pulled'[r] \in {pulled[r], None}
           \/ UNCHANGED <<prev, repo>> /\ pulled' = [pulled EXCEPT ![repo] = prev]
           \/ repo' \in Repo /\ prev' \in {head[repo'], None} /\ \A r \in Repo : pulled'[r]
              \in {pulled[r], None}
    PROVE  GitInv'
<1>1. HeadWithinMain'
  BY DEF GitInv, HeadWithinMain
<1>2. \A r \in Repo : fetched[r] \in Nat /\ head[r] \in Nat /\ head[r] <= fetched[r]
  BY DEF GitInv, HeadWithinMain, TypeInv, TypeOK, SharedTypeOK
<1>3. lastGood' <= fetched[Dash]
  BY DEF GitInv, ShasFetched
<1>4. \A s \in Slot : current'[s] <= fetched[Dash]
  <2> TAKE s \in Slot
  <2>1. current[s] <= fetched[Dash] /\ head[Dash] <= fetched[Dash] /\ 0 <= fetched[Dash]
    BY <1>2 DEF GitInv, ShasFetched
  <2> QED
    BY <2>1
<1>5. /\ repo \in Repo /\ prev <= fetched[repo]
      /\ \A r \in Repo : 0 <= fetched[r] /\ pulled[r] <= fetched[r]
  BY <1>2 DEF GitInv, ShasFetched, TypeInv, TypeOK, BootPullTypeOK
<1>6. prev' <= fetched[repo']
  BY <1>2, <1>5
<1>7. \A r \in Repo : pulled'[r] <= fetched[r]
  <2>1. CASE pulled' = [pulled EXCEPT ![repo] = prev]
    BY <2>1, <1>5 DEF TypeInv, TypeOK, BootPullTypeOK
  <2>2. CASE \A r \in Repo : pulled'[r] \in {pulled[r], None}
    BY <2>2, <1>5
  <2> QED
    BY <2>1, <2>2
<1> QED
  BY <1>1, <1>3, <1>4, <1>6, <1>7 DEF GitInv, ShasFetched

\* main only grows.
LEMMA OriginStep ==
    ASSUME TypeInv, GitInv, NEW r \in Repo, origin' = [origin EXCEPT ![r] = @ + 1],
           UNCHANGED <<fetched, head, lastGood, current, prev, repo, pulled>>
    PROVE  GitInv'
<1>1. \A q \in Repo : origin[q] \in Nat /\ fetched[q] \in Nat
  BY DEF TypeInv, TypeOK, SharedTypeOK
<1>2. HeadWithinMain'
  BY <1>1 DEF GitInv, HeadWithinMain, TypeInv, TypeOK, SharedTypeOK
<1> QED
  BY <1>2 DEF GitInv, ShasFetched

\* Every step keeps HEAD and the remembered shas within what was fetched.
LEMMA GitStep == TypeInv /\ GitInv /\ [Next]_vars => GitInv'
<1> SUFFICES ASSUME TypeInv, GitInv, [Next]_vars PROVE GitInv'
  OBVIOUS
<1>1. ASSUME Merge, UNCHANGED bootpull PROVE GitInv'
  BY <1>1, OriginStep DEF Merge, bootpull
<1>2. ASSUME NEW sha \in Sha, Dispatch(sha), UNCHANGED bootpull PROVE GitInv'
  BY <1>2, GitFrame DEF Dispatch, git, box, Local, deploy, bootpull
<1>3. ASSUME DeliveryFailure, UNCHANGED bootpull PROVE GitInv'
  BY <1>3, GitFrame DEF DeliveryFailure, git, box, Local, deploy, bootpull
<1>4. ASSUME NEW s \in Slot, SendCommand(s), UNCHANGED bootpull PROVE GitInv'
  BY <1>4, GitFrame DEF SendCommand, git, box, Local, deploy, bootpull
<1>5. ASSUME NEW s \in Slot, StopWaiting(s), UNCHANGED bootpull PROVE GitInv'
  BY <1>5, GitFrame DEF StopWaiting, git, box, Local, deploy, bootpull
<1>6. ASSUME NEW s \in Slot, CommandEnds(s), UNCHANGED bootpull PROVE GitInv'
  <2>1. \A t \in Slot : current'[t] \in {current[t], head[Dash], None}
    BY <1>6 DEF CommandEnds, TypeInv, TypeOK, DeployTypeOK
  <2> QED
    BY <1>6, <2>1, NoteStep DEF CommandEnds, git, bootpull
<1>7. ASSUME NEW s \in Slot, SsmFetch(s), UNCHANGED bootpull PROVE GitInv'
  <2>1. CASE Fetch(Dash)
    BY <1>7, <2>1, FetchStep DEF SsmFetch, git, box, Local, bootpull
  <2>2. CASE UNCHANGED fetched
    BY <1>7, <2>2, GitFrame DEF SsmFetch, git, box, Local, bootpull
  <2> QED
    BY <1>7, <2>1, <2>2 DEF SsmFetch
<1>8. ASSUME NEW s \in Slot, SsmReset(s), UNCHANGED bootpull PROVE GitInv'
  <2>1. CASE UNCHANGED <<head, dirty, mover>>
    BY <1>8, <2>1, GitFrame DEF SsmReset, bootpull
  <2>2. CASE target[s] <= fetched[Dash] /\ ResetHard(Dash, target[s], s)
    <3>1. target[s] \in Sha
      BY <1>8 DEF SsmReset, TypeInv, PinsSet, TypeOK, DeployTypeOK
    <3>2. \A q \in Repo : pulled'[q] \in {pulled[q], None}
      BY <1>8 DEF bootpull
    <3> QED
      BY <1>8, <2>2, <3>1, <3>2, HeadStep DEF SsmReset, ResetHard, bootpull
  <2> QED
    BY <1>8, <2>1, <2>2 DEF SsmReset
<1>9. ASSUME NEW s \in Slot, ResolveHead(s), UNCHANGED bootpull PROVE GitInv'
  <2>1. \A t \in Slot : current'[t] \in {current[t], head[Dash], None}
    BY <1>9 DEF ResolveHead, TypeInv, TypeOK, DeployTypeOK
  <2> QED
    BY <1>9, <2>1, NoteStep DEF ResolveHead, git, bootpull
<1>10. ASSUME NEW s \in Slot, Requirements(s), UNCHANGED bootpull PROVE GitInv'
  BY <1>10, GitFrame DEF Requirements, git, box, Local, deploy, bootpull
<1>11. ASSUME NEW s \in Slot, Nginx(s), UNCHANGED bootpull PROVE GitInv'
  BY <1>11, GitFrame DEF Nginx, CmpSection, git, box, Local, deploy, bootpull
<1>12. ASSUME NEW s \in Slot, SystemdUnits(s), UNCHANGED bootpull PROVE GitInv'
  BY <1>12, GitFrame DEF SystemdUnits, CmpSection, git, box, Local, deploy, bootpull
<1>13. ASSUME NEW s \in Slot, RouteBootPull(s), UNCHANGED bootpull PROVE GitInv'
  BY <1>13, GitFrame DEF RouteBootPull, git, box, Local, deploy, bootpull
<1>14. ASSUME NEW s \in Slot, RouteLimits(s), UNCHANGED bootpull PROVE GitInv'
  BY <1>14, GitFrame DEF RouteLimits, git, box, Local, deploy, bootpull
<1>15. ASSUME NEW s \in Slot, AppServices(s), UNCHANGED bootpull PROVE GitInv'
  BY <1>15, GitFrame DEF AppServices, git, box, Local, deploy, bootpull
<1>16. ASSUME NEW s \in Slot, DashWeb(s), UNCHANGED bootpull PROVE GitInv'
  BY <1>16, GitFrame DEF DashWeb, git, box, Local, deploy, bootpull
<1>17. ASSUME NEW s \in Slot, HealthCheck(s), UNCHANGED bootpull PROVE GitInv'
  BY <1>17, GitFrame DEF HealthCheck, git, box, Local, deploy, bootpull
<1>18. ASSUME NEW s \in Slot, RecordGood(s), UNCHANGED bootpull PROVE GitInv'
  BY <1>18, NoteStep DEF RecordGood, GoodSha, git, bootpull
<1>19. ASSUME NEW s \in Slot, RevertReset(s), UNCHANGED bootpull PROVE GitInv'
  <2>1. CASE UNCHANGED <<head, dirty, mover>>
    BY <1>19, <2>1, GitFrame DEF RevertReset, Local, bootpull
  <2>2. CASE Revertable(s) /\ ResetHard(Dash, lastGood, s)
    <3>1. lastGood \in Sha /\ lastGood <= fetched[Dash]
      BY <2>2 DEF Revertable, TypeInv, TypeOK, DeployTypeOK, GitInv, ShasFetched
    <3>2. \A q \in Repo : pulled'[q] \in {pulled[q], None}
      BY <1>19 DEF bootpull
    <3> QED
      BY <1>19, <2>2, <3>1, <3>2, HeadStep DEF RevertReset, Local, ResetHard, bootpull
  <2> QED
    BY <1>19, <2>1, <2>2 DEF RevertReset
<1>20. ASSUME NEW s \in Slot, Reprovision(s), UNCHANGED bootpull PROVE GitInv'
  BY <1>20, GitFrame DEF Reprovision, git, box, Local, deploy, bootpull
<1>21. ASSUME Start, UNCHANGED deploy PROVE GitInv'
  <2>1. CASE Fetch(Dash)
    BY <1>21, <2>1, FetchStep DEF Start, deploy
  <2>2. CASE UNCHANGED fetched
    <3>1. \A r \in Repo : pulled'[r] \in {pulled[r], None}
      BY <1>21 DEF Start
    <3> QED
      BY <1>21, <2>2, <3>1, NoteStep DEF Start, deploy
  <2> QED
    BY <1>21, <2>1, <2>2 DEF Start
<1>22. ASSUME AuthOrRosterFailure, UNCHANGED deploy PROVE GitInv'
  BY <1>22, GitFrame DEF AuthOrRosterFailure, git, box, Local, deploy, bootpull
<1>23. ASSUME NextRepo, UNCHANGED deploy PROVE GitInv'
  <2>1. /\ \A t \in Slot : current'[t] \in {current[t], head[Dash], None}
        /\ \A r \in Repo : pulled'[r] \in {pulled[r], None}
        /\ repo' \in Repo
        /\ UNCHANGED <<repo, prev>> \/ prev' \in {head[repo'], None}
        /\ UNCHANGED <<origin, fetched, head>>
    BY <1>23 DEF NextRepo, git, deploy, Exit, TypeInv, TypeOK, BootPullTypeOK
  <2> QED
    BY <1>23, <2>1, NoteStep DEF deploy
<1>24. ASSUME SyncFetch, UNCHANGED deploy PROVE GitInv'
  <2>1. repo \in Repo
    BY DEF TypeInv, TypeOK, BootPullTypeOK
  <2>2. CASE Fetch(repo)
    BY <1>24, <2>1, <2>2, FetchStep DEF SyncFetch, deploy
  <2>3. CASE UNCHANGED fetched
    BY <1>24, <2>3, GitFrame DEF SyncFetch, deploy
  <2> QED
    BY <1>24, <2>2, <2>3 DEF SyncFetch
<1>25. ASSUME SyncMerge, UNCHANGED deploy PROVE GitInv'
  <2>1. repo \in Repo /\ fetched[repo] \in Sha /\ fetched[repo] <= fetched[repo]
    BY DEF TypeInv, TypeOK, SharedTypeOK, BootPullTypeOK
  <2>2. CASE FastForward(repo, "bootpull")
    BY <1>25, <2>1, <2>2, HeadStep DEF SyncMerge, FastForward, deploy, bootpull, box
  <2>3. CASE UNCHANGED <<head, mover>>
    BY <1>25, <2>3, GitFrame DEF SyncMerge, deploy, bootpull, box
  <2> QED
    BY <1>25, <2>2, <2>3 DEF SyncMerge
<1>26. ASSUME ReadNew, UNCHANGED deploy PROVE GitInv'
  <2>1. pulled' = [pulled EXCEPT ![repo] = prev] \/ UNCHANGED pulled
    BY <1>26 DEF ReadNew
  <2> QED
    BY <1>26, <2>1, NoteStep DEF ReadNew, git, deploy
<1>27. ASSUME PipInstall, UNCHANGED deploy PROVE GitInv'
  BY <1>27, GitFrame DEF PipInstall, PipFailed, git, box, Local, deploy, bootpull
<1>28. ASSUME HydrateConfig, UNCHANGED deploy PROVE GitInv'
  BY <1>28, GitFrame DEF HydrateConfig, git, box, Local, deploy, bootpull
<1>29. ASSUME InstallLauncher, UNCHANGED deploy PROVE GitInv'
  BY <1>29, GitFrame DEF InstallLauncher, git, box, Local, deploy, bootpull
<1>30. ASSUME SyncUnits, UNCHANGED deploy PROVE GitInv'
  <2>1. /\ \A t \in Slot : current'[t] \in {current[t], head[Dash], None}
        /\ \A r \in Repo : pulled'[r] \in {pulled[r], None}
        /\ repo' \in Repo
        /\ UNCHANGED <<repo, prev>> \/ prev' \in {head[repo'], None}
        /\ UNCHANGED <<origin, fetched, head>>
    BY <1>30 DEF SyncUnits, git, deploy, Exit, TypeInv, TypeOK, BootPullTypeOK
  <2> QED
    BY <1>30, <2>1, NoteStep DEF deploy
<1>31. ASSUME Gate, UNCHANGED deploy PROVE GitInv'
  <2>1. /\ \A t \in Slot : current'[t] \in {current[t], head[Dash], None}
        /\ \A r \in Repo : pulled'[r] \in {pulled[r], None}
        /\ repo' \in Repo
        /\ UNCHANGED <<repo, prev>> \/ prev' \in {head[repo'], None}
        /\ UNCHANGED <<origin, fetched, head>>
    BY <1>31 DEF Gate, git, deploy, Exit, TypeInv, TypeOK, BootPullTypeOK
  <2> QED
    BY <1>31, <2>1, NoteStep DEF deploy
<1>32. ASSUME Revert, UNCHANGED deploy PROVE GitInv'
  <2>1. CASE UNCHANGED <<head, dirty, mover>>
    <3>1. \A q \in Repo : pulled'[q] \in {pulled[q], None}
      BY <1>32 DEF Revert, TypeInv, TypeOK, BootPullTypeOK
    <3> QED
      BY <1>32, <2>1, <3>1, NoteStep DEF Revert, deploy
  <2>2. ASSUME NEW r \in Repo, pulled[r] # None, ResetHard(r, pulled[r], "bootpull"),
               pulled' = [pulled EXCEPT ![r] = None]
        PROVE  GitInv'
    <3>1. pulled[r] \in Sha /\ pulled[r] <= fetched[r]
      BY <2>2 DEF TypeInv, TypeOK, BootPullTypeOK, GitInv, ShasFetched
    <3>2. \A q \in Repo : pulled'[q] \in {pulled[q], None}
      BY <2>2 DEF TypeInv, TypeOK, BootPullTypeOK
    <3> QED
      BY <1>32, <2>2, <3>1, <3>2, HeadStep DEF Revert, ResetHard, deploy
  <2> QED
    BY <1>32, <2>1, <2>2 DEF Revert
<1>33. ASSUME Resync, UNCHANGED deploy PROVE GitInv'
  <2>1. /\ \A t \in Slot : current'[t] \in {current[t], head[Dash], None}
        /\ \A r \in Repo : pulled'[r] \in {pulled[r], None}
        /\ repo' \in Repo
        /\ UNCHANGED <<repo, prev>> \/ prev' \in {head[repo'], None}
        /\ UNCHANGED <<origin, fetched, head>>
    BY <1>33 DEF Resync, git, deploy, Exit, TypeInv, TypeOK, BootPullTypeOK
  <2> QED
    BY <1>33, <2>1, NoteStep DEF deploy
<1>34. ASSUME Killed, UNCHANGED deploy PROVE GitInv'
  <2>1. /\ \A t \in Slot : current'[t] \in {current[t], head[Dash], None}
        /\ \A r \in Repo : pulled'[r] \in {pulled[r], None}
        /\ repo' \in Repo
        /\ UNCHANGED <<repo, prev>> \/ prev' \in {head[repo'], None}
        /\ UNCHANGED <<origin, fetched, head>>
    BY <1>34 DEF Killed, git, deploy, Exit, TypeInv, TypeOK, BootPullTypeOK
  <2> QED
    BY <1>34, <2>1, NoteStep DEF deploy
<1>35. ASSUME DailyFetch, UNCHANGED <<deploy, bootpull>> PROVE GitInv'
  BY <1>35, FetchStep DEF DailyFetch, deploy, bootpull
<1>36. ASSUME DailyMerge, UNCHANGED <<deploy, bootpull>> PROVE GitInv'
  <2>1. Dash \in Repo /\ fetched[Dash] \in Sha /\ fetched[Dash] <= fetched[Dash]
    BY DEF TypeInv, TypeOK, SharedTypeOK, BootPullTypeOK
  <2>2. CASE FastForward(Dash, "daily")
    BY <1>36, <2>1, <2>2, HeadStep DEF DailyMerge, FastForward, deploy, bootpull, box
  <2>3. CASE UNCHANGED <<head, mover>>
    BY <1>36, <2>3, GitFrame DEF DailyMerge, deploy, bootpull, box
  <2> QED
    BY <1>36, <2>2, <2>3 DEF DailyMerge
<1>37. ASSUME NEW r \in Repo, HandEdit(r), UNCHANGED <<deploy, bootpull>> PROVE GitInv'
  BY <1>37, GitFrame DEF HandEdit, git, box, Local, deploy, bootpull
<1>38. ASSUME NEW r \in Repo, MergeElsewhere(r), UNCHANGED <<deploy, bootpull>> PROVE GitInv'
  BY <1>38, OriginStep DEF MergeElsewhere, deploy, bootpull
<1>39. ASSUME Reboot PROVE GitInv'
  <2>1. /\ \A t \in Slot : current'[t] \in {current[t], head[Dash], None}
        /\ \A r \in Repo : pulled'[r] \in {pulled[r], None}
        /\ repo' \in Repo /\ prev' \in {head[repo'], None}
        /\ UNCHANGED <<origin, fetched, head, lastGood>>
    BY <1>39 DEF Reboot, Exit
  <2> QED
    BY <2>1, NoteStep
<1>40. ASSUME UNCHANGED vars PROVE GitInv'
  BY <1>40, GitFrame DEF vars, git, deploy, bootpull
<1>41. ASSUME NEW s \in Slot, CheckVenv(s), UNCHANGED bootpull PROVE GitInv'
  BY <1>41, GitFrame DEF CheckVenv, git, box, Local, deploy, bootpull
<1>42. ASSUME NEW s \in Slot, CreateVenv(s), UNCHANGED bootpull PROVE GitInv'
  BY <1>42, GitFrame DEF CreateVenv, git, box, Local, deploy, bootpull
<1>43. ASSUME NEW s \in Slot, InstallVenv(s), UNCHANGED bootpull PROVE GitInv'
  BY <1>43, GitFrame DEF InstallVenv, git, box, Local, deploy, bootpull
<1>44. ASSUME NEW s \in Slot, RestartOnVenv(s), UNCHANGED bootpull PROVE GitInv'
  BY <1>44, GitFrame DEF RestartOnVenv, git, box, Local, deploy, bootpull
<1>45. ASSUME NEW s \in Slot, ProbeVenv(s), UNCHANGED bootpull PROVE GitInv'
  BY <1>45, GitFrame DEF ProbeVenv, git, box, Local, deploy, bootpull
<1>46. ASSUME NEW s \in Slot, RollBackVenv(s), UNCHANGED bootpull PROVE GitInv'
  BY <1>46, GitFrame DEF RollBackVenv, git, box, Local, deploy, bootpull
<1>47. ASSUME NEW s \in Slot, CheckDrift(s), UNCHANGED bootpull PROVE GitInv'
  BY <1>47, GitFrame DEF CheckDrift, git, box, Local, deploy, bootpull
<1> QED
  BY <1>1, <1>2, <1>3, <1>4, <1>5, <1>6, <1>7, <1>8, <1>9, <1>10, <1>11, <1>12, <1>13, <1>14,
     <1>15, <1>16, <1>17, <1>18, <1>19, <1>20, <1>21, <1>22, <1>23, <1>24, <1>25, <1>26,
     <1>27, <1>28, <1>29, <1>30, <1>31, <1>32, <1>33, <1>34, <1>35, <1>36, <1>37, <1>38,
     <1>39, <1>40, <1>41, <1>42, <1>43, <1>44, <1>45, <1>46, <1>47
     DEF Next, DeployNext, Workflow, Command, BootPullNext, BootPullStep, OtherNext

\* HEAD never runs ahead of what was fetched, nor that of main: every
\* fast-forward of boot-pull and of the daily pull applies, and a reset, forward
\* or back, only goes to a sha the checkout has.
THEOREM HeadWithin == Spec => []HeadWithinMain
<1>1. Init => GitInv
  BY DEF Init, SharedInit, DeployInit, BootPullInit, GitInv, HeadWithinMain, ShasFetched
<1>2. GitInv => HeadWithinMain
  BY DEF GitInv
<1> QED
  BY <1>1, <1>2, GitStep, PinsAlwaysSet, PTL DEF Spec

\* What the lock promises, of one step.
LockedStill ==
    \A r \in Repo : lock[r] # "free" =>
        /\ fetched'[r] = fetched[r]
        /\ head'[r] # head[r] => lock'[r] = "free"

\* Every step respects the lock.
LEMMA LockedStep == TypeInv /\ [Next]_vars => LockedStill
<1> SUFFICES ASSUME TypeInv, [Next]_vars PROVE LockedStill
  OBVIOUS
<1>1. ASSUME Merge, UNCHANGED bootpull PROVE LockedStill
  BY <1>1 DEF Merge, Queue, git, box, Local, LockedStill
<1>2. ASSUME NEW sha \in Sha, Dispatch(sha), UNCHANGED bootpull PROVE LockedStill
  BY <1>2 DEF Dispatch, git, box, Local, LockedStill
<1>3. ASSUME DeliveryFailure, UNCHANGED bootpull PROVE LockedStill
  BY <1>3 DEF DeliveryFailure, git, box, Local, LockedStill
<1>4. ASSUME NEW s \in Slot, SendCommand(s), UNCHANGED bootpull PROVE LockedStill
  BY <1>4 DEF SendCommand, git, box, Local, LockedStill
<1>5. ASSUME NEW s \in Slot, StopWaiting(s), UNCHANGED bootpull PROVE LockedStill
  BY <1>5 DEF StopWaiting, git, box, Local, LockedStill
<1>6. ASSUME NEW s \in Slot, CommandEnds(s), UNCHANGED bootpull PROVE LockedStill
  BY <1>6 DEF CommandEnds, git, box, Local, LockedStill
<1>7. ASSUME NEW s \in Slot, SsmFetch(s), UNCHANGED bootpull PROVE LockedStill
  BY <1>7 DEF SsmFetch, Fetch, git, box, Local, LockedStill, Free, TypeInv, TypeOK, SharedTypeOK
<1>8. ASSUME NEW s \in Slot, SsmReset(s), UNCHANGED bootpull PROVE LockedStill
  BY <1>8 DEF SsmReset, ResetHard, git, box, Local, LockedStill, Free, TypeInv, TypeOK,
     SharedTypeOK
<1>9. ASSUME NEW s \in Slot, ResolveHead(s), UNCHANGED bootpull PROVE LockedStill
  BY <1>9 DEF ResolveHead, git, box, Local, LockedStill
<1>10. ASSUME NEW s \in Slot, Requirements(s), UNCHANGED bootpull PROVE LockedStill
  BY <1>10 DEF Requirements, git, box, Local, LockedStill
<1>11. ASSUME NEW s \in Slot, Nginx(s), UNCHANGED bootpull PROVE LockedStill
  BY <1>11 DEF Nginx, CmpSection, git, box, Local, LockedStill
<1>12. ASSUME NEW s \in Slot, SystemdUnits(s), UNCHANGED bootpull PROVE LockedStill
  BY <1>12 DEF SystemdUnits, CmpSection, git, box, Local, LockedStill
<1>13. ASSUME NEW s \in Slot, RouteBootPull(s), UNCHANGED bootpull PROVE LockedStill
  BY <1>13 DEF RouteBootPull, git, box, Local, LockedStill
<1>14. ASSUME NEW s \in Slot, RouteLimits(s), UNCHANGED bootpull PROVE LockedStill
  BY <1>14 DEF RouteLimits, git, box, Local, LockedStill
<1>15. ASSUME NEW s \in Slot, AppServices(s), UNCHANGED bootpull PROVE LockedStill
  BY <1>15 DEF AppServices, git, box, Local, LockedStill
<1>16. ASSUME NEW s \in Slot, DashWeb(s), UNCHANGED bootpull PROVE LockedStill
  BY <1>16 DEF DashWeb, git, box, Local, LockedStill
<1>17. ASSUME NEW s \in Slot, HealthCheck(s), UNCHANGED bootpull PROVE LockedStill
  BY <1>17 DEF HealthCheck, git, box, Local, LockedStill
<1>18. ASSUME NEW s \in Slot, RecordGood(s), UNCHANGED bootpull PROVE LockedStill
  BY <1>18 DEF RecordGood, GoodSha, git, box, Local, LockedStill
<1>19. ASSUME NEW s \in Slot, RevertReset(s), UNCHANGED bootpull PROVE LockedStill
  BY <1>19 DEF RevertReset, Revertable, ResetHard, git, box, Local, LockedStill, Free,
     TypeInv, TypeOK, SharedTypeOK
<1>20. ASSUME NEW s \in Slot, Reprovision(s), UNCHANGED bootpull PROVE LockedStill
  BY <1>20 DEF Reprovision, git, box, Local, LockedStill
<1>21. ASSUME Start, UNCHANGED deploy PROVE LockedStill
  BY <1>21 DEF Start, Fetch, git, box, Local, LockedStill, Free, TypeInv, TypeOK,
     SharedTypeOK, BootPullTypeOK
<1>22. ASSUME AuthOrRosterFailure, UNCHANGED deploy PROVE LockedStill
  BY <1>22 DEF AuthOrRosterFailure, git, box, Local, LockedStill
<1>23. ASSUME NextRepo, UNCHANGED deploy PROVE LockedStill
  BY <1>23 DEF NextRepo, git, box, Local, LockedStill
<1>24. ASSUME SyncFetch, UNCHANGED deploy PROVE LockedStill
  BY <1>24 DEF SyncFetch, Fetch, git, box, Local, LockedStill, Free, TypeInv, TypeOK,
     SharedTypeOK, BootPullTypeOK
<1>25. ASSUME SyncMerge, UNCHANGED deploy PROVE LockedStill
  BY <1>25 DEF SyncMerge, FastForward, git, box, Local, LockedStill, Free, TypeInv, TypeOK,
     SharedTypeOK, BootPullTypeOK
<1>26. ASSUME ReadNew, UNCHANGED deploy PROVE LockedStill
  BY <1>26 DEF ReadNew, git, box, Local, LockedStill
<1>27. ASSUME PipInstall, UNCHANGED deploy PROVE LockedStill
  BY <1>27 DEF PipInstall, PipFailed, git, box, Local, LockedStill
<1>28. ASSUME HydrateConfig, UNCHANGED deploy PROVE LockedStill
  BY <1>28 DEF HydrateConfig, git, box, Local, LockedStill
<1>29. ASSUME InstallLauncher, UNCHANGED deploy PROVE LockedStill
  BY <1>29 DEF InstallLauncher, git, box, Local, LockedStill
<1>30. ASSUME SyncUnits, UNCHANGED deploy PROVE LockedStill
  BY <1>30 DEF SyncUnits, Exit, git, box, Local, LockedStill
<1>31. ASSUME Gate, UNCHANGED deploy PROVE LockedStill
  BY <1>31 DEF Gate, Exit, git, box, Local, LockedStill
<1>32. ASSUME Revert, UNCHANGED deploy PROVE LockedStill
  BY <1>32 DEF Revert, ResetHard, git, box, Local, LockedStill, Free, TypeInv, TypeOK,
     SharedTypeOK, BootPullTypeOK
<1>33. ASSUME Resync, UNCHANGED deploy PROVE LockedStill
  BY <1>33 DEF Resync, Exit, git, box, Local, LockedStill
<1>34. ASSUME Killed, UNCHANGED deploy PROVE LockedStill
  BY <1>34 DEF Killed, Exit, git, box, Local, LockedStill
<1>35. ASSUME DailyFetch, UNCHANGED <<deploy, bootpull>> PROVE LockedStill
  BY <1>35 DEF DailyFetch, Fetch, git, box, Local, LockedStill, Free, TypeInv, TypeOK,
     SharedTypeOK
<1>36. ASSUME DailyMerge, UNCHANGED <<deploy, bootpull>> PROVE LockedStill
  BY <1>36 DEF DailyMerge, FastForward, git, box, Local, LockedStill, Free, TypeInv, TypeOK,
     SharedTypeOK
<1>37. ASSUME NEW r \in Repo, HandEdit(r), UNCHANGED <<deploy, bootpull>> PROVE LockedStill
  BY <1>37 DEF HandEdit, git, box, Local, LockedStill
<1>38. ASSUME NEW r \in Repo, MergeElsewhere(r), UNCHANGED <<deploy, bootpull>> PROVE
   LockedStill
  BY <1>38 DEF MergeElsewhere, git, box, Local, LockedStill
<1>39. ASSUME Reboot PROVE LockedStill
  BY <1>39 DEF Reboot, Exit, git, box, Local, LockedStill
<1>40. ASSUME UNCHANGED vars PROVE LockedStill
  BY <1>40 DEF vars, git, LockedStill
<1>41. ASSUME NEW s \in Slot, CheckVenv(s), UNCHANGED bootpull PROVE LockedStill
  BY <1>41 DEF CheckVenv, git, box, Local, LockedStill
<1>42. ASSUME NEW s \in Slot, CreateVenv(s), UNCHANGED bootpull PROVE LockedStill
  BY <1>42 DEF CreateVenv, git, box, Local, LockedStill
<1>43. ASSUME NEW s \in Slot, InstallVenv(s), UNCHANGED bootpull PROVE LockedStill
  BY <1>43 DEF InstallVenv, git, box, Local, LockedStill
<1>44. ASSUME NEW s \in Slot, RestartOnVenv(s), UNCHANGED bootpull PROVE LockedStill
  BY <1>44 DEF RestartOnVenv, git, box, Local, LockedStill
<1>45. ASSUME NEW s \in Slot, ProbeVenv(s), UNCHANGED bootpull PROVE LockedStill
  BY <1>45 DEF ProbeVenv, git, box, Local, LockedStill
<1>46. ASSUME NEW s \in Slot, RollBackVenv(s), UNCHANGED bootpull PROVE LockedStill
  BY <1>46 DEF RollBackVenv, git, box, Local, LockedStill
<1>47. ASSUME NEW s \in Slot, CheckDrift(s), UNCHANGED bootpull PROVE LockedStill
  BY <1>47 DEF CheckDrift, git, box, Local, LockedStill
<1> QED
  BY <1>1, <1>2, <1>3, <1>4, <1>5, <1>6, <1>7, <1>8, <1>9, <1>10, <1>11, <1>12, <1>13, <1>14,
     <1>15, <1>16, <1>17, <1>18, <1>19, <1>20, <1>21, <1>22, <1>23, <1>24, <1>25, <1>26,
     <1>27, <1>28, <1>29, <1>30, <1>31, <1>32, <1>33, <1>34, <1>35, <1>36, <1>37, <1>38,
     <1>39, <1>40, <1>41, <1>42, <1>43, <1>44, <1>45, <1>46, <1>47
     DEF Next, DeployNext, Workflow, Command, BootPullNext, BootPullStep, OtherNext

\* The flock covers the whole fetch-and-merge: between the two nobody else, a
\* deploy's reset included, moves that checkout's refs or its HEAD.
THEOREM LockHolds == Spec => LockedCheckoutStill
<1>1. TypeInv /\ [Next]_vars => [\A r \in Repo : lock[r] # "free" =>
          /\ fetched'[r] = fetched[r]
          /\ head'[r] # head[r] => lock'[r] = "free"]_vars
  BY LockedStep DEF LockedStill
<1> QED
  BY <1>1, PinsAlwaysSet, PTL DEF Spec, LockedCheckoutStill

-----------------------------------------------------------------------------
(* The virtualenv *)

\* The services only run on a whole venv, and a command that rebuilds it has put a
\* venv with an interpreter aside.
VenvInv ==
    /\ running # None /\ ~stranded => VenvWhole
    /\ \A s \in Slot : pc[s] \in Rebuild => aside[s].py # None

\* The venvs put aside are the ones they were, whether they are still there or not.
SameAside == \A s \in Slot : aside'[s].py = aside[s].py /\ aside'[s].req = aside[s].req

LEMMA PruneKeepsAside ==
    ASSUME TypeInv, Prune
    PROVE  SameAside
<1>1. PICK old : aside' = [t \in Slot |-> [aside[t] EXCEPT !.kept = @ /\ t \notin old]]
  BY DEF Prune
<1>2. ASSUME NEW s \in Slot PROVE aside'[s].py = aside[s].py /\ aside'[s].req = aside[s].req
  <2>1. aside'[s] = [aside[s] EXCEPT !.kept = aside[s].kept /\ s \notin old]
    BY <1>1
  <2>2. aside[s] \in Venv
    BY DEF TypeInv, TypeOK, DeployTypeOK
  <2> QED
    BY <2>1, <2>2 DEF Venv
<1> QED
  BY <1>2 DEF SameAside

\* What a step that neither puts a venv aside nor puts it back does to the venv.
VenvStays ==
    /\ VenvWhole => VenvWhole'
    /\ running' \in {running, None, Started}
    /\ UNCHANGED stranded
    /\ SameAside

\* Copying something of the tree takes nothing away.
LEMMA ProvideKeepsVenv ==
    ASSUME TypeInv, VenvWhole,
           \/ UNCHANGED installed
           \/ \E as : installed' = Provide(as)
           \/ \E b \in Artifact : installed' = Refresh(b)
    PROVE  VenvWhole'
<1>1. "py" \in Artifact /\ "req" \in Artifact
  BY DEF Artifact
<1>2. \A a \in {"py", "req"} : installed'[a] \in {installed[a], Tree(a)}
  BY <1>1, ProvideStep, RefreshStep
<1>3. \A a \in {"py", "req"} : Tree(a) # None
  BY <1>1, TreeType DEF TypeInv, TypeOK
<1> QED
  BY <1>2, <1>3 DEF VenvWhole, Interpreter

\* One step of a command, but for the two that move the venv.
SectionButVenv(s) ==
    \/ SsmFetch(s) \/ SsmReset(s) \/ ResolveHead(s) \/ CreateVenv(s) \/ InstallVenv(s)
    \/ RestartOnVenv(s) \/ ProbeVenv(s) \/ Requirements(s) \/ CheckDrift(s) \/ Nginx(s)
    \/ SystemdUnits(s) \/ RouteBootPull(s) \/ RouteLimits(s) \/ AppServices(s) \/ DashWeb(s) \/ HealthCheck(s)
    \/ RecordGood(s) \/ RevertReset(s) \/ Reprovision(s)

LEMMA SectionKeepsVenv ==
    ASSUME TypeInv, NEW s \in Slot, SectionButVenv(s)
    PROVE  /\ VenvStays
           /\ pc' = [pc EXCEPT ![s] = pc'[s]]
           /\ pc'[s] \in Rebuild => pc[s] \in Rebuild
<1> USE DEF Local, git, box
<1>1. \/ UNCHANGED installed
      \/ \E as : installed' = Provide(as)
      \/ \E b \in Artifact : installed' = Refresh(b)
  BY DEF SectionButVenv, SsmFetch, SsmReset, ResolveHead, CreateVenv, InstallVenv, RestartOnVenv,
     ProbeVenv, Requirements, CheckDrift, Nginx, SystemdUnits, CmpSection, RouteBootPull, RouteLimits,
     AppServices, DashWeb, HealthCheck, RecordGood, RevertReset, Reprovision, Artifact
<1>2. running' \in {running, None, Started} /\ UNCHANGED stranded /\ (UNCHANGED aside \/ Prune)
  BY DEF SectionButVenv, SsmFetch, SsmReset, ResolveHead, CreateVenv, InstallVenv, RestartOnVenv,
     ProbeVenv, Requirements, CheckDrift, Nginx, SystemdUnits, CmpSection, RouteBootPull, RouteLimits,
     AppServices, DashWeb, HealthCheck, RecordGood, RevertReset, Reprovision
<1>3. /\ \E section : Goto(s, section)
      /\ pc'[s] \in Rebuild => pc[s] \in Rebuild
  BY DEF SectionButVenv, SsmFetch, SsmReset, ResolveHead, CreateVenv, InstallVenv, RestartOnVenv,
     ProbeVenv, Requirements, CheckDrift, Nginx, SystemdUnits, CmpSection, RouteBootPull, RouteLimits,
     AppServices, DashWeb, HealthCheck, RecordGood, RevertReset, Reprovision, OrRollBack, Abort,
     Goto, Rebuild, TypeInv, TypeOK, DeployTypeOK
<1>4. SameAside
  BY <1>2, PruneKeepsAside DEF SameAside
<1> QED
  BY <1>1, <1>2, <1>3, <1>4, ProvideKeepsVenv DEF VenvStays, Goto, TypeInv, TypeOK, DeployTypeOK

LEMMA OthersKeepVenv ==
    ASSUME TypeInv, \/ Workflow
                    \/ BootPullNext \/ OtherNext \/ Reboot \/ UNCHANGED vars
    PROVE  /\ VenvStays
           /\ \A s \in Slot : pc'[s] \in {pc[s], "idle", "fetch", "failed"}
           /\ \A s \in Slot : pc[s] \in Rebuild /\ pc'[s] # pc[s] => Reboot
<1> USE DEF git, box, deploy
<1>1. \/ UNCHANGED installed
      \/ \E as : installed' = Provide(as)
  BY DEF Workflow, Merge, Dispatch, DeliveryFailure, SendCommand, StopWaiting, CommandEnds,
     BootPullNext, BootPullStep, OtherNext, Start, AuthOrRosterFailure, NextRepo, SyncFetch,
     SyncMerge, ReadNew, PipInstall, PipFailed, HydrateConfig, InstallLauncher, SyncUnits, Gate,
     Revert, Resync, Killed, DailyFetch, DailyMerge, HandEdit, MergeElsewhere, Reboot, vars
<1>2. running' \in {running, None, Started} /\ UNCHANGED <<stranded, aside>>
  BY DEF Workflow, Merge, Dispatch, DeliveryFailure, SendCommand, StopWaiting, CommandEnds,
     BootPullNext, BootPullStep, OtherNext, Start, AuthOrRosterFailure, NextRepo, SyncFetch,
     SyncMerge, ReadNew, PipInstall, HydrateConfig, InstallLauncher, SyncUnits, Gate,
     Revert, Resync, Killed, DailyFetch, DailyMerge, HandEdit, MergeElsewhere, Reboot, vars
<1>3. ASSUME Workflow, NEW s \in Slot
      PROVE  /\ pc'[s] \in {pc[s], "idle", "fetch"}
             /\ pc[s] \in Rebuild => pc'[s] = pc[s]
  BY <1>3 DEF Workflow, Merge, Dispatch, DeliveryFailure, SendCommand, StopWaiting, CommandEnds,
     Goto, Ended, Rebuild, TypeInv, TypeOK, DeployTypeOK
<1>4. ASSUME BootPullNext \/ OtherNext \/ UNCHANGED vars PROVE UNCHANGED pc
  BY <1>4 DEF BootPullNext, OtherNext, vars
<1>5. ASSUME Reboot, NEW s \in Slot PROVE pc'[s] \in {"idle", "failed"}
  BY <1>5 DEF Reboot
<1> QED
  BY <1>1, <1>2, <1>3, <1>4, <1>5, ProvideKeepsVenv DEF VenvStays, SameAside

\* The two steps that move it.
LEMMA CheckVenvMoves ==
    ASSUME TypeInv, VenvInv, NEW s \in Slot, CheckVenv(s)
    PROVE  VenvInv'
<1> USE DEF CheckVenv, PutAside, VenvInv, Goto, Abort, TypeInv, TypeOK, DeployTypeOK
<1>1. running' # None /\ ~stranded' => VenvWhole'
  BY DEF VenvWhole, Interpreter
<1>2. ASSUME NEW t \in Slot, pc'[t] \in Rebuild PROVE aside'[t].py # None
  <2>1. CASE t # s
    BY <1>2, <2>1
  <2>2. CASE t = s
    BY <1>2, <2>2 DEF Rebuild, Interpreter
  <2> QED
    BY <2>1, <2>2
<1> QED
  BY <1>1, <1>2

LEMMA RollBackMoves ==
    ASSUME TypeInv, VenvInv, NEW s \in Slot, RollBackVenv(s)
    PROVE  /\ VenvInv' /\ SameAside
           /\ aside[s].req # None /\ ~stranded' => VenvWhole'
<1>0. aside[s].py # None
  BY DEF RollBackVenv, VenvInv, Rebuild
<1>1. /\ aside[s].req # None /\ ~stranded' => VenvWhole'
      /\ running' # None /\ ~stranded' => aside[s].req # None
  BY <1>0 DEF RollBackVenv, VenvWhole, Interpreter, TypeInv, TypeOK, SharedTypeOK, Artifact
<1>2. SameAside
  <2>1. UNCHANGED aside \/ aside' = [aside EXCEPT ![s].kept = FALSE]
    BY DEF RollBackVenv
  <2>2. aside \in [Slot -> Venv]
    BY DEF TypeInv, TypeOK, DeployTypeOK
  <2>3. ASSUME NEW v \in Venv, NEW w, w = [v EXCEPT !.kept = FALSE]
        PROVE  w.py = v.py /\ w.req = v.req
    BY <2>3 DEF Venv
  <2>4. ASSUME NEW t \in Slot
        PROVE  aside'[t] = aside[t] \/ aside'[t] = [aside[t] EXCEPT !.kept = FALSE]
    BY ONLY <2>1, <2>2, <2>4
  <2> QED
    BY <2>2, <2>3, <2>4 DEF SameAside
<1>3. ASSUME NEW t \in Slot, pc'[t] \in Rebuild PROVE aside'[t].py # None
  BY <1>2, <1>3 DEF RollBackVenv, VenvInv, SameAside, Goto, Rebuild, TypeInv, TypeOK, DeployTypeOK
<1> QED
  BY <1>1, <1>2, <1>3 DEF VenvInv

\* Every step keeps VenvInv.
LEMMA VenvStaysInv ==
    ASSUME TypeInv, VenvInv, VenvStays,
           \A s \in Slot : pc'[s] \in Rebuild => pc[s] \in Rebuild
    PROVE  VenvInv'
BY DEF VenvInv, VenvStays, SameAside, Started

LEMMA VenvStep ==
    ASSUME TypeInv, VenvInv, [Next]_vars
    PROVE  VenvInv'
<1>1. ASSUME NEW s \in Slot, Command(s) PROVE VenvInv'
  <2>1. CASE SectionButVenv(s)
    <3>1. /\ VenvStays
          /\ pc' = [pc EXCEPT ![s] = pc'[s]]
          /\ pc'[s] \in Rebuild => pc[s] \in Rebuild
      BY <2>1, SectionKeepsVenv
    <3>2. \A t \in Slot : pc'[t] \in Rebuild => pc[t] \in Rebuild
      BY <3>1 DEF TypeInv, TypeOK, DeployTypeOK
    <3> QED
      BY <3>1, <3>2, VenvStaysInv
  <2> QED
    BY <1>1, <2>1, CheckVenvMoves, RollBackMoves DEF Command, SectionButVenv
<1>2. CASE Workflow \/ BootPullNext \/ OtherNext \/ Reboot \/ UNCHANGED vars
  <2>1. VenvStays /\ \A s \in Slot : pc'[s] \in {pc[s], "idle", "fetch", "failed"}
    BY <1>2, OthersKeepVenv
  <2> QED
    BY <2>1, VenvStaysInv DEF Rebuild
<1> QED
  BY <1>1, <1>2 DEF Next, DeployNext

\* What RebuildLeavesVenv says of one step.
RebuildStep ==
    \A s \in Slot :
        pc[s] \in Rebuild /\ budget'["reboot"] = budget["reboot"] /\ ~stranded'
           => /\ pc'[s] = "drift" => VenvWhole'
              /\ pc'[s] = "failed" /\ aside[s].req # None => VenvWhole'

LEMMA RebuildEnds ==
    ASSUME TypeInv, VenvInv, [Next]_vars
    PROVE  RebuildStep
<1> SUFFICES ASSUME NEW s \in Slot, pc[s] \in Rebuild, budget'["reboot"] = budget["reboot"],
                    ~stranded', pc'[s] = "drift" \/ (pc'[s] = "failed" /\ aside[s].req # None)
             PROVE  VenvWhole'
  BY DEF RebuildStep
<1>1. ~Reboot
  BY DEF Reboot, Spend, Event, TypeInv, TypeOK, SharedTypeOK
<1>2. "drift" \notin Rebuild /\ "failed" \notin Rebuild
  BY DEF Rebuild
<1>3. ~(Workflow \/ BootPullNext \/ OtherNext \/ UNCHANGED vars)
  BY <1>1, <1>2, OthersKeepVenv
<1>4. PICK t \in Slot : Command(t)
  BY <1>1, <1>3 DEF Next, DeployNext
<1>5. CASE RollBackVenv(t)
  <2>1. t = s
    BY <1>2, <1>5 DEF RollBackVenv, Goto, TypeInv, TypeOK, DeployTypeOK
  <2>2. pc'[s] = "failed"
    BY <1>5, <2>1 DEF RollBackVenv, Goto, TypeInv, TypeOK, DeployTypeOK
  <2> QED
    BY <1>5, <2>1, <2>2, RollBackMoves
<1>6. CASE ~RollBackVenv(t)
  <2>1. t = s
    <3>1. CASE CheckVenv(t)
      BY <1>2, <3>1 DEF CheckVenv, Goto, Abort, TypeInv, TypeOK, DeployTypeOK
    <3>2. CASE SectionButVenv(t)
      BY <1>2, <3>2, SectionKeepsVenv DEF TypeInv, TypeOK, DeployTypeOK
    <3> QED
      BY <1>4, <1>6, <3>1, <3>2 DEF Command, SectionButVenv
  <2>2. ProbeVenv(s) /\ ~Unhealthy
    BY <1>2, <1>4, <1>6, <2>1 DEF Command, SsmFetch, SsmReset, ResolveHead, CheckVenv, CreateVenv,
       InstallVenv, RestartOnVenv, ProbeVenv, Requirements, CheckDrift, Nginx, SystemdUnits, RouteBootPull,
       RouteLimits, AppServices, DashWeb, HealthCheck, RecordGood, RevertReset, Reprovision,
       OrRollBack, Goto, Rebuild, TypeInv, TypeOK, DeployTypeOK
  <2>3. running # None /\ ~stranded /\ UNCHANGED installed
    BY <2>2 DEF ProbeVenv, Unhealthy, Local
  <2> QED
    BY <2>3 DEF VenvInv, VenvWhole, Interpreter
<1> QED
  BY <1>5, <1>6

\* However a rebuild of the venv ends, and whatever the other actors did meanwhile,
\* the box has one its services can start on: the services of a healthy probe run on
\* a whole venv, and every failing step puts the old one back.
THEOREM VenvSurvivesRebuild == Spec => RebuildLeavesVenv
<1>1. Init => VenvInv
  <2> SUFFICES ASSUME Init PROVE VenvInv
    OBVIOUS
  <2>1. installed["py"] = Content[1]["py"] /\ installed["req"] = Content[1]["req"]
    BY DEF Init, SharedInit, Artifact
  <2>2. Content[1]["py"] # None /\ Content[1]["req"] # None
    BY DEF Artifact
  <2> QED
    BY <2>1, <2>2 DEF VenvInv, VenvWhole, Interpreter, Init, DeployInit, Rebuild
<1>2. TypeInv /\ VenvInv /\ [Next]_vars => VenvInv'
  BY VenvStep
<1>3. TypeInv /\ VenvInv /\ [Next]_vars =>
        [\A s \in Slot :
          pc[s] \in Rebuild /\ budget'["reboot"] = budget["reboot"] /\ ~stranded'
             => /\ pc'[s] = "drift" => VenvWhole'
                /\ pc'[s] = "failed" /\ aside[s].req # None => VenvWhole']_vars
  BY RebuildEnds DEF RebuildStep
<1> QED
  BY <1>1, <1>2, <1>3, PinsAlwaysSet, PTL DEF Spec, RebuildLeavesVenv

-----------------------------------------------------------------------------
(* What a green deploy leaves behind *)

\* The sections after the one that installs an artifact.
PastNginx == {"sysd", "bootpull", "limits", "app", "web", "health", "record", "ok"}
PastSysd == PastNginx \ {"sysd"}
PastBootPull == PastSysd \ {"bootpull"}
PastApp == PastBootPull \ {"limits", "app"}

\* While the command on s is the last that moved HEAD, HEAD is its pinned sha
\* and every artifact its sections have dealt with is as the tree has it.
Provisioned(s) ==
    mover = s =>
        /\ pc[s] \in AfterReset => head[Dash] = target[s]
        /\ pc[s] \in PastNginx => installed["nginx"] = Tree("nginx")
        /\ pc[s] \in PastSysd => installed["sysd"] = Tree("sysd")
        /\ pc[s] \in PastBootPull => /\ installed["launcher"] = Tree("launcher")
                                     /\ installed["bpunit"] = Tree("bpunit")
        /\ pc[s] \in PastApp => installed["unit"] = Tree("unit")

AllProvisioned == \A s \in Slot : Provisioned(s)

\* A step of anybody else: HEAD and the command stay, or it is not the mover.
LEMMA OtherStep ==
    ASSUME TypeInv, NEW s \in Slot, Provisioned(s), [Next]_vars,
           pc'[s] \in {pc[s], "idle", "fetch"},
           pc'[s] = pc[s] => target'[s] = target[s],
           pc'[s] \in AfterReset => mover' # s \/ (mover = s /\ head'[Dash] = head[Dash])
    PROVE  Provisioned(s)'
<1>1. CASE pc'[s] \notin AfterReset
  BY <1>1 DEF Provisioned, AfterReset, PastNginx, PastSysd, PastBootPull, PastApp, Section, Rebuild,
     Ended
<1>2. CASE mover' # s
  BY <1>2 DEF Provisioned
<1>3. CASE pc'[s] \in AfterReset /\ mover = s /\ head'[Dash] = head[Dash]
  <2>1. pc'[s] = pc[s] /\ target'[s] = target[s]
    BY <1>3 DEF AfterReset
  <2>2. \A a \in Artifact : Tree(a)' = Tree(a)
    BY <1>3 DEF Tree
  <2>3. \A a \in OutsideVenv : installed[a] = Tree(a) => installed'[a] = Tree(a)'
    BY <2>2, InstalledStep DEF OutsideVenv
  <2>4. \A a \in {"nginx", "sysd", "launcher", "bpunit", "unit"} : a \in OutsideVenv
    BY DEF OutsideVenv, Artifact
  <2> QED
    BY <1>3, <2>1, <2>3, <2>4 DEF Provisioned
<1> QED
  BY <1>1, <1>2, <1>3

\* A section of the command itself, which moves neither HEAD nor its pinned sha.
LEMMA SectionStep ==
    ASSUME TypeInv, NEW s \in Slot, Provisioned(s), [Next]_vars,
           pc[s] \in AfterReset, UNCHANGED <<head, mover, target>>,
           pc'[s] \in PastNginx => pc[s] \in PastNginx \/ installed'["nginx"] = Tree("nginx"),
           pc'[s] \in PastSysd => pc[s] \in PastSysd \/ installed'["sysd"] = Tree("sysd"),
           pc'[s] \in PastBootPull =>
              \/ pc[s] \in PastBootPull
              \/ installed'["launcher"] = Tree("launcher") /\ installed'["bpunit"] =
                 Tree("bpunit"),
           pc'[s] \in PastApp => pc[s] \in PastApp \/ installed'["unit"] = Tree("unit")
    PROVE  Provisioned(s)'
<1>1. \A a \in Artifact : Tree(a)' = Tree(a)
  BY DEF Tree
<1>2. \A a \in OutsideVenv : installed[a] = Tree(a) => installed'[a] = Tree(a)'
  BY <1>1, InstalledStep DEF OutsideVenv
<1>3. \A a \in {"nginx", "sysd", "launcher", "bpunit", "unit"} : a \in OutsideVenv
  BY DEF OutsideVenv, Artifact
<1>4. \A a \in {"nginx", "sysd", "launcher", "bpunit", "unit"} :
         /\ Tree(a)' = Tree(a)
         /\ installed[a] = Tree(a) => installed'[a] = Tree(a)'
  BY <1>1, <1>2, <1>3 DEF OutsideVenv
<1>5. mover' = s => /\ mover = s
                    /\ pc'[s] \in AfterReset => head'[Dash] = target'[s]
  BY DEF Provisioned
<1> QED
  BY <1>4, <1>5 DEF Provisioned


\* Nobody but a command's own sections takes it past its reset.
LEMMA OthersProvisioned ==
    ASSUME TypeInv, AllProvisioned, BootPullNext \/ OtherNext \/ Reboot \/ UNCHANGED vars
    PROVE  AllProvisioned'
<1> SUFFICES ASSUME NEW s \in Slot PROVE Provisioned(s)'
  BY DEF AllProvisioned
<1>1. Provisioned(s) /\ [Next]_vars
  BY DEF AllProvisioned, Next
<1>2. CASE Reboot
  <2>1. pc'[s] \in {"idle", "failed"}
    BY <1>2 DEF Reboot
  <2> QED
    BY <2>1 DEF Provisioned, AfterReset, PastNginx, PastSysd, PastBootPull, PastApp
<1>3. ASSUME ~Reboot PROVE pc' = pc /\ target' = target
  BY <1>3 DEF BootPullNext, OtherNext, deploy, vars
<1>4. s \notin {"init", "bootpull", "daily"}
  OBVIOUS
<1>5. ASSUME ~Reboot PROVE mover' # s \/ (mover = s /\ head'[Dash] = head[Dash])
  <2>1. \/ UNCHANGED <<head, mover>>
        \/ \E r \in Repo : FastForward(r, "bootpull")
        \/ FastForward(Dash, "daily")
        \/ \E r \in Repo : ResetHard(r, pulled[r], "bootpull")
    BY <1>5 DEF vars, git, box, BootPullNext, BootPullStep, OtherNext, Start,
       AuthOrRosterFailure, NextRepo,
       SyncFetch, SyncMerge, ReadNew, PipInstall, HydrateConfig, InstallLauncher, SyncUnits,
          Gate,
       Revert, Resync, Killed, DailyFetch, DailyMerge, HandEdit, MergeElsewhere,
       TypeInv, TypeOK, BootPullTypeOK
  <2>2. ASSUME NEW r \in Repo, NEW who \in {"bootpull", "daily"}, FastForward(r, who)
        PROVE  mover' # s \/ (mover = s /\ head'[Dash] = head[Dash])
    BY <1>4, <2>2 DEF FastForward, TypeInv, TypeOK, SharedTypeOK
  <2>3. ASSUME NEW r \in Repo, ResetHard(r, pulled[r], "bootpull")
        PROVE  mover' # s \/ (mover = s /\ head'[Dash] = head[Dash])
    BY <1>4, <2>3 DEF ResetHard, TypeInv, TypeOK, SharedTypeOK
  <2> QED
    BY <2>1, <2>2, <2>3
<1> QED
  BY <1>1, <1>2, <1>3, <1>5, OtherStep

\* The commands: the one on s by its sections, the others as any other actor.
LEMMA DeployProvisioned ==
    ASSUME TypeInv, AllProvisioned, DeployNext
    PROVE  AllProvisioned'
<1> SUFFICES ASSUME NEW s \in Slot PROVE Provisioned(s)'
  BY DEF AllProvisioned
<1>0. Provisioned(s) /\ [Next]_vars
  BY DEF AllProvisioned, Next
<1>1. \A t \in Slot : pc[t] \in Section
  BY DEF TypeInv, TypeOK, DeployTypeOK
<1> USE DEF Local, git, box
<1>2. ASSUME Workflow PROVE Provisioned(s)'
  <2>1. pc'[s] \in {pc[s], "idle", "fetch"} /\ (pc'[s] = pc[s] => target'[s] = target[s])
    BY <1>2 DEF Workflow, Merge, Dispatch, DeliveryFailure, SendCommand, StopWaiting,
       CommandEnds,
       Goto, TypeInv, TypeOK, DeployTypeOK, Ended
  <2>2. UNCHANGED <<head, mover>>
    BY <1>2 DEF Workflow, Merge, Dispatch, DeliveryFailure, SendCommand, StopWaiting,
       CommandEnds
  <2> QED
    BY <1>0, <2>1, <2>2, OtherStep DEF Provisioned
<1>3. ASSUME NEW t \in Slot, t # s, Command(t) PROVE Provisioned(s)'
  <2>1. pc'[s] = pc[s] /\ target'[s] = target[s]
    BY <1>3 DEF Command, SsmFetch, SsmReset, ResolveHead, CheckVenv, PutAside,
       CreateVenv, InstallVenv, RestartOnVenv, ProbeVenv, RollBackVenv, OrRollBack,
       Requirements, CheckDrift, Nginx, SystemdUnits,
       CmpSection,
       RouteBootPull, RouteLimits, AppServices, DashWeb, HealthCheck, RecordGood, RevertReset,
          Reprovision,
       Goto, Abort, TypeInv, TypeOK, DeployTypeOK
  <2>2. UNCHANGED <<head, mover>> \/ \E sha : ResetHard(Dash, sha, t)
    BY <1>3 DEF Command, SsmFetch, SsmReset, ResolveHead, CheckVenv, PutAside,
       CreateVenv, InstallVenv, RestartOnVenv, ProbeVenv, RollBackVenv, OrRollBack,
       Requirements, CheckDrift, Nginx, SystemdUnits,
       CmpSection,
       RouteBootPull, RouteLimits, AppServices, DashWeb, HealthCheck, RecordGood, RevertReset,
          Reprovision
  <2>3. mover' = t \/ UNCHANGED <<head, mover>>
    BY <2>2 DEF ResetHard
  <2> QED
    BY <1>0, <1>3, <2>1, <2>3, OtherStep DEF Provisioned
<1>4. CASE Requirements(s)
  <2>1. CASE pc'[s] = "failed"
    BY <2>1 DEF Provisioned, AfterReset, PastNginx, PastSysd, PastBootPull, PastApp
  <2>2. CASE pc'[s] # "failed"
    <3>8. UNCHANGED <<head, mover, target>> /\ pc[s] = "req" /\ pc'[s] = "drift"
      BY <1>4, <2>2 DEF Requirements, Goto, Abort, TypeInv, TypeOK, DeployTypeOK
    <3> QED
      BY <1>0, <3>8, SectionStep DEF AfterReset, PastNginx, PastSysd, PastBootPull, PastApp,
         Section, Rebuild, Ended
  <2> QED
    BY <2>1, <2>2
<1>5. CASE Nginx(s)
  <2>1. CASE pc'[s] = "failed"
    BY <2>1 DEF Provisioned, AfterReset, PastNginx, PastSysd, PastBootPull, PastApp
  <2>2. CASE pc'[s] # "failed"
    <3>1. installed' = Refresh("nginx") /\ "nginx" \in Artifact
      BY <1>5, <2>2 DEF Nginx, CmpSection, Abort, Goto, Artifact, TypeInv, TypeOK, DeployTypeOK
    <3>2. installed'["nginx"] = Tree("nginx")
      BY <3>1, RefreshStep
    <3>8. UNCHANGED <<head, mover, target>> /\ pc[s] = "nginx" /\ pc'[s] = "sysd"
      BY <1>5, <2>2 DEF Nginx, CmpSection, Goto, Abort, TypeInv, TypeOK, DeployTypeOK
    <3> QED
      BY <1>0, <3>8, <3>2, SectionStep DEF AfterReset, PastNginx, PastSysd, PastBootPull,
         PastApp, Section, Rebuild, Ended
  <2> QED
    BY <2>1, <2>2
<1>6. CASE SystemdUnits(s)
  <2>1. CASE pc'[s] = "failed"
    BY <2>1 DEF Provisioned, AfterReset, PastNginx, PastSysd, PastBootPull, PastApp
  <2>2. CASE pc'[s] # "failed"
    <3>1. installed' = Refresh("sysd") /\ "sysd" \in Artifact
      BY <1>6, <2>2 DEF SystemdUnits, CmpSection, Abort, Goto, Artifact, TypeInv, TypeOK,
         DeployTypeOK
    <3>2. installed'["sysd"] = Tree("sysd")
      BY <3>1, RefreshStep
    <3>8. UNCHANGED <<head, mover, target>> /\ pc[s] = "sysd" /\ pc'[s] = "bootpull"
      BY <1>6, <2>2 DEF SystemdUnits, CmpSection, Goto, Abort, TypeInv, TypeOK, DeployTypeOK
    <3> QED
      BY <1>0, <3>8, <3>2, SectionStep DEF AfterReset, PastNginx, PastSysd, PastBootPull,
         PastApp, Section, Rebuild, Ended
  <2> QED
    BY <2>1, <2>2
<1>7. CASE RouteBootPull(s)
  <2>1. CASE pc'[s] = "failed"
    BY <2>1 DEF Provisioned, AfterReset, PastNginx, PastSysd, PastBootPull, PastApp
  <2>2. CASE pc'[s] # "failed"
    <3>1. installed' = Provide({"launcher", "bpunit"})
      BY <1>7, <2>2 DEF RouteBootPull, Abort, Goto, TypeInv, TypeOK, DeployTypeOK
    <3>2. installed'["launcher"] = Tree("launcher") /\ installed'["bpunit"] = Tree("bpunit")
      BY <3>1 DEF Provide, Artifact
    <3>8. UNCHANGED <<head, mover, target>> /\ pc[s] = "bootpull" /\ pc'[s] = "limits"
      BY <1>7, <2>2 DEF RouteBootPull, Goto, Abort, TypeInv, TypeOK, DeployTypeOK
    <3> QED
      BY <1>0, <3>8, <3>2, SectionStep DEF AfterReset, PastNginx, PastSysd, PastBootPull,
         PastApp, Section, Rebuild, Ended
  <2> QED
    BY <2>1, <2>2
<1>8. CASE RouteLimits(s)
  <2>1. CASE pc'[s] = "failed"
    BY <2>1 DEF Provisioned, AfterReset, PastNginx, PastSysd, PastBootPull, PastApp
  <2>2. CASE pc'[s] # "failed"
    <3>8. UNCHANGED <<head, mover, target>> /\ pc[s] = "limits" /\ pc'[s] = "app"
      BY <1>8, <2>2 DEF RouteLimits, Goto, Abort, TypeInv, TypeOK, DeployTypeOK
    <3> QED
      BY <1>0, <3>8, SectionStep DEF AfterReset, PastNginx, PastSysd, PastBootPull, PastApp,
         Section, Rebuild, Ended
  <2> QED
    BY <2>1, <2>2
<1>9. CASE AppServices(s)
  <2>1. CASE pc'[s] = "failed"
    BY <2>1 DEF Provisioned, AfterReset, PastNginx, PastSysd, PastBootPull, PastApp
  <2>2. CASE pc'[s] # "failed"
    <3>1. installed' = Refresh("unit") /\ "unit" \in Artifact
      BY <1>9, <2>2 DEF AppServices, Abort, Goto, Artifact, TypeInv, TypeOK, DeployTypeOK
    <3>2. installed'["unit"] = Tree("unit")
      BY <3>1, RefreshStep
    <3>8. UNCHANGED <<head, mover, target>> /\ pc[s] = "app" /\ pc'[s] = "web"
      BY <1>9, <2>2 DEF AppServices, Goto, Abort, TypeInv, TypeOK, DeployTypeOK
    <3> QED
      BY <1>0, <3>8, <3>2, SectionStep DEF AfterReset, PastNginx, PastSysd, PastBootPull,
         PastApp, Section, Rebuild, Ended
  <2> QED
    BY <2>1, <2>2
<1>10. CASE DashWeb(s)
  <2>1. CASE pc'[s] = "failed"
    BY <2>1 DEF Provisioned, AfterReset, PastNginx, PastSysd, PastBootPull, PastApp
  <2>2. CASE pc'[s] # "failed"
    <3>8. UNCHANGED <<head, mover, target>> /\ pc[s] = "web" /\ pc'[s] = "health"
      BY <1>10, <2>2 DEF DashWeb, Goto, Abort, TypeInv, TypeOK, DeployTypeOK
    <3> QED
      BY <1>0, <3>8, SectionStep DEF AfterReset, PastNginx, PastSysd, PastBootPull, PastApp,
         Section, Rebuild, Ended
  <2> QED
    BY <2>1, <2>2
<1>11. CASE ResolveHead(s)
  <2>1. UNCHANGED <<head, mover, target>> /\ pc[s] = "resolve" /\ pc'[s] = "venv"
    BY <1>11 DEF ResolveHead, Goto, TypeInv, TypeOK, DeployTypeOK
  <2> QED
    BY <1>0, <2>1, SectionStep DEF AfterReset, PastNginx, PastSysd, PastBootPull, PastApp,
       Section, Rebuild, Ended
<1>12. CASE HealthCheck(s)
  <2>1. /\ UNCHANGED <<head, mover, target>> /\ pc[s] = "health"
        /\ pc'[s] \in {"record", "revert"}
    BY <1>12 DEF HealthCheck, Goto, TypeInv, TypeOK, DeployTypeOK
  <2> QED
    BY <1>0, <2>1, SectionStep DEF AfterReset, PastNginx, PastSysd, PastBootPull, PastApp,
       Section, Rebuild, Ended
<1>13. CASE RecordGood(s)
  <2>1. UNCHANGED <<head, mover, target>> /\ pc[s] = "record" /\ pc'[s] = "ok"
    BY <1>13 DEF RecordGood, Goto, TypeInv, TypeOK, DeployTypeOK
  <2> QED
    BY <1>0, <2>1, SectionStep DEF AfterReset, PastNginx, PastSysd, PastBootPull, PastApp,
       Section, Rebuild, Ended
<1>14. CASE SsmReset(s)
  <2>1. CASE pc'[s] = "failed"
    BY <2>1 DEF Provisioned, AfterReset, PastNginx, PastSysd, PastBootPull, PastApp
  <2>2. CASE pc'[s] # "failed"
    <3>1. pc'[s] = "resolve" /\ head'[Dash] = target[s] /\ target'[s] = target[s]
      BY <1>14, <2>2 DEF SsmReset, ResetHard, Abort, Goto, TypeInv, TypeOK, SharedTypeOK,
         DeployTypeOK
    <3> QED
      BY <3>1 DEF Provisioned, PastNginx, PastSysd, PastBootPull, PastApp
  <2> QED
    BY <2>1, <2>2
<1>15. CASE SsmFetch(s)
  <2>1. pc'[s] \in {"failed", "reset"}
    BY <1>15 DEF SsmFetch, Goto, Abort, TypeInv, TypeOK, DeployTypeOK
  <2> QED
    BY <2>1 DEF Provisioned, AfterReset, PastNginx, PastSysd, PastBootPull, PastApp
<1>16. CASE RevertReset(s)
  <2>1. pc'[s] \in {"failed", "reprovision"}
    BY <1>16 DEF RevertReset, Goto, Abort, TypeInv, TypeOK, DeployTypeOK
  <2> QED
    BY <2>1 DEF Provisioned, AfterReset, PastNginx, PastSysd, PastBootPull, PastApp
<1>17. CASE Reprovision(s)
  <2>1. pc'[s] \in {"reverted"}
    BY <1>17 DEF Reprovision, Goto, Abort, TypeInv, TypeOK, DeployTypeOK
  <2> QED
    BY <2>1 DEF Provisioned, AfterReset, PastNginx, PastSysd, PastBootPull, PastApp
<1>18. CASE CheckVenv(s) \/ CreateVenv(s) \/ InstallVenv(s) \/ RestartOnVenv(s) \/ ProbeVenv(s)
  <2>1. CASE pc'[s] = "failed"
    BY <2>1 DEF Provisioned, AfterReset, PastNginx, PastSysd, PastBootPull, PastApp
  <2>2. CASE pc'[s] # "failed"
    <3>1. /\ UNCHANGED <<head, mover, target>>
          /\ pc[s] \in {"venv", "create", "install", "restart", "probe"}
          /\ pc'[s] \in {"req", "create", "install", "restart", "probe", "rollback", "drift"}
      BY <1>18, <2>2 DEF CheckVenv, PutAside, CreateVenv, InstallVenv, RestartOnVenv,
         ProbeVenv, OrRollBack, Goto, Abort, TypeInv, TypeOK, DeployTypeOK
    <3> QED
      BY <1>0, <3>1, SectionStep DEF AfterReset, PastNginx, PastSysd, PastBootPull, PastApp,
         Section, Rebuild, Ended
  <2> QED
    BY <2>1, <2>2
<1>19. CASE RollBackVenv(s)
  <2>1. pc'[s] \in {"failed"}
    BY <1>19 DEF RollBackVenv, Goto, TypeInv, TypeOK, DeployTypeOK
  <2> QED
    BY <2>1 DEF Provisioned, AfterReset, PastNginx, PastSysd, PastBootPull, PastApp
<1>20. CASE CheckDrift(s)
  <2>1. CASE pc'[s] = "failed"
    BY <2>1 DEF Provisioned, AfterReset, PastNginx, PastSysd, PastBootPull, PastApp
  <2>2. CASE pc'[s] # "failed"
    <3>1. UNCHANGED <<head, mover, target>> /\ pc[s] = "drift" /\ pc'[s] = "nginx"
      BY <1>20, <2>2 DEF CheckDrift, Goto, Abort, TypeInv, TypeOK, DeployTypeOK
    <3> QED
      BY <1>0, <3>1, SectionStep DEF AfterReset, PastNginx, PastSysd, PastBootPull, PastApp,
         Section, Rebuild, Ended
  <2> QED
    BY <2>1, <2>2
<1> QED
  BY <1>2, <1>3, <1>4, <1>5, <1>6, <1>7, <1>8, <1>9, <1>10, <1>11, <1>12, <1>13, <1>14, <1>15,
     <1>16, <1>17, <1>18, <1>19, <1>20 DEF DeployNext, Command

\* A green deploy that nobody moved HEAD under has converged: whatever happened
\* to the deploys before it, nginx, box-health's units, boot-pull's pair and the
\* service units are those of its own commit.  The gates compare the installed
\* copy, and every writer of the box writes the tree's.
THEOREM GreenDeployConverges == Spec => []CmpGatesConverge
<1>1. Init => AllProvisioned
  BY DEF Init, SharedInit, DeployInit, AllProvisioned, Provisioned
<1>2. TypeInv /\ AllProvisioned /\ [Next]_vars => AllProvisioned'
  BY OthersProvisioned, DeployProvisioned DEF Next
<1>3. TypeInv /\ AllProvisioned => CmpGatesConverge
  <2> SUFFICES ASSUME TypeInv, AllProvisioned, NEW s \in Slot, pc[s] = "ok", mover = s,
                      NEW a \in {"nginx", "sysd", "launcher", "bpunit", "unit"}
               PROVE  installed[a] = Content[target[s]][a]
    BY DEF CmpGatesConverge, Converged
  <2>1. head[Dash] = target[s]
    BY DEF AllProvisioned, Provisioned, AfterReset, Section, Rebuild, Ended
  <2>2. installed[a] = Tree(a)
    BY DEF AllProvisioned, Provisioned, PastNginx, PastSysd, PastBootPull, PastApp
  <2> QED
    BY <2>1, <2>2 DEF Tree
<1> QED
  BY <1>1, <1>2, <1>3, PinsAlwaysSet, PTL DEF Spec

-----------------------------------------------------------------------------
(* What the last-good stamp and a clean boot-pull run claim *)

\* Where refs and HEAD go in one step: main and the remote-tracking refs only
\* forward, HEAD to the remote-tracking ref, or a command takes the dashboard's
\* to a sha of its own, or boot-pull is rolling its pulls back.
RefsMove ==
    \A r \in Repo :
        /\ origin'[r] >= origin[r]
        /\ fetched'[r] \in {fetched[r], origin[r]}
        /\ \/ head'[r] = head[r] /\ mover' = mover
           \/ head'[r] = fetched[r]
           \/ r = Dash /\ mover' \in Slot
           \/ r # Dash /\ head'[r] = head[r]
           \/ bpc = "revert"

\* Who is the mover after a step: the one before it, with HEAD where it was, or
\* boot-pull merging or rolling back, the daily pull, or a command at its reset.
MoverMoves ==
    \/ mover' = mover /\ head'[Dash] = head[Dash]
    \/ /\ mover' = "bootpull"
       /\ (bpc = "merge" /\ bpc' = "new" /\ repo = Dash) \/ bpc = "revert"
    \/ mover' = "daily"
    \/ \E s \in Slot : mover' = s /\ pc'[s] \in {"resolve", "reprovision"}

\* Every step moves them that way.
LEMMA RefsStep == ASSUME TypeInv, [Next]_vars PROVE RefsMove /\ MoverMoves
<1>0. \A r \in Repo : origin[r] \in Nat /\ fetched[r] \in Nat /\ head[r] \in Nat
  <2>1. \A r \in Repo : origin[r] \in Sha /\ fetched[r] \in Sha /\ head[r] \in Sha
    BY DEF TypeInv, TypeOK, SharedTypeOK
  <2> QED
    BY <2>1
<1> DEFINE Goal == RefsMove /\ MoverMoves
<1> USE DEF git, box
<1>m. Dash \in Repo
  OBVIOUS
<1>1. ASSUME UNCHANGED <<origin, fetched, head, mover>> PROVE Goal
  BY <1>0, <1>1 DEF RefsMove, MoverMoves
<1>2. ASSUME NEW r \in Repo, origin' = [origin EXCEPT ![r] = @ + 1],
             UNCHANGED <<fetched, head, mover>> PROVE Goal
  BY <1>0, <1>2 DEF RefsMove, MoverMoves, TypeInv, TypeOK, SharedTypeOK
<1>3. ASSUME NEW r \in Repo, Fetch(r), UNCHANGED <<origin, head, mover>> PROVE Goal
  BY <1>0, <1>3 DEF RefsMove, MoverMoves, Fetch, TypeInv, TypeOK, SharedTypeOK
<1>4. ASSUME NEW r \in Repo, NEW who, FastForward(r, who), UNCHANGED <<origin, fetched>>,
             who = "daily" \/ (who = "bootpull" /\ bpc = "merge" /\ bpc' = "new" /\ repo = r)
      PROVE Goal
  BY <1>0, <1>4 DEF RefsMove, MoverMoves, FastForward, TypeInv, TypeOK, SharedTypeOK
<1>5. ASSUME NEW s \in Slot, NEW sha, ResetHard(Dash, sha, s), UNCHANGED <<origin, fetched>>,
             pc'[s] \in {"resolve", "reprovision"}
      PROVE Goal
  BY <1>0, <1>m, <1>5 DEF RefsMove, MoverMoves, ResetHard, TypeInv, TypeOK, SharedTypeOK
<1>6. ASSUME NEW r \in Repo, ResetHard(r, pulled[r], "bootpull"), UNCHANGED <<origin, fetched>>,
             bpc = "revert"
      PROVE Goal
  BY <1>0, <1>m, <1>6 DEF RefsMove, MoverMoves, ResetHard, TypeInv, TypeOK, SharedTypeOK
<1>7. CASE Workflow
  BY <1>1, <1>2, <1>m, <1>7 DEF Workflow, Merge, Dispatch, DeliveryFailure, SendCommand,
     StopWaiting, CommandEnds
<1>8. ASSUME NEW s \in Slot, Command(s) PROVE Goal
  <2>1. CASE SsmFetch(s)
    BY <1>1, <1>3, <1>m, <2>1 DEF SsmFetch
  <2>2. CASE SsmReset(s)
    BY <1>1, <1>5, <2>2 DEF SsmReset, Goto, TypeInv, TypeOK, DeployTypeOK
  <2>3. CASE RevertReset(s)
    BY <1>1, <1>5, <2>3 DEF RevertReset, Goto, TypeInv, TypeOK, DeployTypeOK
  <2>4. CASE ~SsmFetch(s) /\ ~SsmReset(s) /\ ~RevertReset(s)
    BY <1>1, <1>8, <2>4 DEF Command, ResolveHead, CheckVenv, CreateVenv, InstallVenv, RestartOnVenv,
       ProbeVenv, RollBackVenv, Requirements, CheckDrift, Nginx, SystemdUnits, CmpSection, RouteBootPull,
       RouteLimits, AppServices, DashWeb, HealthCheck, RecordGood, Reprovision
  <2> QED
    BY <2>1, <2>2, <2>3, <2>4
<1>9. CASE BootPullStep
  <2>1. CASE Start \/ SyncFetch
    <3>1. repo \in Repo
      BY DEF TypeInv, TypeOK, BootPullTypeOK
    <3> QED
      BY <1>1, <1>3, <1>m, <2>1, <3>1 DEF Start, SyncFetch
  <2>2. CASE SyncMerge
    <3>1. repo \in Repo
      BY DEF TypeInv, TypeOK, BootPullTypeOK
    <3> QED
      BY <1>1, <1>4, <2>2, <3>1 DEF SyncMerge
  <2>3. CASE Revert
    BY <1>1, <1>6, <2>3 DEF Revert
  <2>4. CASE ~Start /\ ~SyncFetch /\ ~SyncMerge /\ ~Revert
    BY <1>1, <1>9, <2>4 DEF BootPullStep, AuthOrRosterFailure, NextRepo, ReadNew, PipInstall,
       HydrateConfig, InstallLauncher, SyncUnits, Gate, Resync, Killed
  <2> QED
    BY <2>1, <2>2, <2>3, <2>4
<1>10. CASE OtherNext
  BY <1>1, <1>2, <1>3, <1>4, <1>m, <1>10 DEF OtherNext, DailyFetch, DailyMerge, HandEdit,
     MergeElsewhere
<1>11. CASE Reboot \/ UNCHANGED vars
  BY <1>1, <1>11 DEF Reboot, vars
<1> QED
  BY <1>7, <1>8, <1>9, <1>10, <1>11 DEF Next, DeployNext, BootPullNext

\* While the command on s is the last that moved HEAD, it is at CURRENT_SHA; from
\* the restart on the services run on that or not at all, and past the probes they
\* were seen healthy on it.
OnCurrent(s) ==
    mover = s =>
        /\ pc[s] \in AfterResolve => current[s] = head[Dash]
        /\ pc[s] \in {"web", "health"} => running \in {current[s], None}
        /\ pc[s] = "record" => current[s] \in observed

AllOnCurrent == \A s \in Slot : OnCurrent(s)

\* What runs changes by a restart, on the tree as it is, and what was observed stays.
LEMMA RunningStep ==
    ASSUME TypeInv, [Next]_vars
    PROVE  running' \in {running, None, head[Dash]} /\ observed \subseteq observed'
<1> USE DEF Started
<1>1. ASSUME NEW s \in Slot, Command(s)
      PROVE  running' \in {running, None, head[Dash]} /\ observed \subseteq observed'
  <2>1. observed \subseteq observed'
    BY <1>1 DEF Local, Command, SsmFetch, SsmReset, ResolveHead, CheckVenv, CreateVenv,
       InstallVenv, RestartOnVenv, ProbeVenv, RollBackVenv, Requirements, CheckDrift, Nginx, SystemdUnits,
       CmpSection, RouteBootPull, RouteLimits, AppServices, DashWeb, HealthCheck, RecordGood,
       RevertReset, Reprovision
  <2>2. CASE SectionButVenv(s)
    BY <2>1, <2>2, SectionKeepsVenv DEF VenvStays
  <2>3. CASE CheckVenv(s) \/ RollBackVenv(s)
    BY <2>1, <2>3 DEF CheckVenv, RollBackVenv
  <2> QED
    BY <1>1, <2>2, <2>3 DEF Command, SectionButVenv
<1>2. CASE Workflow \/ BootPullNext \/ OtherNext \/ Reboot \/ UNCHANGED vars
  <2>1. running' \in {running, None, head[Dash]}
    BY <1>2, OthersKeepVenv DEF VenvStays
  <2>2. UNCHANGED observed
    BY <1>2 DEF Workflow, Merge, Dispatch, DeliveryFailure, SendCommand, StopWaiting, CommandEnds,
       BootPullNext, OtherNext, Reboot, vars, deploy
  <2> QED
    BY <2>1, <2>2
<1> QED
  BY <1>1, <1>2 DEF Next, DeployNext

\* A step that leaves the command where it is.
LEMMA CurrentFrame ==
    ASSUME TypeInv, NEW s \in Slot, OnCurrent(s), [Next]_vars,
           pc'[s] \in AfterResolve => pc'[s] = pc[s] /\ current'[s] = current[s]
    PROVE  OnCurrent(s)'
<1>1. CASE pc'[s] \notin AfterResolve
  BY <1>1 DEF OnCurrent, AfterResolve, AfterReset, Section, Rebuild, Ended
<1>2. CASE mover' # s
  BY <1>2 DEF OnCurrent
<1>3. CASE pc'[s] \in AfterResolve /\ mover' = s
  <2>1. pc'[s] = pc[s] /\ current'[s] = current[s]
    BY <1>3
  <2>2. mover = s /\ head'[Dash] = head[Dash]
    BY <1>3, <2>1, RefsStep DEF MoverMoves, AfterResolve, AfterReset
  <2>3. running' \in {running, None, head[Dash]} /\ observed \subseteq observed'
    BY RunningStep
  <2>4. {"web", "health", "record"} \subseteq AfterResolve
    BY DEF AfterResolve, AfterReset, Section
  <2> QED
    BY <1>3, <2>1, <2>2, <2>3, <2>4 DEF OnCurrent
<1> QED
  BY <1>1, <1>2, <1>3

\* A section of the command itself.
LEMMA CurrentSection ==
    ASSUME TypeInv, NEW s \in Slot, OnCurrent(s), Command(s)
    PROVE  OnCurrent(s)'
<1> USE DEF Goto, Abort, Local, git, box, TypeInv, TypeOK, DeployTypeOK
<1>1. CASE pc'[s] \notin AfterResolve
  BY <1>1 DEF OnCurrent, AfterResolve, AfterReset, Section, Rebuild, Ended
<1>2. CASE ResolveHead(s)
  BY <1>2 DEF OnCurrent, ResolveHead
<1>3. CASE pc'[s] \in AfterResolve /\ ~ResolveHead(s)
  <2>1. pc[s] \in AfterResolve /\ UNCHANGED <<head, mover, current>>
    BY <1>3 DEF Command, SsmFetch, SsmReset, CheckVenv, CreateVenv,
       InstallVenv, RestartOnVenv, ProbeVenv, RollBackVenv, Requirements, CheckDrift, Nginx, SystemdUnits,
       CmpSection, RouteBootPull, RouteLimits, AppServices, DashWeb, HealthCheck, RecordGood,
       RevertReset, Reprovision, AfterResolve, AfterReset, Section, Rebuild, Ended
  <2>2. pc'[s] \in {"web", "health"} =>
           (pc[s] \in {"web", "health"} /\ UNCHANGED running) \/ running' = Started
    BY <1>3 DEF Command, SsmFetch, SsmReset, CheckVenv, CreateVenv,
       InstallVenv, RestartOnVenv, ProbeVenv, RollBackVenv, Requirements, CheckDrift, Nginx, SystemdUnits,
       CmpSection, RouteBootPull, RouteLimits, AppServices, DashWeb, HealthCheck, RecordGood,
       RevertReset, Reprovision, OrRollBack
  <2>3. pc'[s] = "record" =>
           pc[s] = "health" /\ running # None /\ running \in observed'
    BY <1>3 DEF Command, SsmFetch, SsmReset, CheckVenv, CreateVenv,
       InstallVenv, RestartOnVenv, ProbeVenv, RollBackVenv, Requirements, CheckDrift, Nginx, SystemdUnits,
       CmpSection, RouteBootPull, RouteLimits, AppServices, DashWeb, HealthCheck, RecordGood,
       RevertReset, Reprovision, OrRollBack, Unhealthy
  <2> QED
    BY <2>1, <2>2, <2>3 DEF OnCurrent, Started
<1> QED
  BY <1>1, <1>2, <1>3

\* Every step keeps what the commands have observed.
LEMMA CurrentStep ==
    ASSUME TypeInv, AllOnCurrent, [Next]_vars
    PROVE  AllOnCurrent'
<1> SUFFICES ASSUME NEW s \in Slot PROVE OnCurrent(s)'
  BY DEF AllOnCurrent
<1>0. OnCurrent(s)
  BY DEF AllOnCurrent
<1>1. CASE Command(s)
  BY <1>0, <1>1, CurrentSection
<1>2. ASSUME NEW t \in Slot, t # s, Command(t) PROVE OnCurrent(s)'
  <2>1. pc'[s] = pc[s] /\ current'[s] = current[s]
    BY <1>2 DEF Command, SsmFetch, SsmReset, ResolveHead, CheckVenv, CreateVenv, InstallVenv,
       RestartOnVenv, ProbeVenv, RollBackVenv, OrRollBack, Requirements, CheckDrift, Nginx, SystemdUnits,
       CmpSection, RouteBootPull, RouteLimits, AppServices, DashWeb, HealthCheck, RecordGood,
       RevertReset, Reprovision, Goto, Abort, Local, TypeInv, TypeOK, DeployTypeOK
  <2> QED
    BY <1>0, <2>1, CurrentFrame
<1>3. CASE Workflow
  <2>1. pc'[s] \in {pc[s], "idle", "fetch"} /\ (pc'[s] = pc[s] => current'[s] = current[s])
    BY <1>3 DEF Workflow, Merge, Dispatch, DeliveryFailure, SendCommand, StopWaiting,
       CommandEnds, Goto, TypeInv, TypeOK, DeployTypeOK, Ended
  <2> QED
    BY <1>0, <2>1, CurrentFrame DEF AfterResolve, AfterReset
<1>4. CASE Reboot
  <2>1. pc'[s] \in {"idle", "failed"}
    BY <1>4 DEF Reboot
  <2> QED
    BY <1>0, <2>1, CurrentFrame DEF AfterResolve, AfterReset
<1>5. CASE BootPullNext \/ OtherNext \/ UNCHANGED vars
  <2>1. UNCHANGED <<pc, current>>
    BY <1>5 DEF BootPullNext, OtherNext, deploy, vars
  <2> QED
    BY <1>0, <2>1, CurrentFrame
<1> QED
  BY <1>1, <1>2, <1>3, <1>4, <1>5 DEF Next, DeployNext

\* What UndisturbedStampObserved says of one step: only RecordGood ends a command
\* that was about to record, with its CURRENT_SHA.
StampStep ==
    \A s \in Slot :
        pc[s] = "record" /\ pc'[s] = "ok" /\ mover = s /\ lastGood' # lastGood
           => lastGood' \in observed

\* That follows from what the command has observed.
LEMMA StampIsCurrent ==
    ASSUME TypeInv, AllOnCurrent, [Next]_vars
    PROVE  StampStep
<1> SUFFICES ASSUME NEW s \in Slot, pc[s] = "record", pc'[s] = "ok", mover = s,
                    lastGood' # lastGood
             PROVE  lastGood' \in observed
  BY DEF StampStep
<1>1. PICK t \in Slot : RecordGood(t)
  BY DEF Next, DeployNext, Workflow, Merge, Dispatch, DeliveryFailure, SendCommand, StopWaiting,
     CommandEnds, Command, SsmFetch, SsmReset, ResolveHead, CheckVenv, CreateVenv, InstallVenv,
     RestartOnVenv, ProbeVenv, RollBackVenv, Requirements, CheckDrift, Nginx, SystemdUnits,
     CmpSection, RouteBootPull, RouteLimits, AppServices, DashWeb, HealthCheck,
     RevertReset, Reprovision, BootPullNext, OtherNext, Reboot, vars, deploy, Local
<1>2. t = s
  BY <1>1 DEF RecordGood, Goto, TypeInv, TypeOK, DeployTypeOK
<1> QED
  BY <1>1, <1>2 DEF RecordGood, GoodSha, AllOnCurrent, OnCurrent

\* The last-good stamp, which every later revert goes to, names a tree whose
\* services were seen healthy, unless HEAD was moved under the deploy that writes it.
THEOREM StampsWereObserved == Spec => UndisturbedStampObserved
<1>1. Init => AllOnCurrent
  BY DEF Init, SharedInit, DeployInit, AllOnCurrent, OnCurrent, AfterResolve, AfterReset
<1>2. TypeInv /\ AllOnCurrent /\ [Next]_vars => AllOnCurrent'
  BY CurrentStep
<1>3. TypeInv /\ AllOnCurrent /\ [Next]_vars =>
        [\A s \in Slot :
          pc[s] = "record" /\ pc'[s] = "ok" /\ mover = s /\ lastGood' # lastGood
             => lastGood' \in observed]_vars
  BY StampIsCurrent DEF StampStep
<1> QED
  BY <1>1, <1>2, <1>3, PinsAlwaysSet, PTL DEF Spec, UndisturbedStampObserved

-----------------------------------------------------------------------------
(* What the commit range of section 3d is good for *)

PastWeb == {"health", "record", "ok"}

\* While the command on s is the last that moved HEAD, and the commit it is at changed
\* dash-web/, the build is that of the tree from section 3d on.
WebBuilt ==
    \A s \in Slot :
        mover = s /\ pc[s] \in PastWeb /\ WebChanged(head[Dash]) => installed["web"] = Tree("web")

\* Only section 3d takes a command there, and it builds what the range shows changed.
LEMMA WebStep ==
    ASSUME TypeInv, AllOnCurrent, WebBuilt, [Next]_vars
    PROVE  WebBuilt'
<1> SUFFICES ASSUME NEW s \in Slot, mover' = s, pc'[s] \in PastWeb, WebChanged(head'[Dash])
             PROVE  installed'["web"] = Tree("web")'
  BY DEF WebBuilt, WebChanged
<1>1. mover = s /\ head'[Dash] = head[Dash]
  BY RefsStep DEF MoverMoves, PastWeb
<1>2. Tree("web")' = Tree("web") /\ "web" \in OutsideVenv
  BY <1>1 DEF Tree, OutsideVenv, Artifact
<1>3. CASE pc[s] \in PastWeb
  <2>1. installed["web"] = Tree("web")
    BY <1>1, <1>3 DEF WebBuilt
  <2> QED
    BY <1>2, <2>1, InstalledStep
<1>4. CASE pc[s] \notin PastWeb
  <2>1. ~UNCHANGED pc /\ pc[s] # pc'[s]
    BY <1>4
  <2>2. PICK t \in Slot : Command(t)
    BY <2>1 DEF PastWeb, Next, DeployNext, Workflow, Merge, Dispatch, DeliveryFailure, SendCommand,
       StopWaiting, CommandEnds, BootPullNext, OtherNext, Reboot, vars, deploy, Goto, TypeInv,
       TypeOK, DeployTypeOK
  <2>3. DashWeb(t) /\ t = s
    BY <1>4, <2>2 DEF PastWeb, Command, SsmFetch, SsmReset, ResolveHead, CheckVenv, CreateVenv,
       InstallVenv, RestartOnVenv, ProbeVenv, RollBackVenv, OrRollBack, Requirements, CheckDrift, Nginx,
       SystemdUnits, CmpSection, RouteBootPull, RouteLimits, AppServices, DashWeb, HealthCheck,
       RecordGood, RevertReset, Reprovision, Goto, Abort, Local, TypeInv, TypeOK, DeployTypeOK
  <2>4. current[s] = head[Dash]
    BY <1>1, <2>3 DEF AllOnCurrent, OnCurrent, DashWeb, AfterResolve, AfterReset, Section
  <2>5. WebChanged(current[s])
    BY <1>1, <2>4
  <2>6. installed' = Provide({"web"})
    BY <2>3, <2>5 DEF DashWeb, Goto, Abort, PastWeb, TypeInv, TypeOK, DeployTypeOK
  <2> QED
    BY <1>2, <2>6, ProvideStep DEF Provide, OutsideVenv
<1> QED
  BY <1>3, <1>4

\* The half of convergence that the dash-web gate does give: a green deploy that nobody
\* moved HEAD under leaves the build of its own commit when that very commit changed
\* dash-web/.  What it lacks is the commits between the last build and this one.
THEOREM WebBuiltWhenChanged ==
    Spec => [](\A s \in Slot :
                 pc[s] = "ok" /\ mover = s /\ WebChanged(target[s])
                    => installed["web"] = Content[target[s]]["web"])
<1> DEFINE Built == \A s \in Slot :
                 pc[s] = "ok" /\ mover = s /\ WebChanged(target[s])
                    => installed["web"] = Content[target[s]]["web"]
<1>1. Init => AllProvisioned /\ AllOnCurrent /\ WebBuilt
  BY DEF Init, SharedInit, DeployInit, AllProvisioned, Provisioned, AllOnCurrent, OnCurrent, WebBuilt
<1>2. TypeInv /\ AllProvisioned /\ AllOnCurrent /\ WebBuilt /\ [Next]_vars =>
        AllProvisioned' /\ AllOnCurrent' /\ WebBuilt'
  BY OthersProvisioned, DeployProvisioned, CurrentStep, WebStep DEF Next
<1>3. TypeInv /\ AllProvisioned /\ WebBuilt => Built
  <2> SUFFICES ASSUME TypeInv, AllProvisioned, WebBuilt, NEW s \in Slot, pc[s] = "ok", mover = s,
                      WebChanged(target[s])
               PROVE  installed["web"] = Content[target[s]]["web"]
    OBVIOUS
  <2>1. head[Dash] = target[s]
    BY DEF AllProvisioned, Provisioned, AfterReset, Section, Rebuild, Ended
  <2> QED
    BY <2>1 DEF WebBuilt, PastWeb, Tree
<1> HIDE DEF Built
<1>4. Spec => []Built
  BY <1>1, <1>2, <1>3, PinsAlwaysSet, PTL DEF Spec
<1> QED
  BY <1>4 DEF Built

-----------------------------------------------------------------------------
\* A run that is still going forward.
Pulling == BootPullPc \ (Resting \cup {"revert", "resync"})

\* Checkout r has what main had when the run started, or a deploy pinned it.
CaughtUp(r) == head[r] >= mainAtStart[r] \/ (r = Dash /\ mover \in Slot)

\* While no pull of the run failed, every checkout it is done with has caught up,
\* and its remote-tracking ref has, so that whoever fast-forwards it keeps it so.
PullsSoFar ==
    bpc \in Pulling =>
        /\ \A r \in Repo : mainAtStart[r] <= origin[r]
        /\ bpc \in {"config", "launcher", "units", "gate"} => todo = {}
        /\ ~failures => \A r \in Repo \ todo :
              /\ ~(r = repo /\ bpc = "sync") => fetched[r] >= mainAtStart[r]
              /\ ~(r = repo /\ bpc \in {"sync", "merge"}) => CaughtUp(r)

\* A ref that was within reach of main stays so.
LEMMA RefsStayCaught ==
    ASSUME TypeInv, TypeInv', GitInv, RefsMove, bpc # "revert", UNCHANGED mainAtStart, NEW r \in Repo
    PROVE  /\ mainAtStart[r] <= origin[r] => mainAtStart'[r] <= origin'[r]
           /\ mainAtStart[r] <= fetched[r] => mainAtStart'[r] <= fetched'[r]
           /\ mainAtStart[r] <= fetched[r] /\ CaughtUp(r) => CaughtUp(r)'
<1>1. /\ origin[r] \in Nat /\ fetched[r] \in Nat /\ head[r] \in Nat /\ mainAtStart[r] \in Nat
      /\ fetched[r] <= origin[r] /\ origin'[r] >= origin[r] /\ origin'[r] \in Nat
  <2>1. origin[r] \in Sha /\ fetched[r] \in Sha /\ head[r] \in Sha /\ mainAtStart[r] \in Sha
       /\ origin'[r] \in Sha
    BY DEF TypeInv, TypeOK, SharedTypeOK, BootPullTypeOK
  <2> QED
    BY <2>1 DEF GitInv, HeadWithinMain, RefsMove
<1>2. fetched'[r] \in {fetched[r], origin[r]}
  BY DEF RefsMove
<1>3. CaughtUp(r) /\ mainAtStart[r] <= fetched[r] => CaughtUp(r)'
  BY <1>1 DEF RefsMove, CaughtUp
<1> QED
  BY <1>1, <1>2, <1>3

\* A step of somebody else.
LEMMA PullsFrame ==
    ASSUME TypeInv, TypeInv', GitInv, RefsMove, PullsSoFar, UNCHANGED bootpull
    PROVE  PullsSoFar'
<1> USE DEF bootpull
<1>1. ASSUME bpc \in Pulling PROVE bpc # "revert"
  BY <1>1 DEF Pulling
<1>2. ASSUME bpc \in Pulling, NEW r \in Repo PROVE mainAtStart'[r] <= origin'[r]
  BY <1>1, <1>2, RefsStayCaught DEF PullsSoFar
<1>3. ASSUME bpc \in Pulling, ~failures, NEW r \in Repo \ todo, ~(r = repo /\ bpc = "sync")
      PROVE  /\ fetched'[r] >= mainAtStart'[r]
             /\ ~(r = repo /\ bpc \in {"sync", "merge"}) => CaughtUp(r)'
  <2>1. mainAtStart[r] <= fetched[r]
    <3>1. fetched[r] >= mainAtStart[r]
      BY <1>3 DEF PullsSoFar
    <3> QED
      BY <3>1
  <2>2. mainAtStart'[r] <= fetched'[r]
    BY <1>1, <1>3, <2>1, RefsStayCaught
  <2>3. ~(r = repo /\ bpc \in {"sync", "merge"}) => CaughtUp(r)'
    BY <1>1, <1>3, <2>1, RefsStayCaught DEF PullsSoFar
  <2> QED
    BY <2>2, <2>3
<1> QED
  BY <1>2, <1>3 DEF PullsSoFar

\* A step of the run that moves no ref.
LEMMA PullsLocal ==
    ASSUME TypeInv, PullsSoFar, UNCHANGED <<origin, fetched, head, mover, mainAtStart>>,
           bpc \in Pulling, failures => failures',
           bpc' \in {"config", "launcher", "units", "gate"} => todo' = {},
           ~failures' => \A r \in Repo \ todo' :
              /\ \/ r \notin todo /\ ~(r = repo /\ bpc \in {"sync", "merge"})
                 \/ r = repo' /\ bpc' = "sync"
    PROVE  PullsSoFar'
BY DEF PullsSoFar, CaughtUp

\* Every step keeps what the run has pulled so far.
LEMMA PullsStep ==
    ASSUME TypeInv, TypeInv', GitInv, PullsSoFar, [Next]_vars
    PROVE  PullsSoFar'
<1>0. RefsMove
  BY RefsStep
<1>1. CASE DeployNext \/ OtherNext \/ UNCHANGED vars
  <2>1. UNCHANGED bootpull
    BY <1>1 DEF DeployNext, OtherNext, vars
  <2> QED
    BY <1>0, <2>1, PullsFrame
<1>2. ASSUME bpc' \notin Pulling PROVE PullsSoFar'
  BY <1>2 DEF PullsSoFar
<1>3. ASSUME NEW status \in Resting, Exit(status) PROVE PullsSoFar'
  <2>1. bpc' \notin Pulling
    BY <1>3 DEF Exit, Pulling
  <2> QED
    BY <1>2, <2>1
<1>4. CASE Reboot \/ Killed \/ Resync
  BY <1>3, <1>4 DEF Reboot, Killed, Resync, Resting
<1>5. CASE Start
  <2>1. /\ bpc' = "next" /\ todo' = Repo /\ mainAtStart' = origin /\ origin' = origin
    BY <1>5 DEF Start
  <2>2. \A r \in Repo : origin[r] <= origin[r]
    <3>1. \A r \in Repo : origin[r] \in Sha
      BY DEF TypeInv, TypeOK, SharedTypeOK
    <3> QED
      BY <3>1
  <2> QED
    BY <2>1, <2>2 DEF PullsSoFar
<1> USE DEF git, box, Pulling, BootPullPc, Resting
<1>6. CASE AuthOrRosterFailure
  BY <1>6, PullsLocal DEF AuthOrRosterFailure
<1>7. CASE NextRepo
  BY <1>7, PullsLocal DEF NextRepo
<1>8. CASE ReadNew
  BY <1>8, PullsLocal DEF ReadNew
<1>9. CASE PipInstall
  BY <1>9, PullsLocal DEF PipInstall, PipFailed
<1>10. CASE HydrateConfig
  BY <1>10, PullsLocal DEF HydrateConfig, PullsSoFar
<1>11. CASE InstallLauncher
  BY <1>11, PullsLocal DEF InstallLauncher, PullsSoFar
<1>12. CASE SyncUnits
  <2>1. CASE config
    BY <1>12, <2>1, PullsLocal DEF SyncUnits, PullsSoFar
  <2>2. CASE ~config
    <3>1. ExitStatus(failures \/ HeldBack # {}) \in Resting
      BY DEF ExitStatus
    <3> QED
      BY <1>3, <1>12, <2>2, <3>1 DEF SyncUnits
  <2> QED
    BY <2>1, <2>2
<1>13. CASE Gate
  <2>1. CASE bpc' = "revert"
    BY <1>2, <2>1
  <2>2. CASE Exit(ExitStatus(failures))
    <3>1. ExitStatus(failures) \in Resting
      BY DEF ExitStatus
    <3> QED
      BY <1>3, <2>2, <3>1
  <2> QED
    BY <1>13, <2>1, <2>2 DEF Gate
<1>14. CASE Revert
  BY <1>2, <1>14 DEF Revert
<1>15. CASE SyncFetch
  <2>1. CASE bpc' = "merge"
    <3>1. /\ repo \in Repo /\ repo' = repo /\ todo' = todo /\ mainAtStart' = mainAtStart
          /\ origin' = origin /\ head' = head /\ mover' = mover /\ bpc = "sync"
          /\ fetched' = [fetched EXCEPT ![repo] = origin[repo]]
          /\ (failures \in BOOLEAN /\ failures' = failures)
          /\ fetched \in [Repo -> Sha]
      BY <1>15, <2>1 DEF SyncFetch, PullFailed, Fetch, TypeInv, TypeOK, SharedTypeOK,
         BootPullTypeOK
    <3>2. \A r \in Repo : mainAtStart[r] \in Nat /\ origin[r] \in Nat
      <4>1. \A r \in Repo : mainAtStart[r] \in Sha /\ origin[r] \in Sha
        BY DEF TypeInv, TypeOK, SharedTypeOK, BootPullTypeOK
      <4> QED
        BY <4>1
    <3> QED
      BY <2>1, <3>1, <3>2 DEF PullsSoFar, CaughtUp
  <2>2. CASE bpc' # "merge"
    BY <1>15, <2>2, PullsLocal DEF SyncFetch, PullFailed
  <2> QED
    BY <2>1, <2>2
<1>16. CASE SyncMerge
  <2>1. CASE FastForward(repo, "bootpull") /\ bpc' = "new"
    <3>1. /\ repo \in Repo /\ repo' = repo /\ todo' = todo /\ mainAtStart' = mainAtStart
          /\ origin' = origin /\ fetched' = fetched /\ bpc = "merge" /\ failures' = failures
          /\ head' = [head EXCEPT ![repo] = fetched[repo]]
          /\ head \in [Repo -> Sha]
      BY <1>16, <2>1 DEF SyncMerge, PullFailed, FastForward, TypeInv, TypeOK, SharedTypeOK,
         BootPullTypeOK
    <3>2. mover' = mover \/ repo = Dash
      BY <2>1 DEF FastForward
    <3>3. ASSUME ~failures, NEW r \in Repo \ todo
          PROVE  fetched[r] >= mainAtStart[r] /\ CaughtUp(r)'
      <4>1. fetched[r] >= mainAtStart[r] /\ (r # repo => CaughtUp(r))
        BY <3>1, <3>3 DEF PullsSoFar
      <4>2. CASE r = repo
        BY <3>1, <4>1, <4>2 DEF CaughtUp
      <4>3. CASE r # repo
        BY <3>1, <3>2, <4>1, <4>3 DEF CaughtUp
      <4> QED
        BY <4>1, <4>2, <4>3
    <3> QED
      BY <2>1, <3>1, <3>3 DEF PullsSoFar
  <2>2. CASE PullFailed /\ UNCHANGED <<head, mover>>
    BY <1>16, <2>2, PullsLocal DEF SyncMerge, PullFailed
  <2> QED
    BY <1>16, <2>1, <2>2 DEF SyncMerge
<1> QED
  BY <1>1, <1>4, <1>5, <1>6, <1>7, <1>8, <1>9, <1>10, <1>11, <1>12, <1>13, <1>14, <1>15, <1>16
     DEF Next, BootPullNext, BootPullStep

\* Only the two last steps of a run end it clean, and only when nothing failed.
LEMMA CleanEnds ==
    ASSUME TypeInv, [Next]_vars, bpc' = "clean", bpc # "clean"
    PROVE  /\ SyncUnits \/ Gate
           /\ bpc \in {"units", "gate"} /\ ~failures
<1>1. BootPullNext
  BY DEF Next, DeployNext, OtherNext, Reboot, Exit, vars, bootpull
<1>2. SyncUnits \/ Gate
  BY <1>1 DEF BootPullNext, BootPullStep, Start, AuthOrRosterFailure, NextRepo, SyncFetch,
     PullFailed, SyncMerge, ReadNew, PipInstall, HydrateConfig, InstallLauncher, Revert, Resync,
     Killed, Exit
<1> QED
  BY <1>2 DEF SyncUnits, Gate, Exit, ExitStatus

\* A boot-pull run that reports success has brought every checkout of its roster to
\* what main was when it started, whatever deploys, daily pulls and merges ran beside
\* it, except a dashboard checkout that a deploy pinned.
THEOREM CleanRunsCatchUp == Spec => CleanRunCaughtUp
<1> DEFINE Inv == TypeInv /\ GitInv /\ PullsSoFar
<1>1. Init => Inv
  <2>1. Init => GitInv
    BY DEF Init, SharedInit, DeployInit, BootPullInit, GitInv, HeadWithinMain, ShasFetched
  <2>2. Init => PullsSoFar
    BY DEF Init, BootPullInit, PullsSoFar, Pulling, Resting
  <2> QED
    BY <2>1, <2>2, TypeInit
<1>2. Inv /\ [Next]_vars => Inv'
  BY TypeStep, GitStep, PullsStep
<1>3. Inv /\ [Next]_vars =>
        [bpc' = "clean" /\ bpc # "clean" =>
            \A r \in Repo : head[r] >= mainAtStart[r] \/ (r = Dash /\ mover \in Slot)]_vars
  <2> SUFFICES ASSUME Inv, [Next]_vars, bpc' = "clean", bpc # "clean", NEW r \in Repo
               PROVE  head[r] >= mainAtStart[r] \/ (r = Dash /\ mover \in Slot)
    OBVIOUS
  <2>1. bpc \in {"units", "gate"} /\ ~failures
    BY CleanEnds
  <2> QED
    BY <2>1 DEF PullsSoFar, CaughtUp, Pulling, BootPullPc, Resting
<1> QED
  BY <1>1, <1>2, <1>3, PTL DEF Spec, CleanRunCaughtUp

-----------------------------------------------------------------------------
\* No command has put a venv aside, on this box, ever.
NoneAside == \A s \in Slot : aside[s].py = None

\* While boot-pull's was the last move of HEAD, the packages are those of the tree it
\* pulled, or of the one it started from, except before its pip.
Packed ==
    /\ NoneAside => Interpreter
    /\ bpc \in Pulling =>
         /\ bpc \in {"sync", "merge", "new"} => repo \notin todo
         /\ Dash \in todo \/ (repo = Dash /\ bpc \in {"sync", "merge", "new"})
               => pulled[Dash] = None
         /\ (NoneAside /\ bpc # "pip" /\ ~failures /\ pulled[Dash] # None /\ mover = "bootpull")
               => \/ installed["req"] = Tree("req")
                  \/ Content[pulled[Dash]]["req"] = Tree("req")

\* As long as none is aside, the venv changes as everything else does.
LEMMA VenvUndisturbed ==
    ASSUME TypeInv, VenvInv, [Next]_vars, NoneAside'
    PROVE  /\ NoneAside
           /\ \A a \in {"py", "req"} : installed'[a] \in {installed[a], Tree(a)}
<1>0. "py" \in Artifact /\ "req" \in Artifact
  BY DEF Artifact
<1>1. ASSUME SameAside,
             \/ UNCHANGED installed
             \/ \E as : installed' = Provide(as)
             \/ \E b \in Artifact : installed' = Refresh(b)
      PROVE  /\ NoneAside
             /\ \A a \in {"py", "req"} : installed'[a] \in {installed[a], Tree(a)}
  BY <1>0, <1>1, ProvideStep, RefreshStep DEF NoneAside, SameAside
<1>2. ASSUME NEW s \in Slot, SectionButVenv(s)
      PROVE  /\ SameAside
             /\ \/ UNCHANGED installed
                \/ \E as : installed' = Provide(as)
                \/ \E b \in Artifact : installed' = Refresh(b)
  <2>1. SameAside
    BY <1>2, SectionKeepsVenv DEF VenvStays
  <2> QED
    BY <1>2, <2>1 DEF Local, box, SectionButVenv, SsmFetch, SsmReset, ResolveHead, CreateVenv,
       InstallVenv, RestartOnVenv,
       ProbeVenv, Requirements, CheckDrift, Nginx, SystemdUnits, CmpSection, RouteBootPull, RouteLimits,
       AppServices, DashWeb, HealthCheck, RecordGood, RevertReset, Reprovision, Artifact
<1>3. ASSUME NEW s \in Slot, CheckVenv(s) PROVE SameAside /\ UNCHANGED installed
  <2>1. Interpreter => ~PutAside(s)
    <3> SUFFICES ASSUME PutAside(s), Interpreter PROVE FALSE
      OBVIOUS
    <3>1. aside'[s].py = installed["py"]
      <4>1. aside \in [Slot -> Venv]
        BY DEF TypeInv, TypeOK, DeployTypeOK
      <4>2. aside'[s] = [py |-> installed["py"], req |-> installed["req"], kept |-> TRUE]
        BY <4>1 DEF PutAside
      <4> QED
        BY <4>2
    <3>2. aside'[s].py = None
      BY DEF NoneAside
    <3> QED
      BY <3>1, <3>2 DEF Interpreter
  <2> QED
    BY <1>3, <2>1 DEF CheckVenv, SameAside
<1>4. ASSUME NEW s \in Slot, RollBackVenv(s) PROVE FALSE
  <2>1. aside[s].py # None
    BY <1>4 DEF RollBackVenv, VenvInv, Rebuild
  <2>2. aside'[s].py = aside[s].py
    BY <1>4, RollBackMoves DEF SameAside
  <2> QED
    BY <2>1, <2>2 DEF NoneAside
<1>5. CASE Workflow \/ BootPullNext \/ OtherNext \/ Reboot \/ UNCHANGED vars
  <2>1. SameAside
    BY <1>5, OthersKeepVenv DEF VenvStays
  <2>2. UNCHANGED installed \/ \E as : installed' = Provide(as)
    BY <1>5 DEF git, box, Workflow, Merge, Dispatch, DeliveryFailure, SendCommand, StopWaiting,
       CommandEnds,
       BootPullNext, BootPullStep, OtherNext, Start, AuthOrRosterFailure, NextRepo, SyncFetch,
       SyncMerge, ReadNew, PipInstall, PipFailed, HydrateConfig, InstallLauncher, SyncUnits, Gate,
       Revert, Resync, Killed, DailyFetch, DailyMerge, HandEdit, MergeElsewhere, Reboot, vars
  <2> QED
    BY <1>1, <2>1, <2>2
<1> QED
  BY <1>1, <1>2, <1>3, <1>4, <1>5 DEF Next, DeployNext, Command, SectionButVenv

\* A step that keeps what the run has pulled.
LEMMA PackedFrame ==
    ASSUME TypeInv, VenvInv, Packed, [Next]_vars, bpc \in Pulling, bpc' \in Pulling,
           pulled'[Dash] = pulled[Dash],
           Dash \in todo' \/ (repo' = Dash /\ bpc' \in {"sync", "merge", "new"})
              => Dash \in todo \/ (repo = Dash /\ bpc \in {"sync", "merge", "new"}),
           bpc' \in {"sync", "merge", "new"} => repo' \notin todo',
           failures => failures',
           bpc = "pip" => bpc' = "pip" \/ failures' \/ installed'["req"] = Tree("req")
    PROVE  Packed'
<1>1. ASSUME NoneAside'
      PROVE  /\ NoneAside /\ Interpreter'
             /\ installed'["req"] \in {installed["req"], Tree("req")}
  <2>1. NoneAside /\ \A a \in {"py", "req"} : installed'[a] \in {installed[a], Tree(a)}
    BY <1>1, VenvUndisturbed
  <2>2. "py" \in Artifact
    BY DEF Artifact
  <2>3. Tree("py") # None
    BY <2>2, TreeType DEF TypeInv, TypeOK
  <2> QED
    BY <2>1, <2>3 DEF Packed, Interpreter
<1>2. Dash \in todo' \/ (repo' = Dash /\ bpc' \in {"sync", "merge", "new"})
         => pulled'[Dash] = None
  BY DEF Packed
<1>3. ASSUME NoneAside', bpc' # "pip", ~failures', pulled'[Dash] # None, mover' = "bootpull"
      PROVE  \/ installed'["req"] = Tree("req")'
             \/ Content[pulled'[Dash]]["req"] = Tree("req")'
  <2>1. bpc # "revert" /\ "bootpull" \notin Slot
    BY DEF Pulling
  <2>2. ~(bpc = "merge" /\ repo = Dash)
    BY <1>3 DEF Packed
  <2>3. mover = "bootpull" /\ head'[Dash] = head[Dash]
    BY <1>3, <2>1, <2>2, RefsStep DEF MoverMoves
  <2>4. Tree("req")' = Tree("req")
    BY <2>3 DEF Tree
  <2>5. bpc # "pip" => \/ installed["req"] = Tree("req")
                      \/ Content[pulled[Dash]]["req"] = Tree("req")
    BY <1>1, <1>3, <2>3 DEF Packed
  <2> QED
    BY <1>1, <1>3, <2>4, <2>5
<1> QED
  BY <1>1, <1>2, <1>3 DEF Packed

\* Every step keeps the packages in step with what was pulled.
LEMMA PackedStep ==
    ASSUME TypeInv, VenvInv, Packed, [Next]_vars
    PROVE  Packed'
<1>0. NoneAside' => Interpreter'
  <2> SUFFICES ASSUME NoneAside' PROVE Interpreter'
    OBVIOUS
  <2>1. NoneAside /\ installed'["py"] \in {installed["py"], Tree("py")}
    BY VenvUndisturbed
  <2>2. "py" \in Artifact
    BY DEF Artifact
  <2>3. Tree("py") # None
    BY <2>2, TreeType DEF TypeInv, TypeOK
  <2> QED
    BY <2>1, <2>3 DEF Packed, Interpreter
<1>1. ASSUME bpc' \notin Pulling PROVE Packed'
  BY <1>0, <1>1 DEF Packed
<1>2. CASE DeployNext \/ OtherNext \/ UNCHANGED vars
  <2>1. UNCHANGED bootpull
    BY <1>2 DEF DeployNext, OtherNext, vars
  <2> QED
    BY <1>1, <2>1, PackedFrame DEF bootpull, Packed
<1>3. ASSUME NEW status \in Resting, Exit(status) PROVE Packed'
  <2>1. bpc' \notin Pulling
    BY <1>3 DEF Exit, Pulling
  <2> QED
    BY <1>1, <2>1
<1>4. CASE Reboot \/ Killed \/ Resync
  BY <1>3, <1>4 DEF Reboot, Killed, Resync, Resting
<1>5. CASE Revert
  BY <1>1, <1>5 DEF Revert, Pulling
<1>6. CASE Start
  <2>1. bpc' = "next" /\ pulled'[Dash] = None
    BY <1>6 DEF Start
  <2> QED
    BY <1>0, <2>1 DEF Packed
<1> USE DEF git, box, Pulling, BootPullPc, Resting
<1>7. CASE AuthOrRosterFailure \/ NextRepo \/ HydrateConfig \/ InstallLauncher \/ SyncFetch
  <2>1. /\ bpc \in {"next", "sync", "config", "launcher"}
        /\ bpc' \in {"next", "sync", "merge", "config", "launcher", "units"}
        /\ pulled' = pulled /\ (failures => failures')
    BY <1>7 DEF AuthOrRosterFailure, NextRepo, HydrateConfig, InstallLauncher, SyncFetch,
       PullFailed
  <2>2. Dash \in todo' \/ (repo' = Dash /\ bpc' \in {"sync", "merge", "new"})
              => Dash \in todo \/ (repo = Dash /\ bpc \in {"sync", "merge", "new"})
    BY <1>7 DEF AuthOrRosterFailure, NextRepo, HydrateConfig, InstallLauncher, SyncFetch,
       PullFailed
  <2>3. bpc' \in {"sync", "merge", "new"} => repo' \notin todo'
    BY <1>7 DEF AuthOrRosterFailure, NextRepo, HydrateConfig, InstallLauncher, SyncFetch,
       PullFailed, Packed
  <2> QED
    BY <2>1, <2>2, <2>3, PackedFrame
<1>8. CASE SyncMerge
  BY <1>8, PackedFrame DEF SyncMerge, PullFailed, Packed
<1>9. CASE ReadNew
  <2>0. /\ bpc = "new" /\ bpc' \in {"next", "pip"} /\ UNCHANGED <<todo, repo, failures>>
        /\ UNCHANGED <<head, mover, installed>>
        /\ pulled \in [Repo -> Sha \cup {None}] /\ repo \in Repo
    BY <1>9 DEF ReadNew, TypeInv, TypeOK, BootPullTypeOK
  <2>1. CASE pulled'[Dash] = pulled[Dash] /\ bpc' = "next"
    BY <2>0, <2>1, PackedFrame
  <2>2. CASE repo = Dash /\ pulled'[Dash] = prev
    <3>1. bpc' = "next" => ~Interpreter \/ Tree("req") = Content[prev]["req"]
                           \/ pulled'[Dash] = None
      BY <1>9, <2>0, <2>2 DEF ReadNew, Packed
    <3>2. NoneAside' => NoneAside
      BY VenvUndisturbed
    <3>3. Tree("req")' = Tree("req")
      BY <2>0 DEF Tree
    <3>4. Dash \notin todo'
      BY <2>0, <2>2 DEF Packed
    <3> QED
      BY <1>0, <2>0, <2>2, <3>1, <3>2, <3>3, <3>4 DEF Packed
  <2> QED
    BY <1>9, <2>0, <2>1, <2>2 DEF ReadNew
<1>10. CASE PipInstall
  <2>1. installed'["req"] = Tree("req") \/ failures'
    BY <1>10 DEF PipInstall, PipFailed, Provide, Artifact
  <2>2. UNCHANGED <<todo, repo, pulled>> /\ bpc = "pip" /\ bpc' = "next" /\ (failures => failures')
    BY <1>10 DEF PipInstall, PipFailed
  <2> QED
    BY <2>1, <2>2, PackedFrame
<1>11. CASE SyncUnits
  <2>1. CASE config
    BY <1>11, <2>1, PackedFrame DEF SyncUnits
  <2>2. CASE ~config
    BY <1>3, <1>11, <2>2 DEF SyncUnits, ExitStatus
  <2> QED
    BY <2>1, <2>2
<1>12. CASE Gate
  <2>1. CASE bpc' = "revert"
    BY <1>1, <2>1
  <2>2. CASE Exit(ExitStatus(failures))
    BY <1>3, <2>2 DEF ExitStatus
  <2> QED
    BY <1>12, <2>1, <2>2 DEF Gate
<1> QED
  BY <1>2, <1>4, <1>5, <1>6, <1>7, <1>8, <1>9, <1>10, <1>11, <1>12
     DEF Next, BootPullNext, BootPullStep

\* When boot-pull pulled the dashboard and ended clean, the venv has the packages of
\* the tree it left, or those of the tree it started from, as long as no deploy had
\* the venv away: its pip compares the two trees it moved HEAD between.
THEOREM PulledPackagesInstalled == Spec => PulledRequirementsInstalled
<1> DEFINE Inv == TypeInv /\ VenvInv /\ Packed
<1>1. Init => Inv
  <2> SUFFICES ASSUME Init PROVE VenvInv /\ Packed
    BY TypeInit
  <2>1. installed["py"] = Content[1]["py"] /\ installed["req"] = Content[1]["req"]
    BY DEF Init, SharedInit, Artifact
  <2>2. Content[1]["py"] # None /\ Content[1]["req"] # None
    BY DEF Artifact
  <2>3. VenvInv
    BY <2>1, <2>2 DEF VenvInv, VenvWhole, Interpreter, Init, DeployInit, Rebuild
  <2>4. bpc \notin Pulling
    BY DEF Init, BootPullInit, Pulling, Resting
  <2> QED
    BY <2>1, <2>2, <2>3, <2>4 DEF Packed, Interpreter
<1>2. Inv /\ [Next]_vars => Inv'
  BY TypeStep, VenvStep, PackedStep
<1>3. Inv /\ [Next]_vars =>
        [bpc' = "clean" /\ bpc # "clean" /\ pulled[Dash] # None /\ mover = "bootpull"
             /\ (\A s \in Slot : aside[s] = NoVenv) =>
          \/ installed["req"] = Tree("req")
          \/ Content[pulled[Dash]]["req"] = Tree("req")]_vars
  <2> SUFFICES ASSUME Inv, [Next]_vars, bpc' = "clean", bpc # "clean", pulled[Dash] # None,
                      mover = "bootpull", NoneAside
               PROVE  \/ installed["req"] = Tree("req")
                      \/ Content[pulled[Dash]]["req"] = Tree("req")
    BY DEF NoneAside, NoVenv
  <2>1. bpc \in {"units", "gate"} /\ ~failures
    BY CleanEnds
  <2> QED
    BY <2>1 DEF Packed, Pulling, BootPullPc, Resting
<1> QED
  BY <1>1, <1>2, <1>3, PTL DEF Spec, PulledRequirementsInstalled

-----------------------------------------------------------------------------
(* What section 1b is good for *)

\* While the command on s is the last that moved HEAD, and no command ever had the venv
\* away, its packages satisfy requirements.in from section 1b on.
PastDrift == {"nginx"} \cup PastNginx

PackagesMeet ==
    \A s \in Slot : mover = s /\ pc[s] \in PastDrift /\ NoneAside => Satisfied

\* Only section 1b takes a command there, and what pip installs later is the lock of the
\* same tree.
LEMMA MeetStep ==
    ASSUME TypeInv, VenvInv, Packed, PackagesMeet, [Next]_vars
    PROVE  PackagesMeet'
<1> SUFFICES ASSUME NEW s \in Slot, mover' = s, pc'[s] \in PastDrift, NoneAside'
             PROVE  Satisfied'
  BY DEF PackagesMeet
<1>1. mover = s /\ head'[Dash] = head[Dash]
  BY RefsStep DEF MoverMoves, PastDrift, PastNginx
<1>2. Tree("req")' = Tree("req") /\ Tree("req") \in Rev
  <2>1. "req" \in Artifact
    BY DEF Artifact
  <2> QED
    BY <1>1, <2>1, TreeType DEF Tree, TypeInv, TypeOK
<1>3. NoneAside /\ installed'["req"] \in {installed["req"], Tree("req")}
  BY VenvUndisturbed
<1>4. Satisfied => Satisfied'
  BY <1>2, <1>3, LockAssumption DEF Satisfied
<1>5. CASE pc[s] \in PastDrift
  BY <1>1, <1>3, <1>4, <1>5 DEF PackagesMeet
<1>6. CASE pc[s] \notin PastDrift
  <2>1. PICK t \in Slot : Command(t)
    BY <1>6 DEF PastDrift, PastNginx, Next, DeployNext, Workflow, Merge, Dispatch, DeliveryFailure,
       SendCommand, StopWaiting, CommandEnds, BootPullNext, OtherNext, Reboot, vars, deploy, Goto,
       TypeInv, TypeOK, DeployTypeOK
  <2>2. CheckDrift(t) /\ t = s
    BY <1>6, <2>1 DEF PastDrift, PastNginx, Command, SsmFetch, SsmReset, ResolveHead, CheckVenv,
       CreateVenv, InstallVenv, RestartOnVenv, ProbeVenv, RollBackVenv, OrRollBack, Requirements,
       CheckDrift, Nginx, SystemdUnits, CmpSection, RouteBootPull, RouteLimits, AppServices, DashWeb,
       HealthCheck, RecordGood, RevertReset, Reprovision, Goto, Abort, Local, TypeInv, TypeOK,
       DeployTypeOK
  <2>3. Interpreter
    BY <1>3 DEF Packed
  <2>4. Satisfied
    BY <2>2, <2>3 DEF CheckDrift, Goto, Abort, PastDrift, PastNginx, TypeInv, TypeOK, DeployTypeOK
  <2> QED
    BY <1>4, <2>4
<1> QED
  BY <1>5, <1>6

\* A green deploy that nobody moved HEAD under runs on packages its own requirements.in
\* admits, however the boot-pulls before it left the stamp of section 1 behind: section 1
\* believes the stamp, section 1b the packages (as long as no command had the venv away).
THEOREM GreenDeployMeetsRequirements ==
    Spec => [](\A s \in Slot :
                 pc[s] = "ok" /\ mover = s /\ (\A t \in Slot : aside[t] = NoVenv)
                    => <<installed["req"], Content[target[s]]["req"]>> \in Meets)
<1> DEFINE Inv == TypeInv /\ VenvInv /\ Packed /\ AllProvisioned /\ PackagesMeet
<1> DEFINE Met == \A s \in Slot :
                 pc[s] = "ok" /\ mover = s /\ (\A t \in Slot : aside[t] = NoVenv)
                    => <<installed["req"], Content[target[s]]["req"]>> \in Meets
<1>1. Init => VenvInv /\ Packed /\ AllProvisioned /\ PackagesMeet
  <2> SUFFICES ASSUME Init PROVE VenvInv /\ Packed /\ AllProvisioned /\ PackagesMeet
    OBVIOUS
  <2>1. installed["py"] = Content[1]["py"] /\ installed["req"] = Content[1]["req"]
    BY DEF Init, SharedInit, Artifact
  <2>2. Content[1]["py"] # None /\ Content[1]["req"] # None
    BY DEF Artifact
  <2>3. VenvInv
    BY <2>1, <2>2 DEF VenvInv, VenvWhole, Interpreter, Init, DeployInit, Rebuild
  <2>4. bpc \notin Pulling
    BY DEF Init, BootPullInit, Pulling, Resting
  <2>5. Packed
    BY <2>1, <2>2, <2>4 DEF Packed, Interpreter
  <2>6. AllProvisioned /\ PackagesMeet
    BY DEF Init, SharedInit, DeployInit, AllProvisioned, Provisioned, PackagesMeet
  <2> QED
    BY <2>3, <2>5, <2>6
<1>2. TypeInv /\ VenvInv /\ Packed /\ AllProvisioned /\ PackagesMeet /\ [Next]_vars
         => (VenvInv /\ Packed /\ AllProvisioned /\ PackagesMeet)'
  <2>1. TypeInv /\ AllProvisioned /\ [Next]_vars => AllProvisioned'
    BY OthersProvisioned, DeployProvisioned DEF Next
  <2> QED
    BY <2>1, VenvStep, PackedStep, MeetStep
<1>3. TypeInv /\ AllProvisioned /\ PackagesMeet => Met
  <2> SUFFICES ASSUME AllProvisioned, PackagesMeet, NEW s \in Slot, pc[s] = "ok", mover = s,
                      \A t \in Slot : aside[t] = NoVenv
               PROVE  <<installed["req"], Content[target[s]]["req"]>> \in Meets
    OBVIOUS
  <2>1. head[Dash] = target[s]
    BY DEF AllProvisioned, Provisioned, AfterReset, Section, Rebuild, Ended
  <2>2. NoneAside
    BY DEF NoneAside, NoVenv
  <2>3. Satisfied
    BY <2>2 DEF PackagesMeet, PastDrift, PastNginx
  <2> QED
    BY <2>1, <2>3 DEF Satisfied, Tree
<1> QED
  BY <1>1, <1>2, <1>3, PinsAlwaysSet, PTL DEF Spec

=============================================================================
