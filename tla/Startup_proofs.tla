--------------------------- MODULE Startup_proofs ---------------------------
(***************************************************************************)
(* Proofs about Startup, for any number of processes and any settings: the *)
(* registries of every process, and what the launcher accepts.             *)
(***************************************************************************)
EXTENDS Startup, TLAPS

(* Our class in vLLM's registry comes with our class in the other one. *)
Paired(g) == g.slot = "ours" => g.listed = "ours"

(* Until plugins can be loaded, _PATCHED without a failure tells the truth; *)
(* afterwards only the hook does.                                          *)
PatchedMeansOurs(g) == g.patched /\ ~g.failed => g.slot = "ours"
HookedMeansOurs(g) == g.hooked /\ ~g.failed => g.slot = "ours"

Sound(g) == g \in Registries /\ Paired(g) /\ HookedMeansOurs(g)
Young(g) == Sound(g) /\ PatchedMeansOurs(g)

Phases == {"off", "main", "vllm", "serving", "dead"}

RegistryInv ==
  /\ phase \in [Procs -> Phases]
  /\ registry \in [Procs -> Registries]
  /\ \A p \in Procs : Sound(registry[p])
  /\ \A p \in Procs : phase[p] \in {"off", "main"} => Young(registry[p])
  /\ \A p \in Workers : phase[p] = "serving" => registry[p].slot = "ours"
  /\ \A p \in Workers : phase[p] = "dead" => registry[p].slot # "ours"

-----------------------------------------------------------------------------
(* Registering a registry that has not been patched repairs it or fails; a *)
(* patched one is left alone.                                              *)
LEMMA RegisterOutcome ==
  ASSUME NEW g \in Registries, Paired(g), NEW r \in Register(g)
  PROVE  /\ r.reg \in Registries /\ Paired(r.reg)
         /\ r.reg.hooked = g.hooked
         /\ r.ok => r.reg.patched
         /\ ~g.patched => HookedMeansOurs(r.reg)
         /\ ~g.patched => PatchedMeansOurs(r.reg)
         /\ g.patched => r.reg = g
<1>1. CASE g.patched
  BY <1>1 DEF Register, Outcome, Paired
<1>2. CASE ~g.patched
  <2>1. CASE r = Outcome(FALSE, [g EXCEPT !.failed = TRUE])
    BY <1>2, <2>1 DEF Outcome, Registries, Paired, HookedMeansOurs, PatchedMeansOurs
  <2>2. ASSUME NEW slot \in {"ours", "untyped", g.slot},
               r = Outcome(TRUE, [g EXCEPT !.patched = TRUE, !.listed = "ours",
                                           !.slot = slot, !.failed = slot # "ours"])
        PROVE  /\ r.reg \in Registries /\ Paired(r.reg) /\ r.reg.hooked = g.hooked /\ r.reg.patched
               /\ HookedMeansOurs(r.reg) /\ PatchedMeansOurs(r.reg)
    <3>1. slot \in {"ours", "untyped", "vllm"}
      BY <2>2 DEF Registries
    <3>2. CASE slot = "ours"
      <4>1. r.reg = [g EXCEPT !.patched = TRUE, !.listed = "ours",
                              !.slot = "ours", !.failed = FALSE]
        BY <2>2, <3>2 DEF Outcome
      <4> QED
        BY <4>1 DEF Registries, Paired, HookedMeansOurs, PatchedMeansOurs
    <3>3. CASE slot # "ours"
      <4>1. r.reg = [g EXCEPT !.patched = TRUE, !.listed = "ours",
                              !.slot = slot, !.failed = TRUE]
        BY <2>2, <3>3 DEF Outcome
      <4> QED
        BY <3>1, <4>1 DEF Registries, Paired, HookedMeansOurs, PatchedMeansOurs
    <3> QED
      BY <3>2, <3>3
  <2> QED
    BY <1>2, <2>1, <2>2 DEF Register
<1> QED
  BY <1>1, <1>2

(* A young registry stays young through a registration. *)
LEMMA RegisterYoung ==
  ASSUME NEW g, Young(g), NEW r \in Register(g)
  PROVE  Young(r.reg) /\ (r.ok => r.reg.patched)
BY RegisterOutcome DEF Young, Sound

(* The hook is only installed on a patched registry. *)
LEMMA HookYoung ==
  ASSUME NEW g, Young(g), g.patched, NEW h \in Hook(g)
  PROVE  Young(h)
BY DEF Hook, Young, Sound, Registries, Paired, HookedMeansOurs, PatchedMeansOurs

(* Importing the package keeps a registry young. *)
LEMMA ImportYoung ==
  ASSUME NEW g, Young(g), NEW i \in Import(g)
  PROVE  Young(i.reg)
<1>1. CASE g.imported \/ i = Outcome(FALSE, g)
  BY <1>1 DEF Import, Outcome
<1>2. CASE \E r \in Register(g) :
             r.ok /\ \E h \in Hook(r.reg) : i = Outcome(TRUE, [h EXCEPT !.imported = TRUE])
  <2>0. PICK r \in Register(g) :
          r.ok /\ \E h \in Hook(r.reg) : i = Outcome(TRUE, [h EXCEPT !.imported = TRUE])
    BY <1>2
  <2>1. PICK h \in Hook(r.reg) : i = Outcome(TRUE, [h EXCEPT !.imported = TRUE])
    BY <2>0
  <2>2. Young(h)
    BY <2>0, <2>1, RegisterYoung, HookYoung
  <2> QED
    BY <2>1, <2>2 DEF Outcome, Young, Sound, Registries, Paired, HookedMeansOurs,
                      PatchedMeansOurs
<1>3. CASE \E r \in Register(g) : i = Outcome(TRUE, [r.reg EXCEPT !.imported = TRUE])
  <2>1. PICK r \in Register(g) : i = Outcome(TRUE, [r.reg EXCEPT !.imported = TRUE])
    BY <1>3
  <2>2. Young(r.reg)
    BY <2>1, RegisterYoung
  <2> QED
    BY <2>1, <2>2 DEF Outcome, Young, Sound, Registries, Paired, HookedMeansOurs,
                      PatchedMeansOurs
<1> QED
  BY <1>1, <1>2, <1>3 DEF Import

-----------------------------------------------------------------------------
(* The registries of all processes. *)

LEMMA RegistryInvInit == Init => RegistryInv
<1>1. Fresh \in Registries /\ Young(Fresh)
  BY DEF Fresh, Registries, Young, Sound, Paired, HookedMeansOurs, PatchedMeansOurs
<1>2. Young(Fresh) => Sound(Fresh)
  BY DEF Young
<1> QED
  BY <1>1, <1>2 DEF Init, RegistryInv, Phases, Procs

(* An interpreter that starts. *)
LEMMA BootInv ==
  ASSUME RegistryInv, NEW p \in Procs, NEW next \in {"main", "vllm"},
         phase[p] = "off", Boot(p, next)
  PROVE  RegistryInv'
<1>1. PICK i \in Import(registry[p]) : registry' = [registry EXCEPT ![p] = i.reg]
  BY DEF Boot
<1>2. Young(i.reg) /\ i.reg \in Registries
  BY <1>1, ImportYoung DEF RegistryInv, Young, Sound
<1>3. phase' = [phase EXCEPT ![p] = next]
  BY DEF Boot
<1> QED
  BY <1>1, <1>2, <1>3 DEF RegistryInv, Phases, Young, Procs

LEMMA MainInv ==
  ASSUME RegistryInv, Main
  PROVE  RegistryInv'
<1> Launcher \in Procs /\ phase[Launcher] = "main" /\ Young(registry[Launcher])
  BY DEF Main, RegistryInv, Procs
<1>1. PICK i \in Import(registry[Launcher]) : \E r \in Register(i.reg) : \E g \in Hook(r.reg) :
        \/ /\ r.ok
           /\ registry' = [registry EXCEPT ![Launcher] = g]
           /\ phase' = [phase EXCEPT ![Launcher] = "vllm"]
        \/ registry' = registry /\ phase' = [phase EXCEPT ![Launcher] = "dead"]
  BY DEF Main
<1>2. PICK r \in Register(i.reg) : \E g \in Hook(r.reg) :
        \/ /\ r.ok
           /\ registry' = [registry EXCEPT ![Launcher] = g]
           /\ phase' = [phase EXCEPT ![Launcher] = "vllm"]
        \/ registry' = registry /\ phase' = [phase EXCEPT ![Launcher] = "dead"]
  BY <1>1
<1>3. CASE registry' = registry /\ phase' = [phase EXCEPT ![Launcher] = "dead"]
  BY <1>3, LauncherAssumption DEF RegistryInv, Phases
<1>4. ASSUME NEW g \in Hook(r.reg), r.ok,
             registry' = [registry EXCEPT ![Launcher] = g],
             phase' = [phase EXCEPT ![Launcher] = "vllm"]
      PROVE  RegistryInv'
  <2>1. Young(i.reg)
    BY ImportYoung
  <2>2. Young(r.reg) /\ r.reg.patched
    BY <1>4, <2>1, RegisterYoung
  <2>3. Young(g) /\ g \in Registries
    BY <2>2, HookYoung DEF Young, Sound
  <2> QED
    BY <1>4, <2>3, LauncherAssumption DEF RegistryInv, Phases, Young
<1> QED
  BY <1>2, <1>3, <1>4

(* Plugins may put vLLM's class back, and the hook repairs it or fails. *)
LEMMA LoadPluginsInv ==
  ASSUME RegistryInv, NEW p \in Procs, LoadPlugins(p)
  PROVE  RegistryInv'
<1> DEFINE G(slot) == [registry[p] EXCEPT !.slot = slot]
<1>1. PICK slot \in {"vllm", registry[p].slot} :
        \E h \in (IF G(slot).hooked THEN WrappedLoader(G(slot)) ELSE {G(slot)}) :
          registry' = [registry EXCEPT ![p] = h]
  BY DEF LoadPlugins
<1>2. PICK h \in (IF G(slot).hooked THEN WrappedLoader(G(slot)) ELSE {G(slot)}) :
        registry' = [registry EXCEPT ![p] = h]
  BY <1>1
<1>3. G(slot) \in Registries /\ Paired(G(slot)) /\ G(slot).hooked = registry[p].hooked
  BY DEF RegistryInv, Sound, Registries, Paired
<1>4. Sound(h)
  <2>1. CASE ~G(slot).hooked
    BY <1>3, <2>1 DEF Sound, HookedMeansOurs
  <2>2. CASE G(slot).hooked
    <3> DEFINE U == [G(slot) EXCEPT !.patched = FALSE]
    <3>1. U \in Registries /\ Paired(U) /\ ~U.patched
      BY <1>3 DEF Registries, Paired
    <3>2. PICK r \in Register(U) : h = r.reg
      BY <2>2 DEF WrappedLoader
    <3> HIDE DEF U
    <3> QED
      BY <3>1, <3>2, RegisterOutcome DEF Sound
  <2> QED
    BY <2>1, <2>2
<1>5. phase' = phase /\ phase[p] = "vllm"
  BY DEF LoadPlugins
<1> HIDE DEF G
<1> QED
  BY <1>2, <1>4, <1>5 DEF RegistryInv, Sound

LEMMA RegistryInvStep == RegistryInv /\ [Next]_vars => RegistryInv'
<1> SUFFICES ASSUME RegistryInv, [Next]_vars PROVE RegistryInv'
  OBVIOUS
<1>1. CASE Launch
  BY <1>1, BootInv DEF Launch, Procs
<1>2. CASE Main
  BY <1>2, MainInv
<1>3. ASSUME NEW p \in Workers, Spawn(p) PROVE RegistryInv'
  BY <1>3, BootInv DEF Spawn, Procs
<1>4. ASSUME NEW p \in Workers, NEW q \in Procs, Fork(p, q) PROVE RegistryInv'
  BY <1>4 DEF Fork, RegistryInv, Phases, Procs
<1>5. ASSUME NEW p \in Procs, LoadPlugins(p) PROVE RegistryInv'
  BY <1>5, LoadPluginsInv
<1>6. ASSUME NEW p \in Workers, LoadModel(p) PROVE RegistryInv'
  BY <1>6 DEF LoadModel, RegistryInv, Phases, Procs
<1>7. CASE UNCHANGED vars
  BY <1>7 DEF vars, RegistryInv
<1> QED
  BY <1>1, <1>2, <1>3, <1>4, <1>5, <1>6, <1>7 DEF Next

(* A worker fails to load the model only if its last registration failed or *)
(* the hook is missing; one that serves has this package's class in both    *)
(* registries, however it was started and however often plugins are loaded.*)
THEOREM AlwaysWorkersLoadOurs == Spec => []WorkersLoadOurs
<1>1. RegistryInv => WorkersLoadOurs
  BY DEF RegistryInv, WorkersLoadOurs, Sound, Paired, HookedMeansOurs, Procs
<1> QED
  BY <1>1, RegistryInvInit, RegistryInvStep, PTL DEF Spec

-----------------------------------------------------------------------------
(* What the launcher accepts. *)

SettingsInv ==
  /\ settings \in Settings
  /\ config = NoConfig \/ \E e \in Settings : Accepts(e) /\ config = ConfigOf(e)

LEMMA SettingsInvStep == SettingsInv /\ [Next]_vars => SettingsInv'
<1> SUFFICES ASSUME SettingsInv, [Next]_vars PROVE SettingsInv'
  OBVIOUS
<1>1. CASE Main
  BY <1>1 DEF Main, SettingsInv
<1>2. CASE UNCHANGED <<settings, config>>
  BY <1>2 DEF SettingsInv
<1>3. CASE Next /\ ~Main
  BY <1>2, <1>3 DEF Next, Launch, Spawn, Boot, Fork, LoadPlugins, LoadModel
<1> QED
  BY <1>1, <1>2, <1>3 DEF vars

(* Accepted settings have a bucket list whose last and largest bucket is   *)
(* the model length.                                                       *)
LEMMA AcceptedBuckets ==
  ASSUME NEW e \in Settings, Accepts(e)
  PROVE  /\ BucketsOf(e) \in Seq(Int) /\ e.maxLen \in Int
         /\ Last(BucketsOf(e)) = e.maxLen
         /\ e.maxLen \in ToSet(BucketsOf(e))
<1>1. BucketsOf(e) \in Seq(Int) /\ BucketsOf(e) # << >> /\ e.maxLen \in Int
  BY SettingsAssumption DEF BucketsOf, Unset
<1>2. Len(BucketsOf(e)) \in DOMAIN BucketsOf(e)
  BY <1>1
<1>3. Last(BucketsOf(e)) = e.maxLen
  BY DEF Accepts, BucketsValid
<1> QED
  BY <1>1, <1>2, <1>3 DEF Last, ToSet

(* Whatever the environment holds, an accepted configuration prefills every *)
(* prompt up to the model length in one step and in some compiled bucket.  *)
THEOREM AlwaysSingleShotPrefill == Spec => []SingleShotPrefill
<1>1. Init => SettingsInv
  BY DEF Init, SettingsInv
<1>2. SettingsInv => SingleShotPrefill
  <2> SUFFICES ASSUME SettingsInv, config # NoConfig, NEW n \in 1 .. config.maxLen
               PROVE  /\ n <= config.batchedTokens
                      /\ \E k \in ToSet(config.buckets) : n <= k /\ k <= config.batchedTokens
    BY DEF SingleShotPrefill
  <2>1. PICK e \in Settings : Accepts(e) /\ config = ConfigOf(e)
    BY DEF SettingsInv
  <2>2. /\ config.maxLen = e.maxLen /\ config.buckets = BucketsOf(e)
        /\ config.batchedTokens = Last(BucketsOf(e))
    BY <2>1 DEF ConfigOf
  <2>3. e.maxLen \in Int /\ config.batchedTokens = e.maxLen /\ e.maxLen \in ToSet(config.buckets)
    BY <2>1, <2>2, AcceptedBuckets
  <2> QED
    BY <2>2, <2>3
<1> QED
  BY <1>1, <1>2, SettingsInvStep, PTL DEF Spec

(* Type correctness, the accepted configuration's included. *)
THEOREM AlwaysTypeOK == Spec => []TypeOK
<1>1. Init => SettingsInv
  BY DEF Init, SettingsInv
<1>2. RegistryInv /\ SettingsInv => TypeOK
  <2> SUFFICES ASSUME RegistryInv, SettingsInv, config # NoConfig
               PROVE  /\ config.maxLen > 0 /\ config.numSeqs > 0 /\ config.vision > 0
                      /\ \A n \in ToSet(config.buckets) : n > 0
    BY DEF TypeOK, RegistryInv, SettingsInv, Phases
  <2>1. PICK e \in Settings : Accepts(e) /\ config = ConfigOf(e)
    BY DEF SettingsInv
  <2>2. VisionBlock(e) > 0
    BY <2>1, SettingsAssumption DEF Accepts
  <2> QED
    BY <2>1, <2>2 DEF ConfigOf, Accepts, BucketsValid
<1> QED
  BY <1>1, <1>2, RegistryInvInit, RegistryInvStep, SettingsInvStep, PTL DEF Spec
=============================================================================
