------------------------------ MODULE Startup -------------------------------
(***************************************************************************)
(* How a server comes up: the launcher checks its settings and hands over  *)
(* to vLLM, whose worker processes load the model class that their own     *)
(* registry names.                                                         *)
(*                                                                         *)
(* The package is not installed in vLLM, so every process patches its two  *)
(* registries itself: when its interpreter starts (sitecustomize), in the  *)
(* launcher's main, and again after each loading of the plugins, which may *)
(* put vLLM's own class back.  Every step of it may fail with a warning.   *)
(* QWEN36_DISABLE_AUTO_REGISTER, a switch for debugging, is left unset.    *)
(***************************************************************************)
EXTENDS Integers, SequencesExt

CONSTANTS
  Launcher,   \* the process of _serve_main
  Workers,    \* the processes vLLM starts, from it or from one another
  Settings,   \* what the environment may hold: maxLen, numSeqs, and bucket and
              \* vision, << >> when unset
  VisionCap   \* the default cap on the vision block, 2048

ASSUME LauncherAssumption == Launcher \notin Workers
ASSUME SettingsAssumption ==
  /\ \A e \in Settings : e.maxLen \in Int /\ e.numSeqs \in Int
  /\ \A e \in Settings : e.bucket \in Seq(Int) /\ e.vision \in Seq(Int)
ASSUME VisionCapAssumption == VisionCap \in Nat \ {0}

VARIABLES
  phase,     \* process -> "off", "main", "vllm", "serving" or "dead"
  registry,  \* process -> what it has imported and patched
  settings,  \* the launcher's environment
  config     \* what vLLM was started with

vars == <<phase, registry, settings, config>>

Procs == Workers \cup {Launcher}
Unset == << >>
NoConfig == [maxLen |-> 0, buckets |-> << >>, batchedTokens |-> 0, numSeqs |-> 0, vision |-> 0]

(* imported: the package; patched: _PATCHED; hooked: the plugin loader is   *)
(* wrapped; listed, slot: whose class vllm_neuron's and vLLM's registries   *)
(* give for the architecture; failed: the last registration went wrong.    *)
Registries ==
  [imported : BOOLEAN, patched : BOOLEAN, hooked : BOOLEAN, failed : BOOLEAN,
   listed : {"ours", "theirs"}, slot : {"ours", "untyped", "vllm"}]

Fresh ==
  [imported |-> FALSE, patched |-> FALSE, hooked |-> FALSE, failed |-> FALSE,
   listed |-> "theirs", slot |-> "vllm"]

TypeOK ==
  /\ phase \in [Procs -> {"off", "main", "vllm", "serving", "dead"}]
  /\ registry \in [Procs -> Registries]
  /\ settings \in Settings
  /\ config # NoConfig =>
       /\ config.maxLen > 0 /\ config.numSeqs > 0 /\ config.vision > 0
       /\ \A n \in ToSet(config.buckets) : n > 0

-----------------------------------------------------------------------------
(* The registration.  An outcome is a registry and whether the call         *)
(* returned.                                                               *)

Outcome(ok, g) == [ok |-> ok, reg |-> g]

(* register: nothing if it has run before; vllm_neuron's registry may not   *)
(* import, which raises; what fails on vLLM's own is swallowed.             *)
Register(g) ==
  IF g.patched THEN {Outcome(TRUE, g)}
  ELSE {Outcome(FALSE, [g EXCEPT !.failed = TRUE])}
       \cup {Outcome(TRUE, [g EXCEPT !.patched = TRUE, !.listed = "ours",
                                     !.slot = slot, !.failed = slot # "ours"])
               : slot \in {"ours", "untyped", g.slot}}

(* install_post_plugin_hook: vllm.plugins may not import. *)
Hook(g) == IF g.hooked THEN {g} ELSE {g, [g EXCEPT !.hooked = TRUE]}

(* import qwen3_6: its own imports may raise; the registration may not. *)
Import(g) ==
  IF g.imported THEN {Outcome(TRUE, g)}
  ELSE {Outcome(FALSE, g)}
       \cup UNION {IF r.ok THEN {Outcome(TRUE, [h EXCEPT !.imported = TRUE]) : h \in Hook(r.reg)}
                   ELSE {Outcome(TRUE, [r.reg EXCEPT !.imported = TRUE])} : r \in Register(g)}

-----------------------------------------------------------------------------
(* The launcher. *)

(* Fault: any last bucket will do. *)
BucketsValidAnyLast(buckets, maxLen) ==
  /\ \A n \in ToSet(buckets) : n > 0
  /\ \A k \in 1 .. Len(buckets) - 1 : buckets[k] < buckets[k + 1]

BucketsValid(buckets, maxLen) ==
  /\ \A n \in ToSet(buckets) : n > 0
  /\ \A k \in 1 .. Len(buckets) - 1 : buckets[k] < buckets[k + 1]
  /\ Last(buckets) = maxLen

BucketsOf(e) == IF e.bucket = Unset THEN << e.maxLen >> ELSE e.bucket

VisionBlock(e) ==
  IF e.vision # Unset THEN e.vision[1]
  ELSE IF e.maxLen < VisionCap THEN e.maxLen ELSE VisionCap

(* Fault: the number of sequences is not checked. *)
AcceptsAnyNumSeqs(e) ==
  /\ e.maxLen > 0
  /\ BucketsValid(BucketsOf(e), e.maxLen)
  /\ VisionBlock(e) \in 1 .. e.maxLen

(* main's checks: what fails one ends the process. *)
Accepts(e) ==
  /\ e.maxLen > 0 /\ e.numSeqs > 0
  /\ BucketsValid(BucketsOf(e), e.maxLen)
  /\ VisionBlock(e) \in 1 .. e.maxLen

ConfigOf(e) ==
  [maxLen |-> e.maxLen, buckets |-> BucketsOf(e), batchedTokens |-> Last(BucketsOf(e)),
   numSeqs |-> e.numSeqs, vision |-> VisionBlock(e)]

-----------------------------------------------------------------------------
Init ==
  /\ phase = [p \in Procs |-> "off"]
  /\ registry = [p \in Procs |-> Fresh]
  /\ settings \in Settings
  /\ config = NoConfig

(* An interpreter starts: sitecustomize swallows what the import raises. *)
Boot(p, next) ==
  /\ \E r \in Import(registry[p]) : registry' = [registry EXCEPT ![p] = r.reg]
  /\ phase' = [phase EXCEPT ![p] = next]
  /\ UNCHANGED <<settings, config>>

Launch == phase[Launcher] = "off" /\ Boot(Launcher, "main")

(* main, up to vLLM's own main. *)
Main ==
  /\ phase[Launcher] = "main"
  /\ \E i \in Import(registry[Launcher]) : \E r \in Register(i.reg) : \E g \in Hook(r.reg) :
       IF i.ok /\ r.ok /\ Accepts(settings)
       THEN /\ registry' = [registry EXCEPT ![Launcher] = g]
            /\ config' = ConfigOf(settings)
            /\ phase' = [phase EXCEPT ![Launcher] = "vllm"]
       ELSE /\ phase' = [phase EXCEPT ![Launcher] = "dead"]
            /\ UNCHANGED <<registry, config>>
  /\ UNCHANGED settings

(* vLLM starts a process afresh, or forks one with its parent's modules. *)
Spawn(p) ==
  /\ phase[p] = "off" /\ \E q \in Procs : phase[q] = "vllm"
  /\ Boot(p, "vllm")

Fork(p, q) ==
  /\ phase[p] = "off" /\ phase[q] = "vllm"
  /\ registry' = [registry EXCEPT ![p] = registry[q]]
  /\ phase' = [phase EXCEPT ![p] = "vllm"]
  /\ UNCHANGED <<settings, config>>

(* Fault: the wrapped loader leaves _PATCHED set. *)
WrappedLoaderKeepsFlag(g) == {r.reg : r \in Register(g)}

(* What the wrapped loader does once the plugins are loaded. *)
WrappedLoader(g) == {r.reg : r \in Register([g EXCEPT !.patched = FALSE])}

(* load_general_plugins, which may import vLLM's registry anew. *)
LoadPlugins(p) ==
  /\ phase[p] = "vllm"
  /\ \E slot \in {"vllm", registry[p].slot} :
       LET g == [registry[p] EXCEPT !.slot = slot]
       IN  \E h \in (IF g.hooked THEN WrappedLoader(g) ELSE {g}) :
             registry' = [registry EXCEPT ![p] = h]
  /\ UNCHANGED <<phase, settings, config>>

(* load_model: vLLM's own class has no from_configs, and one that is not   *)
(* known to generate text is refused.                                      *)
LoadModel(p) ==
  /\ p # Launcher /\ phase[p] = "vllm"
  /\ phase' = [phase EXCEPT ![p] = IF registry[p].slot = "ours" THEN "serving" ELSE "dead"]
  /\ UNCHANGED <<registry, settings, config>>

Next ==
  \/ Launch
  \/ Main
  \/ \E p \in Workers : Spawn(p)
  \/ \E p \in Workers, q \in Procs : Fork(p, q)
  \/ \E p \in Procs : LoadPlugins(p)
  \/ \E p \in Workers : LoadModel(p)

Spec == Init /\ [][Next]_vars

-----------------------------------------------------------------------------
(* Properties. *)

(* A worker fails to load the model only if its last registration failed,  *)
(* or the hook that repeats it after the plugins never got installed:      *)
(* however it was started and however often plugins put vLLM's class back. *)
(* One that serves has this package's class in both registries.            *)
WorkersLoadOurs ==
  \A p \in Workers :
    /\ phase[p] = "dead" => registry[p].failed \/ ~registry[p].hooked
    /\ phase[p] = "serving" => registry[p].listed = "ours" /\ registry[p].slot = "ours"

(* A configuration that is accepted prefills every prompt the model length *)
(* admits in one step and in some compiled bucket, which the DeltaNet      *)
(* layers depend on.                                                       *)
SingleShotPrefill ==
  config # NoConfig =>
    \A n \in 1 .. config.maxLen :
      /\ n <= config.batchedTokens
      /\ \E k \in ToSet(config.buckets) : n <= k /\ k <= config.batchedTokens
=============================================================================
