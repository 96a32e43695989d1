----------------------------- MODULE MCRunQueue -----------------------------
(***************************************************************************)
(* Small builds for TLC.  In each a recipe has a compile task (C), which    *)
(* must run, and a package task (P), which has a setscene variant; where a  *)
(* graph uses a name otherwise, its comment says so.                        *)
(***************************************************************************)
EXTENDS RunQueueExecute, TLC

CONSTANTS libC, libP, toolC, toolP, appC, appP, image, h1, h2

AllTasks == {libC, libP, toolC, toolP, appC, appP, image}

(* Two branches: app is built with lib and tool, the image holds app.       *)
ForkTasks    == AllTasks \ {appC}
ForkSetscene == <<appP, libP, toolP>>
ForkDepends  ==
  (libC :> {}) @@ (libP :> {libC}) @@ (toolC :> {}) @@ (toolP :> {toolC})
    @@ (appP :> {libP, toolP}) @@ (image :> {appP})

(* app has an early step (appC) and one (toolC) that needs both packages.   *)
MixedTasks    == AllTasks
MixedSetscene == <<appP, libP, toolP>>
MixedDepends  ==
  (libC :> {}) @@ (libP :> {libC}) @@ (toolP :> {}) @@ (appC :> {})
    @@ (toolC :> {libP, toolP}) @@ (appP :> {appC, toolC}) @@ (image :> {appP})

(* One recipe built for two multiconfigs, lib and tool being its two names: *)
(* lib's package is only used by app, and the image needs lib's compile     *)
(* step itself.                                                             *)
TwinTasks    == ForkTasks
TwinSetscene == <<appP, libP, toolP>>
TwinDepends  ==
  (libC :> {}) @@ (libP :> {libC}) @@ (toolC :> {}) @@ (toolP :> {toolC})
    @@ (appP :> {libP}) @@ (image :> {appP, libC, toolP})

Recipe   ==
  [t \in AllTasks |-> CASE t \in {libC, libP}   -> "lib"
                        [] t \in {toolC, toolP} -> "tool"
                        [] t \in {appC, appP}   -> "app"
                        [] OTHER                -> "image"]
TwinName == [t \in AllTasks |-> IF t \in {image, appP} THEN "image" ELSE "lib"]
Name     ==
  [t \in AllTasks |-> CASE t \in {libC, toolC, appC} -> "compile"
                        [] t \in {libP, toolP, appP} -> "package"
                        [] OTHER                     -> "rootfs"]

NoHardDeps == [s \in Setscene |-> {}]
\* lib's package cannot be restored without tool's.
ToolNeeded == [s \in Setscene |-> IF s = toolP THEN {libP} ELSE {}]

NoLimits   == [n \in {"compile", "package", "rootfs"} |-> 0]
OnePackage == [NoLimits EXCEPT !["package"] = 1]

OwnStamps  == [t \in AllTasks |-> t]
\* Two recipes with a shared work directory.
SharedWork == [t \in AllTasks |-> IF t = toolC THEN libC ELSE t]
\* Two multiconfigs with one TMPDIR.
TwinStamps == [SharedWork EXCEPT ![toolP] = libP]

SameHash   == [t \in Tasks |-> h1]
\* A forced target (libP) gets a taint, so a new hash: no stamp has its name.
OtherStamps == {libC, toolP, appP} \X {h1}
=============================================================================
