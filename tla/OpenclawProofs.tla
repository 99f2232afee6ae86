--------------------------- MODULE OpenclawProofs ----------------------------
(***************************************************************************)
(* Theorems about what the agent does around OpenClaw: the bundle it gives *)
(* it to run, and the messages it hands to it.                             *)
(*                                                                         *)
(* BundleApply, for any manifests, any number of versions, any number of   *)
(* faults, and either or both of the callers.                              *)
(*                                                                         *)
(* ChatPath, for any messages, hooks, lost connections and restarts.  What *)
(* is written after a stop was sent after it or was forwarded before, so   *)
(* the stop has nothing left to overtake.                                  *)
(***************************************************************************)
EXTENDS BundleApply, ChatPath, FiniteSetTheorems, TLAPS

USE ManifestAssumption

\* What is rendered from a version is a bundle with nothing missing.
LEMMA RenderedType ==
    ASSUME NEW v \in Versions
    PROVE  /\ Manifest[v].config \in Contents /\ Manifest[v].files \in Contents
           /\ Manifest[v].proxy \in Contents
           /\ Rendered(v) \in Bundle
BY DEF Rendered, Bundle, Part

\* What the copies make of bundles are bundles.
LEMMA CopyTypes ==
    ASSUME TypeOK
    PROVE  CopiedOut \subseteq Bundle /\ Activated \in Bundle
BY DEF TypeOK, CopiedOut, Activated, Bundle, Part

\* Copying out a whole bundle gives that bundle, and making it live gives it again.
LEMMA WholeCopy ==
    ASSUME NEW v \in Versions
    PROVE  /\ staged = Rendered(v) => CopiedOut = {Rendered(v)}
           /\ template = Rendered(v) => Activated = Rendered(v)
<1>1. Rendered(v).config # None /\ Rendered(v).files # None
  BY RenderedType DEF Rendered, None
<1>2. ASSUME staged = Rendered(v) PROVE CopiedOut = {Rendered(v)}
  <2>1. CopiedOut = [config : {Rendered(v).config}, files : {Rendered(v).files}]
    BY <1>1, <1>2 DEF CopiedOut
  <2>2. \A b : b \in CopiedOut <=> b = [config |-> Rendered(v).config, files |-> Rendered(v).files]
    BY <2>1
  <2>3. \A b : b \in CopiedOut <=> b = Rendered(v)
    BY <2>2 DEF Rendered
  <2> QED  BY <2>3
<1>3. ASSUME template = Rendered(v) PROVE Activated = Rendered(v)
  BY <1>1, <1>3 DEF Activated, Rendered
<1> QED
  BY <1>2, <1>3

\* Nothing is on disk or at work at first.
LEMMA InitIInv == Init => IInv
<1> SUFFICES ASSUME Init PROVE IInv
  OBVIOUS
<1> USE DEF Init, NoJob, Busy, At
<1>1. TypeOK
  BY DEF TypeOK, Job, NoBundle, Bundle, Part, Ops, None, Versions
<1> QED
  BY <1>1 DEF IInv, NoneAloneOfTwo, StepsOfOps, Progress, SettledIsServed


\* Meeting another job changes nothing of a job but what it knows of the others.
LEMMA MetType ==
    ASSUME TypeOK, NEW d \in Callers
    PROVE  Met(d) \in Job /\ Met(d).op = job[d].op /\ Met(d).v = job[d].v
<1>1. ASSUME NEW j \in Job
      PROVE  /\ [j EXCEPT !.alone = FALSE] \in Job
             /\ [j EXCEPT !.alone = FALSE].op = j.op /\ [j EXCEPT !.alone = FALSE].v = j.v
  BY <1>1 DEF Job
<1>2. job[d] \in Job  BY DEF TypeOK
<1> QED  BY <1>1, <1>2 DEF Met

\* The job of an idle caller is one.
LEMMA NoJobType == NoJob \in Job
BY DEF NoJob, Job, None

\* Every job but a stop has a version to apply, from its first step to its last.
LEMMA JobHasVersion ==
    ASSUME IInv, NEW c \in Callers, Busy(c), ~At(c, "ctl")
    PROVE  job[c].v \in Versions
BY DEF IInv, TypeOK, Job, StepsOfOps, Busy, At

\* One step of a command.
LEMMA CommandKeeps ==
    ASSUME IInv, NEW c \in Callers, Command(c)
    PROVE  IInv'
<1> USE RenderedType, JobHasVersion DEF IInv, GoTo, Finish, At, Busy, NoJob
<1>1. CASE RefusedWhileRunning(c)
  <2> USE <1>1 DEF RefusedWhileRunning, TypeOK, Job
  <2>1. TypeOK'  BY DEF Ops, None, Bundle, Part, Disturb
  <2>2. NoneAloneOfTwo' /\ StepsOfOps'  BY DEF NoneAloneOfTwo, StepsOfOps
  <2>3. Progress'
    BY DEF NoneAloneOfTwo, StepsOfOps, Progress, SettledIsServed, Served, Rendered, Bundle
  <2>4. SettledIsServed'
    BY DEF NoneAloneOfTwo, StepsOfOps, Progress, SettledIsServed, Served, UnderWay, Rendered
  <2> QED  BY <2>1, <2>2, <2>3, <2>4
<1>2. CASE RefusedNewProxy(c)
  <2> USE <1>2 DEF RefusedNewProxy, TypeOK, Job
  <2>1. TypeOK'  BY DEF Ops, None, Bundle, Part, Disturb
  <2>2. NoneAloneOfTwo' /\ StepsOfOps'  BY DEF NoneAloneOfTwo, StepsOfOps
  <2>3. Progress'
    BY DEF NoneAloneOfTwo, StepsOfOps, Progress, SettledIsServed, Served, Rendered, Bundle
  <2>4. SettledIsServed'
    BY DEF NoneAloneOfTwo, StepsOfOps, Progress, SettledIsServed, Served, UnderWay, Rendered
  <2> QED  BY <2>1, <2>2, <2>3, <2>4
<1>17. CASE ProbeErrs(c)
  <2> USE <1>17 DEF ProbeErrs, TypeOK, Job
  <2>1. TypeOK'  BY DEF Ops, None, Disturb
  <2>2. NoneAloneOfTwo' /\ StepsOfOps'  BY DEF NoneAloneOfTwo, StepsOfOps
  <2>3. Progress'
    BY DEF NoneAloneOfTwo, StepsOfOps, Progress, SettledIsServed, Served, Rendered, Bundle
  <2>4. SettledIsServed'
    BY DEF NoneAloneOfTwo, StepsOfOps, Progress, SettledIsServed, Served, UnderWay, Rendered
  <2> QED  BY <2>1, <2>2, <2>3, <2>4
<1>3. CASE Unchanged(c)
  <2> USE <1>3 DEF Unchanged, TypeOK, Job
  <2>1. TypeOK'  BY DEF Ops, None, Bundle, Part, Disturb
  <2>2. NoneAloneOfTwo' /\ StepsOfOps'  BY DEF NoneAloneOfTwo, StepsOfOps
  <2>3. Progress'
    BY DEF NoneAloneOfTwo, StepsOfOps, Progress, SettledIsServed, Served, Rendered, Bundle
  <2>4. SettledIsServed'
    BY DEF NoneAloneOfTwo, StepsOfOps, Progress, SettledIsServed, Served, UnderWay, Rendered
  <2> QED  BY <2>1, <2>2, <2>3, <2>4
<1>4. CASE Proceeds(c)
  <2> USE <1>4 DEF Proceeds, TypeOK, Job
  <2>1. TypeOK'  BY DEF Ops, None, Bundle, Part, Disturb
  <2>2. NoneAloneOfTwo' /\ StepsOfOps'  BY DEF NoneAloneOfTwo, StepsOfOps
  <2>3. Progress'
    BY DEF NoneAloneOfTwo, StepsOfOps, Progress, SettledIsServed, Served, Rendered, Bundle
  <2>4. SettledIsServed'
    BY DEF NoneAloneOfTwo, StepsOfOps, Progress, SettledIsServed, Served, UnderWay, Rendered
  <2> QED  BY <2>1, <2>2, <2>3, <2>4
<1>5. CASE WriteConfig(c)
  <2> USE <1>5 DEF WriteConfig, TypeOK, Job
  <2>1. TypeOK'
    <3>1. staged' \in Bundle  BY DEF Bundle, Part
    <3>2. job' \in [Callers -> Job]  OBVIOUS
    <3>3. \A d \in Callers : job'[d].op = job[d].op /\ job'[d].v = job[d].v  OBVIOUS
    <3>4. \A d \in Callers : job'[d].op \notin {"none", "stop"} => job'[d].v # None  BY <3>3
    <3> QED  BY <3>1, <3>2, <3>4
  <2>2. NoneAloneOfTwo' /\ StepsOfOps'  BY DEF NoneAloneOfTwo, StepsOfOps
  <2>3. Progress'
    BY DEF NoneAloneOfTwo, StepsOfOps, Progress, SettledIsServed, Served, Rendered, Bundle
  <2>4. SettledIsServed'
    BY DEF NoneAloneOfTwo, StepsOfOps, Progress, SettledIsServed, Served, UnderWay, Rendered
  <2> QED  BY <2>1, <2>2, <2>3, <2>4
<1>6. CASE ClearFiles(c)
  <2> USE <1>6 DEF ClearFiles, TypeOK, Job
  <2>1. TypeOK'  BY DEF Ops, None, Bundle, Part, Disturb
  <2>2. NoneAloneOfTwo' /\ StepsOfOps'  BY DEF NoneAloneOfTwo, StepsOfOps
  <2>3. Progress'
    BY DEF NoneAloneOfTwo, StepsOfOps, Progress, SettledIsServed, Served, Rendered, Bundle
  <2>4. SettledIsServed'
    BY DEF NoneAloneOfTwo, StepsOfOps, Progress, SettledIsServed, Served, UnderWay, Rendered
  <2> QED  BY <2>1, <2>2, <2>3, <2>4
<1>7. CASE WriteFiles(c)
  <2> USE <1>7 DEF WriteFiles, TypeOK, Job
  <2>1. TypeOK'  BY DEF Ops, None, Bundle, Part, Disturb
  <2>2. NoneAloneOfTwo' /\ StepsOfOps'  BY DEF NoneAloneOfTwo, StepsOfOps
  <2>3. Progress'
    BY DEF NoneAloneOfTwo, StepsOfOps, Progress, SettledIsServed, Served, Rendered, Bundle
  <2>4. SettledIsServed'
    BY DEF NoneAloneOfTwo, StepsOfOps, Progress, SettledIsServed, Served, UnderWay, Rendered
  <2> QED  BY <2>1, <2>2, <2>3, <2>4
<1>8. CASE WriteEnv(c)
  <2> USE <1>8 DEF WriteEnv, TypeOK, Job
  <2>1. TypeOK'  BY DEF Ops, None, Bundle, Part, Disturb
  <2>2. NoneAloneOfTwo' /\ StepsOfOps'  BY DEF NoneAloneOfTwo, StepsOfOps
  <2>3. Progress'
    BY DEF NoneAloneOfTwo, StepsOfOps, Progress, SettledIsServed, Served, Rendered, Bundle
  <2>4. SettledIsServed'
    BY DEF NoneAloneOfTwo, StepsOfOps, Progress, SettledIsServed, Served, UnderWay, Rendered
  <2> QED  BY <2>1, <2>2, <2>3, <2>4
<1>9. CASE CtlStart(c)
  <2> USE <1>9 DEF CtlStart, TypeOK, Job
  <2>1. TypeOK'
    <3>1. CASE gateway = "stopped"  BY <3>1
    <3>2. CASE gateway # "stopped"
      <4>1. job' \in [Callers -> Job]  BY <3>2, NoJobType
      <4>2. \A d \in Callers : job'[d] = job[d] \/ job'[d].op = "none"  BY <3>2
      <4> QED  BY <3>2, <4>1, <4>2
    <3> QED  BY <3>1, <3>2
  <2>2. NoneAloneOfTwo' /\ StepsOfOps'  BY DEF NoneAloneOfTwo, StepsOfOps
  <2>3. Progress'
    BY DEF NoneAloneOfTwo, StepsOfOps, Progress, SettledIsServed, Served, Rendered, Bundle
  <2>4. SettledIsServed'
    BY DEF NoneAloneOfTwo, StepsOfOps, Progress, SettledIsServed, Served, UnderWay, Rendered
  <2> QED  BY <2>1, <2>2, <2>3, <2>4
<1>10. CASE CtlRestart(c)
  <2> USE <1>10 DEF CtlRestart, TypeOK, Job
  <2>1. TypeOK'  BY DEF Ops, None, Bundle, Part, Disturb
  <2>2. NoneAloneOfTwo' /\ StepsOfOps'  BY DEF NoneAloneOfTwo, StepsOfOps
  <2>3. Progress'
    BY DEF NoneAloneOfTwo, StepsOfOps, Progress, SettledIsServed, Served, Rendered, Bundle
  <2>4. SettledIsServed'
    BY DEF NoneAloneOfTwo, StepsOfOps, Progress, SettledIsServed, Served, UnderWay, Rendered
  <2> QED  BY <2>1, <2>2, <2>3, <2>4
<1>11. CASE CtlStop(c)
  <2> USE <1>11 DEF CtlStop, TypeOK, Job
  <2>1. TypeOK'  BY DEF Ops, None, Bundle, Part, Disturb
  <2>2. NoneAloneOfTwo' /\ StepsOfOps'  BY DEF NoneAloneOfTwo, StepsOfOps
  <2>3. Progress'
    BY DEF NoneAloneOfTwo, StepsOfOps, Progress, SettledIsServed, Served, Rendered, Bundle
  <2>4. SettledIsServed'
    BY DEF NoneAloneOfTwo, StepsOfOps, Progress, SettledIsServed, Served, UnderWay, Rendered
  <2> QED  BY <2>1, <2>2, <2>3, <2>4
<1>12. CASE ApplyMaterializes(c)
  <2> USE <1>12 DEF ApplyMaterializes, TypeOK, Job
  <2>1. TypeOK'  BY CopyTypes DEF Ops, None, Bundle, Part, Disturb
  <2>2. NoneAloneOfTwo' /\ StepsOfOps'  BY DEF NoneAloneOfTwo, StepsOfOps
  <2>3. Progress'
    BY WholeCopy, JobHasVersion DEF NoneAloneOfTwo, StepsOfOps, Progress, SettledIsServed, Served,
       Rendered, Bundle
  <2>4. SettledIsServed'
    BY WholeCopy, JobHasVersion DEF NoneAloneOfTwo, StepsOfOps, Progress, SettledIsServed, Served,
       UnderWay, Rendered
  <2> QED  BY <2>1, <2>2, <2>3, <2>4
<1>13. CASE ApplyActivates(c)
  <2> USE <1>13 DEF ApplyActivates, TypeOK, Job
  <2>1. TypeOK'  BY CopyTypes DEF Ops, None, Bundle, Part, Disturb
  <2>2. NoneAloneOfTwo' /\ StepsOfOps'  BY DEF NoneAloneOfTwo, StepsOfOps
  <2>3. Progress'
    BY WholeCopy, JobHasVersion DEF NoneAloneOfTwo, StepsOfOps, Progress, SettledIsServed, Served,
       Rendered, Bundle
  <2>4. SettledIsServed'
    BY WholeCopy, JobHasVersion DEF NoneAloneOfTwo, StepsOfOps, Progress, SettledIsServed, Served,
       UnderWay, Rendered
  <2> QED  BY <2>1, <2>2, <2>3, <2>4
<1>14. CASE Record(c)
  <2> USE <1>14 DEF Record, TypeOK, Job
  <2>1. TypeOK'  BY DEF Ops, None, Bundle, Part, Disturb
  <2>2. NoneAloneOfTwo' /\ StepsOfOps'  BY DEF NoneAloneOfTwo, StepsOfOps
  <2>3. Progress'
    BY DEF NoneAloneOfTwo, StepsOfOps, Progress, SettledIsServed, Served, Rendered, Bundle
  <2>4. SettledIsServed'
    BY DEF NoneAloneOfTwo, StepsOfOps, Progress, SettledIsServed, Served, UnderWay, Rendered
  <2> QED  BY <2>1, <2>2, <2>3, <2>4
<1>15. CASE RecordUnchanged(c)
  <2> USE <1>15 DEF RecordUnchanged, TypeOK, Job
  <2>1. TypeOK'  BY DEF Ops, None, Bundle, Part, Disturb
  <2>2. NoneAloneOfTwo' /\ StepsOfOps'  BY DEF NoneAloneOfTwo, StepsOfOps
  <2>3. Progress'
    BY DEF NoneAloneOfTwo, StepsOfOps, Progress, SettledIsServed, Served, Rendered, Bundle
  <2>4. SettledIsServed'
    BY DEF NoneAloneOfTwo, StepsOfOps, Progress, SettledIsServed, Served, UnderWay, Rendered
  <2> QED  BY <2>1, <2>2, <2>3, <2>4
<1>16. CASE Fails(c)
  <2> USE <1>16 DEF Fails, TypeOK, Job
  <2>1. TypeOK'  BY DEF Ops, None, Bundle, Part, Disturb
  <2>2. NoneAloneOfTwo' /\ StepsOfOps'  BY DEF NoneAloneOfTwo, StepsOfOps
  <2>3. Progress'
    BY DEF NoneAloneOfTwo, StepsOfOps, Progress, SettledIsServed, Served, Rendered, Bundle
  <2>4. SettledIsServed'
    BY DEF NoneAloneOfTwo, StepsOfOps, Progress, SettledIsServed, Served, UnderWay, Rendered
  <2> QED  BY <2>1, <2>2, <2>3, <2>4
<1> QED
  BY <1>1, <1>2, <1>3, <1>4, <1>5, <1>6, <1>7, <1>8, <1>9, <1>10, <1>11, <1>12, <1>13, <1>14,
     <1>15, <1>16, <1>17 DEF Command

\* A posted manifest, a boot, a crash, the end of the agent, a new version in the cloud.
LEMMA OutsideKeeps ==
    ASSUME IInv, ManifestPosted \/ BootMaterializes \/ BootActivates \/ BootRefused \/ GatewayCrashes \/ AgentDies \/ OwnerChanges
    PROVE  IInv'
<1> USE RenderedType DEF IInv, At, Busy, NoJob
<1>1. CASE ManifestPosted
  <2> USE <1>1 DEF ManifestPosted, TypeOK, Job
  <2>1. TypeOK'
    <3>1. PICK v \in Versions : saved' = v /\ env' = Manifest[v].proxy  OBVIOUS
    <3>2. saved' \in Versions /\ env' \in Part  BY <3>1 DEF Part
    <3>3. job' \in [Callers -> Job]
      <4>1. \A d \in Callers : Met(d) \in Job  BY MetType
      <4> QED  BY <4>1
    <3>4. \A d \in Callers : job'[d].op = job[d].op /\ job'[d].v = job[d].v  BY DEF Met
    <3> QED  BY <3>2, <3>3, <3>4
  <2>2. NoneAloneOfTwo' /\ StepsOfOps'  BY DEF NoneAloneOfTwo, StepsOfOps, Met
  <2>3. Progress'  BY DEF StepsOfOps, Progress, Served, Rendered, Met
  <2>4. SettledIsServed'  BY DEF SettledIsServed, Served, UnderWay, Rendered, Met
  <2> QED  BY <2>1, <2>2, <2>3, <2>4
<1>2. CASE BootMaterializes
  <2> USE <1>2 DEF BootMaterializes, TypeOK, Job
  <2>1. TypeOK'  BY CopyTypes DEF Ops, None, Bundle, Part, Disturb, Met, Versions
  <2>2. NoneAloneOfTwo' /\ StepsOfOps'  BY DEF NoneAloneOfTwo, StepsOfOps, Met
  <2>3. Progress'  BY WholeCopy, JobHasVersion DEF Progress, Served, Rendered, Met
  <2>4. SettledIsServed'
    BY WholeCopy, JobHasVersion DEF SettledIsServed, Served, UnderWay, Rendered, Met
  <2> QED  BY <2>1, <2>2, <2>3, <2>4
<1>3. CASE BootActivates
  <2> USE <1>3 DEF BootActivates, TypeOK, Job
  <2>1. TypeOK'  BY CopyTypes DEF Ops, None, Bundle, Part, Disturb, Met, Versions
  <2>2. NoneAloneOfTwo' /\ StepsOfOps'  BY DEF NoneAloneOfTwo, StepsOfOps, Met
  <2>3. Progress'  BY WholeCopy, JobHasVersion DEF Progress, Served, Rendered, Met
  <2>4. SettledIsServed'
    BY WholeCopy, JobHasVersion DEF SettledIsServed, Served, UnderWay, Rendered, Met
  <2> QED  BY <2>1, <2>2, <2>3, <2>4
<1>7. CASE BootRefused
  <2> USE <1>7 DEF BootRefused, TypeOK, Job
  <2>1. TypeOK'  BY CopyTypes DEF Ops, None, Bundle, Part, Disturb, Met, Versions
  <2>2. NoneAloneOfTwo' /\ StepsOfOps'  BY DEF NoneAloneOfTwo, StepsOfOps, Met
  <2>3. Progress'  BY WholeCopy, JobHasVersion DEF Progress, Served, Rendered, Met
  <2>4. SettledIsServed'
    BY WholeCopy, JobHasVersion DEF SettledIsServed, Served, UnderWay, Rendered, Met
  <2> QED  BY <2>1, <2>2, <2>3, <2>4
<1>4. CASE GatewayCrashes
  <2> USE <1>4 DEF GatewayCrashes, TypeOK, Job
  <2>1. TypeOK'  BY DEF Ops, None, Bundle, Part, Disturb, Met, Versions
  <2>2. NoneAloneOfTwo' /\ StepsOfOps'  BY DEF NoneAloneOfTwo, StepsOfOps, Met
  <2>3. Progress'  BY DEF Progress, Served, Rendered, Met
  <2>4. SettledIsServed'  BY DEF SettledIsServed, Served, UnderWay, Rendered, Met
  <2> QED  BY <2>1, <2>2, <2>3, <2>4
<1>5. CASE AgentDies
  <2> USE <1>5 DEF AgentDies, TypeOK, Job
  <2>1. TypeOK'  BY DEF Ops, None, Bundle, Part, Disturb, Met, Versions
  <2>2. NoneAloneOfTwo' /\ StepsOfOps'  BY DEF NoneAloneOfTwo, StepsOfOps, Met
  <2>3. Progress'  BY DEF Progress, Served, Rendered, Met
  <2>4. SettledIsServed'  BY DEF SettledIsServed, Served, UnderWay, Rendered, Met
  <2> QED  BY <2>1, <2>2, <2>3, <2>4
<1>6. CASE OwnerChanges
  <2> USE <1>6 DEF OwnerChanges, TypeOK, Job
  <2>1. TypeOK'  BY DEF Ops, None, Bundle, Part, Disturb, Met, Versions
  <2>2. NoneAloneOfTwo' /\ StepsOfOps'  BY DEF NoneAloneOfTwo, StepsOfOps, Met
  <2>3. Progress'  BY DEF Progress, Served, Rendered, Met
  <2>4. SettledIsServed'  BY DEF SettledIsServed, Served, UnderWay, Rendered, Met
  <2> QED  BY <2>1, <2>2, <2>3, <2>4
<1> QED
  BY <1>1, <1>2, <1>3, <1>4, <1>5, <1>6, <1>7

\* A command begins, alone or not.
LEMMA BeginsKeep ==
    ASSUME IInv, NEW c \in Callers, NEW op \in Ops, ExecutorBegins(c, op) \/ LocalBegins(c, op)
    PROVE  IInv'
<1> USE RenderedType DEF IInv, At, Busy, NoJob, Take, Met
<1>1. CASE ExecutorBegins(c, op)
  <2> USE <1>1 DEF ExecutorBegins, TypeOK, Job
  <2>1. TypeOK'
    <3>1. Alone(c) \in BOOLEAN  BY DEF Alone
    <3>2. job' \in [Callers -> Job]
      <4>1. \A d \in Callers : Met(d) \in Job  BY MetType
      <4>2. job'[c] \in Job  BY <3>1 DEF Ops, None
      <4> QED  BY <4>1, <4>2
    <3>3. \A d \in Callers : job'[d].op \notin {"none", "stop"} => job'[d].v # None  BY DEF Ops
    <3> QED  BY <3>2, <3>3
  <2>2. NoneAloneOfTwo' /\ StepsOfOps'  BY DEF NoneAloneOfTwo, StepsOfOps, Ops, Alone
  <2>3. Progress'  BY DEF Progress, Served, Rendered, Ops
  <2>4. SettledIsServed'  BY DEF SettledIsServed, Served, UnderWay, Rendered, Ops
  <2> QED  BY <2>1, <2>2, <2>3, <2>4
<1>2. CASE LocalBegins(c, op)
  <2> USE <1>2 DEF LocalBegins, TypeOK, Job
  <2>1. TypeOK'
    <3>1. Alone(c) \in BOOLEAN  BY DEF Alone
    <3>2. job' \in [Callers -> Job]
      <4>1. \A d \in Callers : Met(d) \in Job  BY MetType
      <4>2. job'[c] \in Job  BY <3>1 DEF Ops, None
      <4> QED  BY <4>1, <4>2
    <3>3. \A d \in Callers : job'[d].op \notin {"none", "stop"} => job'[d].v # None  BY DEF Ops
    <3> QED  BY <3>2, <3>3
  <2>2. NoneAloneOfTwo' /\ StepsOfOps'  BY DEF NoneAloneOfTwo, StepsOfOps, Ops, Alone
  <2>3. Progress'  BY DEF Progress, Served, Rendered, Ops
  <2>4. SettledIsServed'  BY DEF SettledIsServed, Served, UnderWay, Rendered, Ops
  <2> QED  BY <2>1, <2>2, <2>3, <2>4
<1> QED
  BY <1>1, <1>2

\* Every step of the specification.
LEMMA NextKeeps == IInv /\ [Next]_vars => IInv'
<1> SUFFICES ASSUME IInv, [Next]_vars PROVE IInv'
  OBVIOUS
<1>1. CASE UNCHANGED vars
  BY <1>1 DEF vars, IInv, TypeOK, NoneAloneOfTwo, StepsOfOps, Progress, SettledIsServed, Served,
              UnderWay, Busy, At
<1>2. CASE Next
  BY <1>2, CommandKeeps, OutsideKeeps, BeginsKeep DEF Next
<1> QED
  BY <1>1, <1>2

\* The strengthening that relates a job's step to the volumes it has written holds throughout.
THEOREM Invariant == Spec => []IInv
BY InitIInv, NextKeeps, PTL DEF Spec

\* The state of the two volumes, of OpenClaw and of the commands stays what the code can hold.
THEOREM TypeCorrect == Spec => []TypeOK
<1>1. IInv => TypeOK  BY DEF IInv
<1> QED  BY <1>1, Invariant, PTL

\* Once one caller alone has written a bundle to the end, OpenClaw runs with the version reported
\* as applied whenever it answers, for any manifests and however many steps fail later on.
THEOREM SettledStaysLive == Spec => []SettledIsLive
<1>1. IInv => SettledIsLive  BY DEF IInv, SettledIsServed, Served, SettledIsLive
<1> QED  BY <1>1, Invariant, PTL

\* A job that met nobody and ends with a version recorded did so in one of two ways.
LEMMA RecordingSteps ==
    ASSUME IInv, [Next]_vars, NEW c \in Callers, applied' # applied, Busy(c), ~Busy(c)', job[c].alone
    PROVE  Record(c) \/ RecordUnchanged(c)
<1> USE DEF Busy, At
<1>1. Next  BY DEF vars
<1>2. PICK d \in Callers : Record(d) \/ RecordUnchanged(d)
  BY <1>1 DEF Next, Command, ExecutorBegins, LocalBegins, ManifestPosted, RefusedWhileRunning,
       RefusedNewProxy, ProbeErrs, Unchanged, Proceeds, WriteConfig, ClearFiles, WriteFiles, WriteEnv,
       CtlStart, CtlRestart, CtlStop, ApplyMaterializes, ApplyActivates, Fails,
       BootMaterializes, BootActivates, BootRefused, GatewayCrashes, AgentDies, OwnerChanges
<1>3. d = c
  BY <1>2 DEF Record, RecordUnchanged, IInv, NoneAloneOfTwo
<1> QED
  BY <1>2, <1>3

\* No version is recorded over a bundle that is not wholly on disk, whatever failed before.
THEOREM RecordedStaysOnDisk == Spec => RecordedIsOnDisk
<1>1. ASSUME IInv, [Next]_vars, NEW c \in Callers,
             applied' # applied, Busy(c), ~Busy(c)', job[c].alone
      PROVE  staged = Rendered(applied')
  <2>1. Record(c) \/ RecordUnchanged(c)  BY <1>1, RecordingSteps
  <2> QED  BY <1>1, <2>1 DEF IInv, Progress, Served, Record, RecordUnchanged, At
<1>2. IInv /\ [Next]_vars
        => [\A c \in Callers : applied' # applied /\ Busy(c) /\ ~Busy(c)' /\ job[c].alone
              => staged = Rendered(applied')]_vars
  BY <1>1
<1> QED  BY <1>2, Invariant, PTL DEF Spec, RecordedIsOnDisk

\* update_manifest, left alone, writes the proxy that is already in runtime.env.
THEOREM ProxyKept == Spec => UpdateKeepsProxy
<1>1. IInv => [\A c \in Callers : WriteEnv(c) /\ job[c].op = "update" /\ job[c].alone => env' = env]_vars
  BY DEF IInv, Progress, WriteEnv, At
<1> QED  BY <1>1, Invariant, PTL DEF Spec, UpdateKeepsProxy

-----------------------------------------------------------------------------
(* ChatPath.                                                               *)

\* A set that is laid out as a sequence: the sequence holds nothing else.
LEMMA SetToSeqIs ==
  ASSUME NEW S, IsFiniteSet(S)
  PROVE  SetToSeq(S) \in Seq(S) /\ ToSet(SetToSeq(S)) \subseteq S
  <1> DEFINE n == Cardinality(S)
  <1>1. n \in Nat /\ ExistsBijection(1..n, S)  BY FS_CardinalityType
  <1>2. \E f \in [1..n -> S] : IsInjective(f)
    BY <1>1 DEF ExistsBijection, Bijection, Injection
  <1>3. SetToSeq(S) \in [1..n -> S]  BY <1>2 DEF SetToSeq
  <1> HIDE DEF n
  <1> QED BY <1>1, <1>3 DEF ToSet

\* The first of a sequence taken away.
LEMMA FirstTaken ==
  ASSUME NEW S, NEW s \in Seq(S), s # <<>>
  PROVE  /\ s[1] \in S /\ s[1] \in ToSet(s)
         /\ RemoveAt(s, 1) \in Seq(S) /\ ToSet(RemoveAt(s, 1)) \subseteq ToSet(s)
         /\ \A i \in DOMAIN RemoveAt(s, 1) : i + 1 \in DOMAIN s /\ RemoveAt(s, 1)[i] = s[i + 1]
  <1>1. Len(s) \in Nat \ {0}  OBVIOUS
  <1>2. RemoveAt(s, 1) = SubSeq(s, 2, Len(s))
    <2>1. SubSeq(s, 1, 1 - 1) = <<>>  OBVIOUS
    <2>2. SubSeq(s, 1 + 1, Len(s)) \in Seq(S)  BY <1>1
    <2> QED BY <2>1, <2>2 DEF RemoveAt
  <1>3. SubSeq(s, 2, Len(s)) = Tail(s)
    BY <1>1
  <1>4. Tail(s) \in Seq(S) /\ Len(Tail(s)) = Len(s) - 1 /\ DOMAIN Tail(s) = 1..(Len(s) - 1)
    BY <1>1
  <1>5. \A i \in 1..(Len(s) - 1) : Tail(s)[i] = s[i + 1] /\ i + 1 \in 1..Len(s)
    BY <1>1
  <1>6. s[1] \in S /\ s[1] \in ToSet(s)
    BY <1>1 DEF ToSet
  <1>7. ToSet(Tail(s)) \subseteq ToSet(s)
    BY <1>4, <1>5 DEF ToSet
  <1>8. \A i \in DOMAIN Tail(s) : i + 1 \in DOMAIN s /\ Tail(s)[i] = s[i + 1]
    BY <1>4, <1>5
  <1>9. RemoveAt(s, 1) = Tail(s)
    BY <1>2, <1>3
  <1> QED BY <1>4, <1>6, <1>7, <1>8, <1>9, Zenon

\* One more event at the end.
LEMMA OneMore ==
  ASSUME NEW S, NEW s \in Seq(S), NEW e \in S
  PROVE  /\ Append(s, e) \in Seq(S) /\ ToSet(Append(s, e)) = ToSet(s) \cup {e}
         /\ DOMAIN Append(s, e) = 1..(Len(s) + 1) /\ DOMAIN s = 1..Len(s) /\ Len(s) \in Nat
         /\ Append(s, e)[Len(s) + 1] = e /\ \A i \in DOMAIN s : Append(s, e)[i] = s[i]
  <1>1. /\ Append(s, e) \in Seq(S) /\ DOMAIN Append(s, e) = 1..(Len(s) + 1)
        /\ DOMAIN s = 1..Len(s) /\ Len(s) \in Nat
        /\ Append(s, e)[Len(s) + 1] = e /\ \A i \in DOMAIN s : Append(s, e)[i] = s[i]
    OBVIOUS
  <1>2. ToSet(Append(s, e)) = ToSet(s) \cup {e}
    <2>1. \A i \in 1..(Len(s) + 1) : i \in 1..Len(s) \/ i = Len(s) + 1  BY <1>1
    <2>2. \A i \in 1..Len(s) : i \in 1..(Len(s) + 1)  BY <1>1
    <2>3. Len(s) + 1 \in 1..(Len(s) + 1)  BY <1>1
    <2> QED BY <1>1, <2>1, <2>2, <2>3 DEF ToSet
  <1> QED BY <1>1, <1>2

\* At first nothing was sent.
LEMMA PathInitIs == PathInit => PathIInv
  BY DEF PathInit, LifeInit, PathIInv, RoadsTyped, OnItsRoad, OnceSent, Sent, StopsInOrder,
     NoneBehind,
         Roads, Nothing, Events, ToSet, ChatEvents

\* The events there are.
LEMMA EventsAre ==
  /\ \A m \in Msgs : Live(m) \in Events /\ CatchUp(m) \in Events
  /\ \A h \in Hooks : Hook(h) \in Events
  /\ Nothing \in Events /\ \A r : Cancel(r) \in Events
  BY DEF Live, CatchUp, Hook, Nothing, Cancel, Events

\* Nothing moves on the roads; more may be forwarded, sent or closed.
LEMMA RoadsRest ==
  ASSUME PathIInv, UNCHANGED <<roads, wire, forwarded>>, stream' \subseteq roads, late' \subseteq Msgs,
         cloud' \in [Msgs -> {"unsent", "processing", "closed"}], \A m \in Msgs : Sent(m) => Sent(m)',
         handling' = handling
  PROVE  PathIInv'
  BY DEF PathIInv, RoadsTyped, OnItsRoad, OnceSent, StopsInOrder, NoneBehind

\* An event was handled.
LEMMA HandledKeeps ==
  ASSUME PathIInv, NEW r \in Roads, Handled(r), UNCHANGED <<roads, stream, wire, cloud>>, late' \subseteq Msgs,
         forwarded' = forwarded \/ \E m \in Msgs : Message(r, m) /\ forwarded' = forwarded \cup {m}
  PROVE  PathIInv'
  <1>1. \A q \in Roads : handling'[q] = handling[q] \/ handling'[q] = Nothing
    BY DEF Handled, PathIInv, RoadsTyped
  <1>2. RoadsTyped'
    BY EventsAre DEF Handled, PathIInv, RoadsTyped
  <1>3. OnItsRoad'
    BY <1>1 DEF PathIInv, OnItsRoad
  <1>4. forwarded \subseteq forwarded' /\ \A m \in forwarded' : Sent(m)
    BY DEF PathIInv, OnceSent, Message, Live, CatchUp, ChatEvents
  <1>5. OnceSent'
    BY <1>1, <1>4 DEF PathIInv, OnceSent, Sent, Nothing, ChatEvents
  <1>6. StopsInOrder'
    BY <1>1, <1>4 DEF PathIInv, StopsInOrder, NoneBehind, Nothing
  <1> QED BY <1>2, <1>3, <1>5, <1>6 DEF PathIInv

\* Something was written: a message just sent or forwarded before, a stop, a hook.
LEMMA WritesKeeps ==
  ASSUME PathIInv, NEW r \in stream, NEW e \in Events, Writes(r, e),
         UNCHANGED <<roads, stream, handling, forwarded, late>>,
         cloud' \in [Msgs -> {"unsent", "processing", "closed"}], \A m \in Msgs : Sent(m) => Sent(m)',
         e.kind \in ChatEvents => \A m \in e.of : m \in Msgs /\ Sent(m)',
         \A m \in Msgs : e = Live(m) => m \in forwarded \/ ~Sent(m)
  PROVE  PathIInv'
  <1>1. r \in Roads /\ wire[r] \in Seq(Events) /\ wire \in [Roads -> Seq(Events)]
    BY DEF PathIInv, RoadsTyped, Roads
  <1>2. wire'[r] = Append(wire[r], e) /\ \A q \in Roads \ {r} : wire'[q] = wire[q]
    BY <1>1 DEF Writes
  <1>3. /\ wire'[r] \in Seq(Events) /\ ToSet(wire'[r]) = ToSet(wire[r]) \cup {e}
        /\ DOMAIN wire'[r] = 1..(Len(wire[r]) + 1) /\ DOMAIN wire[r] = 1..Len(wire[r])
        /\ Len(wire[r]) \in Nat
        /\ wire'[r][Len(wire[r]) + 1] = e /\ \A i \in DOMAIN wire[r] : wire'[r][i] = wire[r][i]
    BY <1>1, <1>2, OneMore
  <1>4. RoadsTyped'
    BY <1>1, <1>3 DEF Writes, PathIInv, RoadsTyped
  <1>5. OnItsRoad'
    BY DEF PathIInv, OnItsRoad
  <1>6. OnceSent'
    BY <1>2, <1>3 DEF PathIInv, OnceSent, RoadsTyped
  <1>7. ASSUME NEW s, s \in {handling[r]} \cup ToSet(wire[r]), NEW n \in Nat, NoneBehind(s, r, n)
        PROVE  NoneBehind(s, r, n)'
    <2> SUFFICES ASSUME s.kind = "cancel", NEW m \in s.of \ forwarded, NEW i \in DOMAIN wire'[r], i > n
                 PROVE  wire'[r][i] # Live(m)
      BY DEF NoneBehind
    <2>1. CASE i \in DOMAIN wire[r]
      BY <1>3, <1>7, <2>1 DEF NoneBehind
    <2>2. CASE i \notin DOMAIN wire[r]
      <3>1. i = Len(wire[r]) + 1  BY <1>3, <2>2
      <3>2. m \in Msgs /\ Sent(m)  BY <1>1, <1>7 DEF PathIInv, OnceSent, ChatEvents
      <3> QED BY <1>3, <3>1, <3>2
    <2> QED BY <2>1, <2>2
  <1>8. StopsInOrder'
    <2>1. ASSUME NEW q \in Roads \ {r}
          PROVE  NoneBehind(handling[q], q, 0)' /\ \A n \in DOMAIN wire'[q] : NoneBehind(wire[q][n], q, n)'
      BY <1>2 DEF PathIInv, StopsInOrder, NoneBehind
    <2>2. NoneBehind(handling[r], r, 0)'
      BY <1>1, <1>7 DEF PathIInv, StopsInOrder
    <2>3. ASSUME NEW n \in DOMAIN wire'[r]  PROVE NoneBehind(wire[r][n], r, n)'
      <3>1. CASE n \in DOMAIN wire[r]
        <4>1. NoneBehind(wire[r][n], r, n)  BY <1>1, <3>1 DEF PathIInv, StopsInOrder
        <4>2. wire[r][n] \in ToSet(wire[r]) /\ n \in Nat  BY <1>3, <3>1 DEF ToSet
        <4>3. PICK s : s = wire[r][n]  OBVIOUS
        <4>4. NoneBehind(s, r, n)'  BY <1>7, <4>1, <4>2, <4>3
        <4> QED BY <1>3, <3>1, <4>3, <4>4 DEF NoneBehind
      <3>2. CASE n \notin DOMAIN wire[r]
        BY <1>3, <3>2 DEF NoneBehind
      <3> QED BY <3>1, <3>2
    <2> QED BY <1>2, <2>1, <2>2, <2>3 DEF StopsInOrder
  <1> QED BY <1>4, <1>5, <1>6, <1>8 DEF PathIInv

\* The listener takes the first event.
LEMMA ReadsKeeps ==
  ASSUME PathIInv, NEW r \in Roads, ReadsEvent(r)
  PROVE  PathIInv'
  <1> USE DEF ReadsEvent, Takes
  <1>1. /\ r \in roads /\ wire \in [Roads -> Seq(Events)] /\ wire[r] \in Seq(Events) /\ wire[r] # <<>>
        /\ handling \in [Roads -> Events]
    BY DEF PathIInv, RoadsTyped
  <1>2. /\ handling'[r] = wire[r][1] /\ wire'[r] = RemoveAt(wire[r], 1)
        /\ \A q \in Roads \ {r} : handling'[q] = handling[q] /\ wire'[q] = wire[q]
    BY <1>1
  <1>3. /\ wire[r][1] \in Events /\ wire[r][1] \in ToSet(wire[r]) /\ 1 \in DOMAIN wire[r]
        /\ wire'[r] \in Seq(Events) /\ ToSet(wire'[r]) \subseteq ToSet(wire[r])
        /\ \A i \in DOMAIN wire'[r] : i + 1 \in DOMAIN wire[r] /\ wire'[r][i] = wire[r][i + 1]
    BY <1>1, <1>2, FirstTaken
  <1>4. RoadsTyped'
    <2>1. wire' = [wire EXCEPT ![r] = wire'[r]] /\ handling' = [handling EXCEPT ![r] = wire[r][1]]
      BY <1>1, <1>2
    <2>2. wire' \in [Roads -> Seq(Events)] /\ handling' \in [Roads -> Events]
      BY <1>1, <1>3, <2>1
    <2> QED BY <2>2 DEF PathIInv, RoadsTyped, lifeVars
  <1>5. OnItsRoad'
    BY <1>1, <1>2 DEF PathIInv, OnItsRoad
  <1>6. OnceSent'
    <2>1. \A q \in Roads : {handling'[q]} \cup ToSet(wire'[q]) \subseteq {handling[q]} \cup ToSet(wire[q])
      BY <1>2, <1>3
    <2> QED BY <2>1 DEF PathIInv, OnceSent, Sent, lifeVars
  <1>7. DOMAIN wire'[r] \subseteq Nat
    BY <1>3
  <1>8. ASSUME NEW n \in Nat, NEW s, NoneBehind(s, r, n + 1)  PROVE NoneBehind(s, r, n)'
    <2> SUFFICES ASSUME s.kind = "cancel", NEW m \in s.of \ forwarded, NEW i \in DOMAIN wire'[r], i > n
                 PROVE  wire'[r][i] # Live(m)
      BY DEF NoneBehind
    <2>1. i + 1 > n + 1 /\ i + 1 \in DOMAIN wire[r]  BY <1>3, <1>7
    <2> QED BY <1>3, <1>8, <2>1 DEF NoneBehind
  <1>9. NoneBehind(handling[r], r, 0)' /\ \A n \in DOMAIN wire'[r] : NoneBehind(wire[r][n], r, n)'
    <2>1. NoneBehind(handling[r], r, 0)'
      <3>1. PICK s : s = wire[r][1]  OBVIOUS
      <3>2. NoneBehind(s, r, 0 + 1)  BY <1>1, <1>3, <3>1 DEF PathIInv, StopsInOrder
      <3>3. NoneBehind(s, r, 0)'  BY <1>8, <3>2
      <3> QED BY <1>2, <3>1, <3>3 DEF NoneBehind
    <2>2. ASSUME NEW n \in DOMAIN wire'[r]  PROVE NoneBehind(wire[r][n], r, n)'
      <3>1. PICK s : s = wire[r][n + 1]  OBVIOUS
      <3>2. NoneBehind(s, r, n + 1)  BY <1>3, <3>1 DEF PathIInv, StopsInOrder
      <3>3. NoneBehind(s, r, n)'  BY <1>7, <1>8, <3>2
      <3> QED BY <1>3, <3>1, <3>3 DEF NoneBehind
    <2> QED BY <2>1, <2>2
  <1>10. ASSUME NEW q \in Roads \ {r}
         PROVE  NoneBehind(handling[q], q, 0)' /\ \A n \in DOMAIN wire'[q] : NoneBehind(wire[q][n], q, n)'
    BY <1>2 DEF PathIInv, StopsInOrder, NoneBehind
  <1>11. StopsInOrder'
    BY <1>2, <1>9, <1>10 DEF StopsInOrder
  <1> QED BY <1>4, <1>5, <1>6, <1>11 DEF PathIInv

\* A stream begins with what is still open, none of it live, and ends with nothing.
LEMMA OpensKeeps ==
  ASSUME PathIInv, NEW r \in Roads, Opens(r)
  PROVE  PathIInv'
  <1> DEFINE open == {n \in Msgs : cloud[n] = "processing"}
             again == {CatchUp(m) : m \in open}
  <1>1. IsFiniteSet(again)
    <2>1. IsFiniteSet(open)  BY ChatAssumption, FS_Subset
    <2>2. [m \in open |-> CatchUp(m)] \in Bijection(open, again)
      BY DEF Bijection, Injection, Surjection, IsInjective, CatchUp
    <2>3. ExistsBijection(open, again)  BY <2>2 DEF ExistsBijection
    <2> QED BY <2>1, <2>3, FS_Bijection
  <1>2. \A e \in again : /\ e \in Events /\ e.kind = "user_message" /\ \A m \in Msgs : e # Live(m)
                         /\ \A m \in e.of : m \in Msgs /\ Sent(m)
    <2> TAKE e \in again
    <2>1. PICK n \in open : e = CatchUp(n)  OBVIOUS
    <2>2. n \in Msgs /\ Sent(n)  BY <2>1 DEF Sent
    <2>3. e \in Events  BY <2>1, <2>2, EventsAre
    <2>4. e.kind = "user_message" /\ e.of = {n} /\ \A m \in Msgs : e # Live(m)
      BY <2>1 DEF CatchUp, Live
    <2> QED BY <2>2, <2>3, <2>4
  <1> HIDE DEF again
  <1>3. wire'[r] \in Seq(Events) /\ ToSet(wire'[r]) \subseteq again
    <2>1. wire'[r] = SetToSeq(again) \/ wire'[r] = <<>>
      BY DEF Opens, PathIInv, RoadsTyped, again
    <2>2. SetToSeq(again) \in Seq(again) /\ ToSet(SetToSeq(again)) \subseteq again
      BY <1>1, SetToSeqIs
    <2>3. SetToSeq(again) \in Seq(Events)
      <3>1. again \subseteq Events  BY <1>2
      <3> QED BY <2>2, <3>1
    <2>4. ToSet(<<>>) = {} /\ <<>> \in Seq(Events)  BY DEF ToSet
    <2> QED BY <2>1, <2>2, <2>3, <2>4
  <1>4. /\ \A q \in Roads \ {r} : wire'[q] = wire[q]
        /\ handling' = handling /\ handling[r] = Nothing /\ wire' = [wire EXCEPT ![r] = wire'[r]]
        /\ UNCHANGED <<roads, forwarded, late, cloud>> /\ stream' \subseteq roads
    BY DEF Opens, PathIInv, RoadsTyped, lifeVars
  <1>5. RoadsTyped'
    BY <1>3, <1>4 DEF PathIInv, RoadsTyped
  <1>6. OnItsRoad'
    BY <1>4 DEF PathIInv, OnItsRoad
  <1>7. OnceSent'
    BY <1>2, <1>3, <1>4 DEF PathIInv, OnceSent, Sent
  <1>8. \A i \in DOMAIN wire'[r] : wire'[r][i].kind # "cancel"
    BY <1>2, <1>3 DEF ToSet
  <1>9. StopsInOrder'
    BY <1>4, <1>8 DEF PathIInv, StopsInOrder, NoneBehind, Nothing
  <1> QED BY <1>5, <1>6, <1>7, <1>9 DEF PathIInv

\* An event that is gone leaves the others as they were.
LEMMA EndsKeeps ==
  ASSUME PathIInv, NEW S \in SUBSET Roads,
         stream' \subseteq roads, wire' = [q \in Roads |-> IF q \in S THEN <<>> ELSE wire[q]],
         UNCHANGED <<roads, late, cloud>>,
         \/ handling' = handling /\ forwarded' = forwarded
         \/ S = Roads /\ handling' = [q \in Roads |-> Nothing] /\ forwarded' = {}
  PROVE  PathIInv'
  <1>1. wire' \in [Roads -> Seq(Events)] /\ wire \in [Roads -> Seq(Events)]
    BY DEF PathIInv, RoadsTyped
  <1>2. \A q \in Roads : wire'[q] = <<>> \/ (q \notin S /\ wire'[q] = wire[q])
    OBVIOUS
  <1>3. RoadsTyped'
    BY <1>1, EventsAre DEF PathIInv, RoadsTyped
  <1>4. CASE handling' = handling /\ forwarded' = forwarded
    <2>1. OnItsRoad'  BY <1>4 DEF PathIInv, OnItsRoad
    <2>2. \A q \in Roads : ToSet(wire'[q]) \subseteq ToSet(wire[q])
      BY <1>2 DEF ToSet
    <2>3. OnceSent'  BY <1>4, <2>2 DEF PathIInv, OnceSent, Sent
    <2>4. StopsInOrder'  BY <1>2, <1>4 DEF PathIInv, StopsInOrder, NoneBehind
    <2> QED BY <1>3, <2>1, <2>3, <2>4 DEF PathIInv
  <1>5. CASE S = Roads /\ handling' = [q \in Roads |-> Nothing] /\ forwarded' = {}
    <2>1. \A q \in Roads : handling'[q] = Nothing /\ wire'[q] = <<>> /\ ToSet(wire'[q]) = {}
      BY <1>5 DEF ToSet
    <2>2. OnItsRoad' /\ OnceSent' /\ StopsInOrder'
      BY <1>5, <2>1 DEF OnItsRoad, OnceSent, StopsInOrder, NoneBehind, Nothing, ChatEvents
    <2> QED BY <1>3, <2>2 DEF PathIInv
  <1> QED BY <1>4, <1>5

\* A message of the owner is never unsent again.
LEMMA LifeKeeps ==
  ASSUME cloud \in [Msgs -> {"unsent", "processing", "closed"}], NEW m \in Msgs,
         Sends(m) \/ InboundRoute(m) \/ GuardLifted(m) \/ LooseWorkEnds(m)
  PROVE  /\ cloud' \in [Msgs -> {"unsent", "processing", "closed"}]
         /\ \A n \in Msgs : Sent(n) => Sent(n)'
         /\ Sends(m) => Sent(m)' /\ ~Sent(m)
  <1>1. CASE Sends(m)
    BY <1>1 DEF Sends, Sent
  <1>2. CASE InboundRoute(m)
    BY <1>2 DEF InboundRoute, TakenUp, Sends, Sent, lifeVars
  <1>3. CASE GuardLifted(m) \/ LooseWorkEnds(m)
    BY <1>3 DEF GuardLifted, LooseWorkEnds, Closing, Sends, Sent
  <1> QED BY <1>1, <1>2, <1>3

\* Whatever the listener does with what it reads, or when its stream ends.
LEMMA ListensKeeps ==
  ASSUME PathIInv, NEW r \in Roads, Listens(r)
  PROVE  PathIInv'
  <1>1. CASE ReadsEvent(r)  BY <1>1, ReadsKeeps
  <1>2. CASE ForwardsCancel(r)
    BY <1>2, HandledKeeps DEF ForwardsCancel, lifeVars, PathIInv, RoadsTyped
  <1>3. CASE StreamEnds(r)
    <2> DEFINE S == {r}
    <2>1. wire' = [q \in Roads |-> IF q \in S THEN <<>> ELSE wire[q]]
      BY <1>3 DEF StreamEnds, PathIInv, RoadsTyped
    <2> QED BY <1>3, <2>1, EndsKeeps DEF StreamEnds, lifeVars, PathIInv, RoadsTyped
  <1>4. ASSUME NEW m \in Msgs, DropsDuplicate(r, m) \/ MessageLost(r, m) \/ ForwardTimesOut(r, m)
        PROVE  PathIInv'
    <2>1. late' \subseteq Msgs
      BY <1>4 DEF DropsDuplicate, MessageLost, ForwardTimesOut, PathIInv, RoadsTyped
    <2> QED BY <1>4, <2>1, HandledKeeps DEF DropsDuplicate, MessageLost, ForwardTimesOut, lifeVars
  <1>5. ASSUME NEW m \in Msgs, Forwards(r, m)  PROVE PathIInv'
    <2>1. cloud' = cloud
      BY <1>5 DEF Forwards, InboundRoute, TakenUp, lifeVars
    <2> QED BY <1>5, <2>1, HandledKeeps DEF Forwards, PathIInv, RoadsTyped
  <1>6. ASSUME NEW h \in Hooks, RunsHook(r, h) \/ DropsHook(r, h) \/ ReportLost(r, h)  PROVE PathIInv'
    BY <1>6, HandledKeeps DEF RunsHook, DropsHook, ReportLost, lifeVars, PathIInv, RoadsTyped
  <1> QED BY <1>1, <1>2, <1>3, <1>4, <1>5, <1>6 DEF Listens

\* Every step keeps it: the owner's, the cloud's, the listener's, OpenClaw's and the agent's.
LEMMA PathNextKeeps == PathIInv /\ [PathNext]_allVars => PathIInv'
  <1> SUFFICES ASSUME PathIInv, [PathNext]_allVars  PROVE PathIInv'
    OBVIOUS
  <1>1. RoadsTyped  BY DEF PathIInv
  <1>2. ASSUME NEW m \in Msgs, OwnerSends(m)  PROVE PathIInv'
    <2>1. /\ cloud' \in [Msgs -> {"unsent", "processing", "closed"}]
          /\ \A n \in Msgs : Sent(n) => Sent(n)'
          /\ Sent(m)' /\ ~Sent(m)
      BY <1>1, <1>2, LifeKeeps DEF OwnerSends, RoadsTyped
    <2>2. PICK r \in Roads : IF r \in stream THEN Writes(r, Live(m)) ELSE UNCHANGED wire
      BY <1>2 DEF OwnerSends
    <2>3. CASE r \in stream
      <3>1. Live(m) \in Events /\ Live(m).of = {m} /\ \A n \in Msgs : Live(m) = Live(n) => n = m
        BY EventsAre DEF Live
      <3> QED BY <1>2, <2>1, <2>2, <2>3, <3>1, WritesKeeps DEF OwnerSends
    <2>4. CASE r \notin stream
      BY <1>1, <1>2, <2>1, <2>2, <2>4, RoadsRest DEF OwnerSends, RoadsTyped
    <2> QED BY <2>3, <2>4
  <1>3. ASSUME NEW m \in Msgs, SentTwice(m)  PROVE PathIInv'
    <2>1. PICK r \in stream : Writes(r, Live(m))  BY <1>3 DEF SentTwice
    <2>2. Live(m) \in Events /\ Live(m).of = {m} /\ \A n \in Msgs : Live(m) = Live(n) => n = m
      BY EventsAre DEF Live
    <2>3. m \in forwarded /\ Sent(m) /\ UNCHANGED <<cloud, roads, stream, handling, forwarded, late>>
      BY <1>3 DEF SentTwice, lifeVars, PathIInv, OnceSent
    <2> QED BY <1>1, <2>1, <2>2, <2>3, WritesKeeps DEF RoadsTyped, Sent
  <1>4. ASSUME NEW m \in Msgs, LateArrives(m)  PROVE PathIInv'
    <2>1. /\ cloud' \in [Msgs -> {"unsent", "processing", "closed"}]
          /\ \A n \in Msgs : Sent(n) => Sent(n)'
      BY <1>1, <1>4, LifeKeeps DEF LateArrives, RoadsTyped
    <2> QED BY <1>1, <1>4, <2>1, RoadsRest DEF LateArrives, RoadsTyped
  <1>5. ASSUME NEW m \in Msgs, WorkEnds(m) \/ EndUnheard(m)  PROVE PathIInv'
    <2>1. /\ cloud' \in [Msgs -> {"unsent", "processing", "closed"}]
          /\ \A n \in Msgs : Sent(n) => Sent(n)'
      BY <1>1, <1>5, LifeKeeps DEF WorkEnds, EndUnheard, RoadsTyped
    <2> QED BY <1>1, <1>5, <2>1, RoadsRest DEF WorkEnds, EndUnheard, RoadsTyped, pathVars
  <1>6. ASSUME NEW h \in Hooks, HookFires(h)  PROVE PathIInv'
    <2>1. PICK r \in stream : Writes(r, Hook(h))  BY <1>6 DEF HookFires
    <2>2. Hook(h) \in Events /\ Hook(h).kind \notin ChatEvents /\ \A n \in Msgs : Hook(h) # Live(n)
      BY EventsAre DEF Hook, Live, ChatEvents
    <2> QED BY <1>1, <1>6, <2>1, <2>2, WritesKeeps DEF HookFires, lifeVars, RoadsTyped, Sent
  <1>7. CASE OwnerCancels
    <2>1. PICK r \in stream : Writes(r, Cancel(r))  BY <1>7 DEF OwnerCancels
    <2>2. Cancel(r) \in Events /\ \A n \in Msgs : Cancel(r) # Live(n)
      BY EventsAre DEF Cancel, Live
    <2>3. \A m \in Cancel(r).of : m \in Msgs /\ Sent(m)
      <3> TAKE m \in Cancel(r).of
      <3>1. m \in Msgs /\ Live(m) \in ToSet(wire[r])  BY DEF Cancel, ToSet
      <3>2. r \in Roads  BY <1>1 DEF RoadsTyped, Roads
      <3> QED BY <3>1, <3>2 DEF PathIInv, OnceSent, Live, ChatEvents
    <2> QED
      BY <1>1, <1>7, <2>1, <2>2, <2>3, WritesKeeps DEF OwnerCancels, lifeVars, RoadsTyped, Sent
  <1>8. CASE ConnectsUnified \/ ConnectsChat \/ ConnectsHooks
    BY <1>8, OpensKeeps DEF ConnectsUnified, ConnectsChat, ConnectsHooks, Roads, Transports
  <1>9. ASSUME NEW r \in Roads, Listens(r)  PROVE PathIInv'
    BY <1>9, ListensKeeps
  <1>10. CASE OpenClawDies \/ OpenClawReturns
    BY <1>1, <1>10, RoadsRest DEF OpenClawDies, OpenClawReturns, GatewayGone, lifeVars, RoadsTyped,
       Sent
  <1>11. CASE AgentRestarts
    <2>1. wire' = [q \in Roads |-> IF q \in Roads THEN <<>> ELSE wire[q]]
      BY <1>11 DEF AgentRestarts
    <2> QED BY <1>11, <2>1, EndsKeeps DEF AgentRestarts, lifeVars
  <1>12. CASE UNCHANGED allVars
    BY <1>1, <1>12, RoadsRest DEF allVars, pathVars, lifeVars, RoadsTyped, Sent
  <1> QED
    BY <1>2, <1>3, <1>4, <1>5, <1>6, <1>7, <1>8, <1>9, <1>10, <1>11, <1>12 DEF PathNext

\* So it holds all along.
LEMMA PathAlways == PathSpec => []PathIInv
  BY PathInitIs, PathNextKeeps, PTL DEF PathSpec

(* A stop the owner sent after a message is never handed to the plugin     *)
(* while that message still waits in the same stream for the listener, for *)
(* any messages, hooks, lost connections and restarts                      *)
(* (ChatPath.StopNeverOvertakes).                                          *)
THEOREM StopsComeInOrder == PathSpec => StopNeverOvertakes
  <1>1. PathIInv => \A r \in stream : handling[r].kind = "cancel" =>
                       \A m \in handling[r].of \ forwarded :
                          \A i \in DOMAIN wire[r] : wire[r][i] # Live(m)
    <2> SUFFICES ASSUME PathIInv, NEW r \in stream, handling[r].kind = "cancel",
                        NEW m \in handling[r].of \ forwarded, NEW i \in DOMAIN wire[r]
                 PROVE  wire[r][i] # Live(m)
      OBVIOUS
    <2>1. r \in Roads /\ i \in Nat /\ i > 0
      BY DEF PathIInv, RoadsTyped, Roads
    <2> QED BY <2>1 DEF PathIInv, StopsInOrder, NoneBehind
  <1>2. PathIInv => [\A r \in stream : handling[r].kind = "cancel" /\ handling'[r] = Nothing /\ r \in stream' =>
                       \A m \in handling[r].of \ forwarded :
                          \A i \in DOMAIN wire[r] : wire[r][i] # Live(m)]_allVars
    BY <1>1
  <1> QED BY <1>2, PathAlways, PTL DEF StopNeverOvertakes

\* A message is taken up from the listener's post, or from one that was given up on.
LEMMA TakenUpFrom ==
  ASSUME PathIInv, PathNext, NEW m \in forwarded \ held, m \in held'
  PROVE  m \in late \/ \E r \in roads : handling[r] = CatchUp(m)
  <1>1. ASSUME NEW n \in Msgs, InboundRoute(n), n # m  PROVE FALSE
    BY <1>1 DEF InboundRoute, TakenUp, lifeVars
  <1>2. ASSUME NEW n \in Msgs, LateArrives(n)  PROVE m \in late
    BY <1>1, <1>2 DEF LateArrives
  <1>3. ASSUME NEW r \in Roads, NEW n \in Msgs, Forwards(r, n)
        PROVE  \E q \in roads : handling[q] = CatchUp(m)
    <2>1. n = m  BY <1>1, <1>3 DEF Forwards
    <2>2. handling[r] = CatchUp(m)
      BY <1>3, <2>1 DEF Forwards, Message, AlreadyForwarded
    <2>3. r \in roads
      BY <2>2 DEF PathIInv, OnItsRoad, CatchUp, Nothing
    <2> QED BY <2>2, <2>3
  <1>4. ASSUME held' \subseteq held  PROVE FALSE
    BY <1>4
  <1>5. ASSUME NEW n \in Msgs, OwnerSends(n) \/ SentTwice(n) \/ WorkEnds(n) \/ EndUnheard(n)  PROVE FALSE
    BY <1>5 DEF OwnerSends, SentTwice, WorkEnds, EndUnheard, Sends, GuardLifted, LooseWorkEnds,
       lifeVars
  <1>6. ASSUME NEW r \in Roads, Listens(r), \A n \in Msgs : ~Forwards(r, n)  PROVE FALSE
    BY <1>6 DEF Listens, ReadsEvent, Takes, ForwardsCancel, StreamEnds, DropsDuplicate, MessageLost,
                ForwardTimesOut, RunsHook, DropsHook, ReportLost, lifeVars
  <1> QED
    BY <1>2, <1>3, <1>5, <1>6
    DEF PathNext, HookFires, OwnerCancels, ConnectsUnified, ConnectsChat, ConnectsHooks, Opens,
        OpenClawDies, OpenClawReturns, AgentRestarts, GatewayGone, lifeVars

(* A message the gateway acknowledged is given to it again only when the   *)
(* cloud asked for it or the listener had given up on the post             *)
(* (ChatPath.AcknowledgedOnce).                                            *)
THEOREM NothingGivenTwice == PathSpec => AcknowledgedOnce
  <1>1. PathIInv /\ [PathNext]_allVars =>
          [\A m \in forwarded \ held :
             m \in held' => m \in late \/ \E r \in roads : handling[r] = CatchUp(m)]_allVars
    BY TakenUpFrom DEF allVars, lifeVars
  <1> QED BY <1>1, PathAlways, PTL DEF PathSpec, AcknowledgedOnce

\* The road adds nothing to what happens to a message: of the listener's steps only handing one over
\* is one of its life.
LEMMA RoadIsLife ==
  ASSUME PathNext
  PROVE  [LifeNext]_lifeVars
  <1> USE DEF LifeNext
  <1>1. ASSUME NEW m \in Msgs, OwnerSends(m)  PROVE LifeNext
    BY <1>1 DEF OwnerSends
  <1>2. ASSUME NEW m \in Msgs, InboundRoute(m)  PROVE LifeNext \/ UNCHANGED lifeVars
    BY <1>2 DEF InboundRoute
  <1>3. ASSUME NEW m \in Msgs, WorkEnds(m) \/ EndUnheard(m)  PROVE LifeNext
    BY <1>3 DEF WorkEnds, EndUnheard
  <1>4. ASSUME NEW m \in Msgs, SentTwice(m) \/ LateArrives(m)
        PROVE  InboundRoute(m) \/ UNCHANGED lifeVars
    BY <1>4 DEF SentTwice, LateArrives
  <1>5. ASSUME NEW r \in Roads, Listens(r)
        PROVE  (\E m \in Msgs : InboundRoute(m)) \/ UNCHANGED lifeVars
    BY <1>5 DEF Listens, ReadsEvent, Takes, ForwardsCancel, StreamEnds, DropsDuplicate, MessageLost,
         Forwards, ForwardTimesOut, RunsHook, DropsHook, ReportLost
  <1>6. ASSUME \/ \E h \in Hooks : HookFires(h)
               \/ OwnerCancels \/ ConnectsUnified \/ ConnectsChat \/ ConnectsHooks
               \/ OpenClawReturns \/ AgentRestarts
        PROVE  UNCHANGED lifeVars
    BY <1>6 DEF HookFires, OwnerCancels, ConnectsUnified, ConnectsChat, ConnectsHooks, Opens,
         OpenClawReturns, AgentRestarts
  <1>7. CASE OpenClawDies  BY <1>7 DEF OpenClawDies
  <1> HIDE DEF LifeNext
  <1> QED BY <1>1, <1>2, <1>3, <1>4, <1>5, <1>6, <1>7 DEF PathNext

\* Whatever is lost, repeated or overtaken between the cloud and the gateway, what happens to a
\* message is what the chat promises about one: the steps ChatPath takes from MessageLife are the
\* only ones on the path that touch a message's life.
THEOREM PathIsLife == PathSpec => LifeSpec
  <1>1. PathInit => LifeInit  BY DEF PathInit
  <1>2. [PathNext]_allVars => [LifeNext]_lifeVars  BY RoadIsLife DEF allVars
  <1> QED BY <1>1, <1>2, PTL DEF PathSpec, LifeSpec

\* Every step of a message's life works on what the owner wrote, and closes only what is worked on.
LEMMA LifeKeepsWork ==
  ASSUME WorkIsWritten, [LifeNext]_lifeVars
  PROVE  /\ WorkIsWritten'
         /\ \A m \in Msgs : cloud'[m] # cloud[m] =>
              \/ cloud[m] = "unsent" /\ cloud'[m] = "processing"
              \/ cloud[m] = "processing" /\ cloud'[m] = "closed" /\ m \in held \cup loose
  <1> USE DEF WorkIsWritten
  <1>1. CASE \E m \in Msgs : Sends(m)  BY <1>1 DEF Sends
  <1>2. CASE \E m \in Msgs : TakenUp(m)  BY <1>2 DEF TakenUp
  <1>3. CASE \E m \in Msgs : GuardLifted(m)  BY <1>3 DEF GuardLifted, Closing
  <1>4. CASE \E m \in Msgs : LooseWorkEnds(m)  BY <1>4 DEF LooseWorkEnds, Closing
  <1>5. CASE GatewayGone  BY <1>5 DEF GatewayGone
  <1>6. CASE UNCHANGED lifeVars  BY <1>6 DEF lifeVars
  <1> QED BY <1>1, <1>2, <1>3, <1>4, <1>5, <1>6 DEF LifeNext

\* No copy that is sent again, no late post and no restart hands the gateway what the owner did not
\* write, closes a message nobody works on, or opens one again (MessageLife.ClosedByWork, of the
\* whole path).
THEOREM ClosedOnThePath == PathSpec => []WorkIsWritten /\ ClosedByWork
  <1>1. LifeInit => WorkIsWritten  BY DEF LifeInit, WorkIsWritten
  <1>2. WorkIsWritten /\ [LifeNext]_lifeVars => WorkIsWritten'  BY LifeKeepsWork
  <1>3. WorkIsWritten /\ [LifeNext]_lifeVars =>
          [\A m \in Msgs : cloud'[m] # cloud[m] =>
             \/ cloud[m] = "unsent" /\ cloud'[m] = "processing"
             \/ cloud[m] = "processing" /\ cloud'[m] = "closed" /\ m \in held \cup loose]_lifeVars
    BY LifeKeepsWork
  <1> QED BY <1>1, <1>2, <1>3, PathIsLife, PTL DEF LifeSpec, ClosedByWork

=============================================================================
