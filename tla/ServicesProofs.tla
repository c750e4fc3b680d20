---------------------------- MODULE ServicesProofs ----------------------------
(***************************************************************************)
(* Theorems about what MCServices composes: the self-updater (Update), for *)
(* every set of processes and every newest version; the pictures of scenes *)
(* (Assets), for every set of pictures and every capacity; and who is      *)
(* attached to a session (Attachment), for every number of windows,        *)
(* connections and links.                                                  *)
(***************************************************************************)
EXTENDS Update, Assets, Attachment, TLAPS, FunctionTheorems, FiniteSetTheorems, SequenceTheorems,
        WellFoundedInduction

-----------------------------------------------------------------------------
(* The updater.  A process under the lock relies on what it found and wrote there: IInv  *)
(* says what that is at each of its steps, and that only one process at a time is in     *)
(* such a step.                                                                           *)

\* A process in a step under the lock is the one that holds it.
Exclusive == \A p \in Procs : pc[p] \in Locked => lock = p

\* Between its decision and the installation: what is staged is what is
\* described, and newer; then the backup is the installed executable.
Applying(p) ==
  pc[p] \in {"backup", "install"} =>
    /\ pending # 0 /\ staged = pending /\ applied = pending /\ pending > ver[p]
    /\ pc[p] = "install" => backup = target

\* While the executable is renamed no metadata exists.
Persisting(p) ==
  pc[p] \in {"persist", "list"} =>
    /\ pending = 0
    /\ pc[p] = "list" => staged = found[p]

\* clear_pending removes the metadata first.
Clearing(p) == pc[p] = "unbin" => pending = 0

Files ==
  /\ Exclusive /\ PendingPaired
  /\ \A p \in Procs : Applying(p) /\ Persisting(p) /\ Clearing(p)

IInv == TypeOK /\ Files

-----------------------------------------------------------------------------
LEMMA InitIInv ==
  ASSUME UpdateAssumption, Init
  PROVE  IInv
<1>1. 1 \in Versions /\ 1 \in Maybe /\ 0 \in Maybe /\ 0 \in Nat
  BY DEF UpdateAssumption, Versions, Maybe
<1>2. TypeOK
  <2>1. /\ pending \in Maybe /\ staged \in Maybe /\ applied \in Maybe
        /\ target \in Versions /\ backup \in Maybe /\ latest \in Maybe /\ asked \in Nat
    BY <1>1 DEF Init
  <2>2. policy \in Policies /\ checked \in BOOLEAN /\ lock \in Procs \cup {Nobody}
    BY DEF Init, Policies
  <2>3. /\ ver \in [Procs -> Maybe] /\ pc \in [Procs -> Labels]
        /\ found \in [Procs -> Maybe] /\ leave \in [Procs -> {"idle", "exec"}]
    BY <1>1 DEF Init, Labels
  <2> QED
    BY <2>1, <2>2, <2>3 DEF TypeOK
<1>3. \A p \in Procs : pc[p] = "off"
  BY DEF Init
<1>4. Exclusive /\ \A p \in Procs : Applying(p) /\ Persisting(p) /\ Clearing(p)
  BY <1>3 DEF Exclusive, Applying, Persisting, Clearing, Locked, Staging
<1> QED
  BY <1>2, <1>4 DEF Init, IInv, Files, PendingPaired

-----------------------------------------------------------------------------
(* Types *)

\* Only Install needs the invariant: what it installs is a version.
LEMMA TypeStep ==
  ASSUME UpdateAssumption, IInv, [Next]_vars
  PROVE  TypeOK'
<1> USE DEF TypeOK, At, Goto, cache, installed, local, Versions, Maybe, Policies, Labels, Locked, Checking, Staging
<1>1. TypeOK /\ \A p \in Procs : Applying(p)
  BY DEF IInv, Files
<1>2. ASSUME NEW p \in Procs, Launch(p) PROVE TypeOK'
  BY <1>1, <1>2 DEF Launch
<1>3. ASSUME NEW p \in Procs, Exec(p) PROVE TypeOK'
  BY <1>1, <1>3 DEF Exec
<1>4. ASSUME NEW p \in Procs, Stop(p) PROVE TypeOK'
  BY <1>1, <1>4 DEF Stop
<1>5. ASSUME NEW p \in Procs, Fail(p) PROVE TypeOK'
  BY <1>1, <1>5 DEF Fail, Unlock
<1>6. ASSUME NEW p \in Procs, Activate(p) PROVE TypeOK'
  BY <1>1, <1>6 DEF Activate, Acquire, Swept
<1>7. ASSUME NEW p \in Procs, ActivateRefused(p) PROVE TypeOK'
  BY <1>1, <1>7 DEF ActivateRefused
<1>8. ASSUME NEW p \in Procs, DecideNothing(p) PROVE TypeOK'
  BY <1>1, <1>8 DEF DecideNothing, Unlock
<1>9. ASSUME NEW p \in Procs, DecideObsolete(p) PROVE TypeOK'
  BY <1>1, <1>9 DEF DecideObsolete
<1>10. ASSUME NEW p \in Procs, DecideApply(p) PROVE TypeOK'
  BY <1>1, <1>10 DEF DecideApply
<1>11. ASSUME NEW p \in Procs, Backup(p) PROVE TypeOK'
  BY <1>1, <1>11 DEF Backup
<1>12. ASSUME NEW p \in Procs, Install(p) PROVE TypeOK'
  BY <1>1, <1>12 DEF Install, Applying
<1>13. ASSUME NEW p \in Procs, Unlist(p) PROVE TypeOK'
  BY <1>1, <1>13 DEF Unlist
<1>14. ASSUME NEW p \in Procs, Unbin(p) PROVE TypeOK'
  BY <1>1, <1>14 DEF Unbin, Unlock
<1>15. ASSUME NEW p \in Procs, Rollback(p) PROVE TypeOK'
  BY <1>1, <1>15 DEF Rollback, Acquire, Swept
<1>16. ASSUME NEW p \in Procs, RestoreNothing(p) PROVE TypeOK'
  BY <1>1, <1>16 DEF RestoreNothing, Unlock
<1>17. ASSUME NEW p \in Procs, Restore(p) PROVE TypeOK'
  BY <1>1, <1>17 DEF Restore
<1>18. ASSUME NEW p \in Procs, SetOff(p) PROVE TypeOK'
  BY <1>1, <1>18 DEF SetOff, Acquire, Swept
<1>19. ASSUME NEW p \in Procs, Poll(p) PROVE TypeOK'
  BY <1>1, <1>19 DEF Poll, Acquire, Swept
<1>20. ASSUME NEW p \in Procs, Record(p) PROVE TypeOK'
  BY <1>1, <1>20 DEF Record, Unlock
<1>21. ASSUME NEW p \in Procs, Ask(p) PROVE TypeOK'
  BY <1>1, <1>21 DEF Ask, Newer
<1>22. ASSUME NEW p \in Procs, Consider(p) PROVE TypeOK'
  BY <1>1, <1>22 DEF Consider
<1>23. ASSUME NEW p \in Procs, Stage(p) PROVE TypeOK'
  BY <1>1, <1>23 DEF Stage, Acquire, Swept
<1>24. ASSUME NEW p \in Procs, StageRefused(p) PROVE TypeOK'
  BY <1>1, <1>24 DEF StageRefused
<1>25. ASSUME NEW p \in Procs, Fetch(p) PROVE TypeOK'
  BY <1>1, <1>25 DEF Fetch
<1>26. ASSUME NEW p \in Procs, Unpair(p) PROVE TypeOK'
  BY <1>1, <1>26 DEF Unpair
<1>27. ASSUME NEW p \in Procs, Persist(p) PROVE TypeOK'
  BY <1>1, <1>27 DEF Persist
<1>28. ASSUME NEW p \in Procs, List(p) PROVE TypeOK'
  BY <1>1, <1>28 DEF List, Unlock
<1>29. ASSUME NEW p \in Procs, Report(p) PROVE TypeOK'
  <2>1. CASE lock = Nobody
    <3>1. checked' = TRUE /\ staged' = Swept
      BY <1>29, <2>1 DEF Report
    <3> QED
      BY <1>1, <1>29, <3>1 DEF Report, Swept
  <2>2. CASE lock # Nobody
    <3>1. checked' = checked /\ staged' = staged
      BY <1>29, <2>2 DEF Report
    <3> QED
      BY <1>1, <1>29, <3>1 DEF Report
  <2> QED
    BY <2>1, <2>2
<1>30. ASSUME NEW p \in Procs, NEW new \in Policies, SetPolicy(p, new) PROVE TypeOK'
  BY <1>1, <1>30 DEF SetPolicy, Swept
<1>31. ASSUME NEW v \in Maybe, Publish(v) PROVE TypeOK'
  BY <1>1, <1>31 DEF Publish
<1>32. CASE Elapse
  BY <1>1, <1>32 DEF Elapse
<1>33. CASE UNCHANGED vars
  BY <1>1, <1>33 DEF vars
<1> QED
  BY <1>2, <1>3, <1>4, <1>5, <1>6, <1>7, <1>8, <1>9, <1>10, <1>11, <1>12, <1>13, <1>14, <1>15, <1>16, <1>17, <1>18, <1>19, <1>20, <1>21, <1>22, <1>23, <1>24, <1>25, <1>26, <1>27, <1>28, <1>29, <1>30, <1>31, <1>32, <1>33
  DEF Next, Process, Decide, Startup, Clear, Command, Background
-----------------------------------------------------------------------------
(* The lock and the files *)

LEMMA FilesStep ==
  ASSUME UpdateAssumption, IInv, [Next]_vars
  PROVE  Files'
<1> USE DEF At, Goto, cache, installed, local, Files, Exclusive, PendingPaired, Applying,
           Persisting, Clearing, Locked, Staging
<1>1. /\ Files /\ Nobody \notin Procs
      /\ pc \in [Procs -> Labels] /\ ver \in [Procs -> Maybe] /\ found \in [Procs -> Maybe]
      /\ leave \in [Procs -> {"idle", "exec"}]
      /\ pending \in Maybe /\ staged \in Maybe /\ Maybe \subseteq Nat
  BY DEF IInv, TypeOK, UpdateAssumption, Maybe
<1>2. ASSUME NEW p \in Procs, Launch(p) PROVE Files'
  BY <1>1, <1>2 DEF Launch
<1>3. ASSUME NEW p \in Procs, Exec(p) PROVE Files'
  BY <1>1, <1>3 DEF Exec
<1>4. ASSUME NEW p \in Procs, Stop(p) PROVE Files'
  BY <1>1, <1>4 DEF Stop
<1>5. ASSUME NEW p \in Procs, Fail(p) PROVE Files'
  BY <1>1, <1>5 DEF Fail, Unlock
<1>6. ASSUME NEW p \in Procs, Activate(p) PROVE Files'
  BY <1>1, <1>6 DEF Activate, Acquire, Swept
<1>7. ASSUME NEW p \in Procs, ActivateRefused(p) PROVE Files'
  BY <1>1, <1>7 DEF ActivateRefused
<1>8. ASSUME NEW p \in Procs, DecideNothing(p) PROVE Files'
  BY <1>1, <1>8 DEF DecideNothing, Unlock
<1>9. ASSUME NEW p \in Procs, DecideObsolete(p) PROVE Files'
  BY <1>1, <1>9 DEF DecideObsolete
<1>10. ASSUME NEW p \in Procs, DecideApply(p) PROVE Files'
  <2>1. pending \in Nat /\ ver[p] \in Nat
    BY <1>1
  <2>2. pending > ver[p]
    BY <1>10, <2>1 DEF DecideApply, Obsolete
  <2> QED
    BY <1>1, <1>10, <2>2 DEF DecideApply
<1>11. ASSUME NEW p \in Procs, Backup(p) PROVE Files'
  BY <1>1, <1>11 DEF Backup
<1>12. ASSUME NEW p \in Procs, Install(p) PROVE Files'
  BY <1>1, <1>12 DEF Install
<1>13. ASSUME NEW p \in Procs, Unlist(p) PROVE Files'
  BY <1>1, <1>13 DEF Unlist
<1>14. ASSUME NEW p \in Procs, Unbin(p) PROVE Files'
  BY <1>1, <1>14 DEF Unbin, Unlock
<1>15. ASSUME NEW p \in Procs, Rollback(p) PROVE Files'
  BY <1>1, <1>15 DEF Rollback, Acquire, Swept
<1>16. ASSUME NEW p \in Procs, RestoreNothing(p) PROVE Files'
  BY <1>1, <1>16 DEF RestoreNothing, Unlock
<1>17. ASSUME NEW p \in Procs, Restore(p) PROVE Files'
  BY <1>1, <1>17 DEF Restore
<1>18. ASSUME NEW p \in Procs, SetOff(p) PROVE Files'
  BY <1>1, <1>18 DEF SetOff, Acquire, Swept
<1>19. ASSUME NEW p \in Procs, Poll(p) PROVE Files'
  BY <1>1, <1>19 DEF Poll, Acquire, Swept
<1>20. ASSUME NEW p \in Procs, Record(p) PROVE Files'
  BY <1>1, <1>20 DEF Record, Unlock
<1>21. ASSUME NEW p \in Procs, Ask(p) PROVE Files'
  BY <1>1, <1>21 DEF Ask, Newer
<1>22. ASSUME NEW p \in Procs, Consider(p) PROVE Files'
  BY <1>1, <1>22 DEF Consider
<1>23. ASSUME NEW p \in Procs, Stage(p) PROVE Files'
  BY <1>1, <1>23 DEF Stage, Acquire, Swept
<1>24. ASSUME NEW p \in Procs, StageRefused(p) PROVE Files'
  BY <1>1, <1>24 DEF StageRefused
<1>25. ASSUME NEW p \in Procs, Fetch(p) PROVE Files'
  BY <1>1, <1>25 DEF Fetch
<1>26. ASSUME NEW p \in Procs, Unpair(p) PROVE Files'
  BY <1>1, <1>26 DEF Unpair
<1>27. ASSUME NEW p \in Procs, Persist(p) PROVE Files'
  BY <1>1, <1>27 DEF Persist
<1>28. ASSUME NEW p \in Procs, List(p) PROVE Files'
  BY <1>1, <1>28 DEF List, Unlock
<1>29. ASSUME NEW p \in Procs, Report(p) PROVE Files'
  BY <1>1, <1>29 DEF Report, Swept
<1>30. ASSUME NEW p \in Procs, NEW new \in Policies, SetPolicy(p, new) PROVE Files'
  BY <1>1, <1>30 DEF SetPolicy, Swept
<1>31. ASSUME NEW v \in Maybe, Publish(v) PROVE Files'
  BY <1>1, <1>31 DEF Publish
<1>32. CASE Elapse
  BY <1>1, <1>32 DEF Elapse
<1>33. CASE UNCHANGED vars
  BY <1>1, <1>33 DEF vars
<1> QED
  BY <1>2, <1>3, <1>4, <1>5, <1>6, <1>7, <1>8, <1>9, <1>10, <1>11, <1>12, <1>13, <1>14, <1>15, <1>16, <1>17, <1>18, <1>19, <1>20, <1>21, <1>22, <1>23, <1>24, <1>25, <1>26, <1>27, <1>28, <1>29, <1>30, <1>31, <1>32, <1>33
  DEF Next, Process, Decide, Startup, Clear, Command, Background

-----------------------------------------------------------------------------
(* Theorems *)

THEOREM Inductive == Spec => []IInv
<1>1. Init => IInv
  BY UpdateAssumption, InitIInv
<1>2. IInv /\ [Next]_vars => IInv'
  BY UpdateAssumption, TypeStep, FilesStep DEF IInv
<1> QED
  BY <1>1, <1>2, PTL DEF Spec

\* Every variable keeps its type: the executable is always some version.
THEOREM TypeCorrect == Spec => []TypeOK
<1>1. IInv => TypeOK
  BY DEF IInv
<1> QED
  BY <1>1, Inductive, PTL

\* Whatever runs, stops or fails, pending.json describes the pending.bin beside
\* it (update.rs, stage and clear_pending).
THEOREM PendingAlwaysPaired == Spec => []PendingPaired
<1>1. IInv => PendingPaired
  BY DEF IInv, Files
<1> QED
  BY <1>1, Inductive, PTL

\* Every activation puts in place what its receipt names, leaves what it
\* replaces as the backup, and moves forward when the process runs what it
\* replaces (update.rs, activate and replace).
THEOREM ActivationsSafe == Spec => InstallsSafely
<1> DEFINE Safe(p) ==
      At(p, "install") /\ pc'[p] = "unlist" =>
        /\ target' = applied /\ target' # 0
        /\ backup' = target
        /\ ver[p] = target => target' > target
<1>1. ASSUME IInv, [Next]_vars, NEW p \in Procs
      PROVE  Safe(p)
  <2>0. /\ Applying(p) /\ Exclusive /\ pc \in [Procs -> Labels]
        /\ leave \in [Procs -> {"idle", "exec"}]
    BY <1>1 DEF IInv, Files, TypeOK
  <2>1. CASE Install(p)
    BY <2>0, <2>1 DEF Install, Applying, At
  <2>2. CASE ~Install(p)
    <3> SUFFICES ASSUME pc[p] = "install", pc'[p] = "unlist"
                 PROVE  FALSE
      BY DEF At
    <3> USE <1>1, <2>0, <2>2 DEF At, Goto, Unlock, Acquire
    <3>1. ASSUME NEW q \in Procs, Process(q) PROVE FALSE
      BY <3>1 DEF Process, Launch, Exec, Stop, Fail
    <3>2. ASSUME NEW q \in Procs, Startup(q) PROVE FALSE
      BY <3>2 DEF Startup, Decide, Activate, ActivateRefused, DecideNothing, DecideObsolete,
           DecideApply, Backup, Install
    <3>3. ASSUME NEW q \in Procs, Clear(q) PROVE FALSE
      BY <3>3 DEF Clear, Unlist, Unbin
    <3>4. ASSUME NEW q \in Procs, Command(q) PROVE FALSE
      BY <3>4 DEF Command, Rollback, RestoreNothing, Restore, SetOff, SetPolicy
    <3>5. ASSUME NEW q \in Procs, Background(q) PROVE FALSE
      BY <3>5 DEF Background, Poll, Record, Ask, Consider, Stage, StageRefused, Fetch, Unpair,
           Persist, List, Report
    <3>6. ASSUME NEW v \in Maybe, Publish(v) PROVE FALSE
      BY <3>6 DEF Publish
    <3>7. CASE Elapse
      BY <3>7 DEF Elapse
    <3>8. CASE UNCHANGED vars
      BY <3>8 DEF vars
    <3> QED
      BY <3>1, <3>2, <3>3, <3>4, <3>5, <3>6, <3>7, <3>8 DEF Next
  <2> QED
    BY <2>1, <2>2
<1>2. IInv /\ [Next]_vars => [\A p \in Procs : Safe(p)]_vars
  BY <1>1
<1> QED
  BY <1>2, Inductive, PTL DEF Spec, InstallsSafely

-----------------------------------------------------------------------------
(* One check in six hours *)

\* Until a check is recorded nobody makes one; then one process may, once.
Window ==
  /\ asked <= 1
  /\ ~checked => asked = 0 /\ \A p \in Procs : pc[p] # "ask"
  /\ \A p, q \in Procs : pc[p] = "ask" => asked = 0 /\ (pc[q] = "ask" => p = q)

LEMMA WindowStep ==
  ASSUME TypeOK, Window, [Next]_vars
  PROVE  Window'
<1> USE DEF At, Goto, Unlock, Acquire, cache, Window
<1>1. /\ pc \in [Procs -> Labels] /\ leave \in [Procs -> {"idle", "exec"}]
      /\ asked \in Nat /\ checked \in BOOLEAN
  BY DEF TypeOK
<1>2. ASSUME NEW p \in Procs, Process(p) PROVE Window'
  BY <1>1, <1>2 DEF Process, Launch, Exec, Stop, Fail
<1>3. ASSUME NEW p \in Procs, Startup(p) PROVE Window'
  BY <1>1, <1>3 DEF Startup, Decide, Activate, ActivateRefused, DecideNothing, DecideObsolete,
       DecideApply, Backup, Install
<1>4. ASSUME NEW p \in Procs, Clear(p) PROVE Window'
  BY <1>1, <1>4 DEF Clear, Unlist, Unbin
<1>5. ASSUME NEW p \in Procs, Command(p) PROVE Window'
  BY <1>1, <1>5 DEF Command, Rollback, RestoreNothing, Restore, SetOff, SetPolicy
<1>6. ASSUME NEW p \in Procs, Record(p) PROVE Window'
  BY <1>1, <1>6 DEF Record
<1>7. ASSUME NEW p \in Procs, Ask(p) PROVE Window'
  BY <1>1, <1>7 DEF Ask
<1>8. ASSUME NEW p \in Procs, Report(p) PROVE Window'
  BY <1>1, <1>8 DEF Report
<1>9. ASSUME NEW p \in Procs, Background(p), ~Record(p), ~Ask(p), ~Report(p) PROVE Window'
  BY <1>1, <1>9 DEF Background, Poll, Consider, Stage, StageRefused, Fetch, Unpair, Persist, List
<1>10. ASSUME NEW v \in Maybe, Publish(v) PROVE Window'
  BY <1>1, <1>10 DEF Publish
<1>11. CASE Elapse
  BY <1>1, <1>11 DEF Elapse, Checking
<1>12. CASE UNCHANGED vars
  BY <1>1, <1>12 DEF vars
<1> QED
  BY <1>2, <1>3, <1>4, <1>5, <1>6, <1>7, <1>8, <1>9, <1>10, <1>11, <1>12 DEF Next

\* "It polls at most once every six hours across application instances"
\* (update.rs, spawn_background), whatever stops or fails.
THEOREM AskedOnce == Spec => []OncePerWindow
<1>1. Init => Window
  BY DEF Init, Window
<1>2. TypeOK /\ Window /\ [Next]_vars => Window'
  BY WindowStep
<1>3. Window => OncePerWindow
  BY DEF Window, OncePerWindow
<1> QED
  BY <1>1, <1>2, <1>3, TypeCorrect, PTL DEF Spec

-----------------------------------------------------------------------------
(* Numbers and orders *)

\* A bounded set of numbers has a greatest one.
LEMMA Greatest ==
  ASSUME NEW S \in SUBSET Nat, NEW a \in S, NEW b \in Nat, \A k \in S : k <= b
  PROVE  \E m \in S : \A k \in S : k <= m
<1> DEFINE gaps == {n \in Nat : b - n \in S}
<1>1. b - a \in gaps
  BY b - (b - a) = a
<1>2. PICK g \in gaps : \A h \in gaps : ~ (<<h, g>> \in {ss \in Nat \X Nat : ss[1] < ss[2]})
  BY <1>1, NatLessThanWellFounded, WFMin DEF OpToRel
<1>3. \A h \in gaps : ~ (h < g)
  BY <1>1, <1>2
<1>4. \A k \in S : b - k \in gaps /\ b - g \in S
  BY \A k \in S : b - (b - k) = k
<1> QED
  BY <1>3, <1>4

\* An order of a finite set names every member.
LEMMA OrderComplete ==
  ASSUME NEW S, IsFiniteSet(S), NEW order \in SetToSeqs(S)
  PROVE  order \in Seq(S) /\ ToSet(order) = S
<1> DEFINE D == 1 .. Cardinality(S)
<1>1. Cardinality(S) \in Nat
  BY FS_CardinalityType
<1>2. order \in [D -> S] /\ \A i, j \in D : i # j => order[i] # order[j]
  BY DEF SetToSeqs
<1>3. IsFiniteSet(D) /\ Cardinality(D) = Cardinality(S)
  BY <1>1, FS_Interval
<1>4. order \in Injection(D, S)
  BY <1>2, Fun_IsInj
<1>5. order \in Surjection(D, S)
  BY <1>3, <1>4, FS_Injection
<1>6. \A x \in S : \E i \in D : order[i] = x
  BY <1>5 DEF Surjection
<1>7. order \in Seq(S) /\ DOMAIN order = D
  BY <1>1, <1>2
<1> QED
  BY <1>2, <1>6, <1>7 DEF ToSet

-----------------------------------------------------------------------------
(* Pictures *)

Numbered == [number : Nat, pictures : SUBSET Pictures]

AssetType ==
  /\ shown \in Numbered /\ sent \subseteq Pictures /\ kept \subseteq Pictures /\ painted \in Nat
  /\ wires \in [control : Seq(Pictures), slot : Numbered \cup {NoScene}]
  /\ Len(wires.control) <= AssetRoom
  /\ view \in [number : Nat, pictures : SUBSET Pictures, filled : SUBSET Pictures]

\* A skin recorded as sent is with the frontend or on its way to it; the skins of
\* a scene that has left are recorded; those of the scene on screen that are there
\* fill it.
SkinsInv ==
  /\ sent \cap Skins \subseteq kept \cup ToSet(wires.control)
  /\ wires.slot # NoScene => wires.slot.pictures \cap Skins \subseteq sent
  /\ view.pictures \cap Skins \subseteq sent
  /\ view.pictures \cap Skins \cap kept \subseteq view.filled

AssetInv == AssetType /\ SkinsInv

LEMMA ConcatSet ==
  ASSUME NEW S, NEW s \in Seq(S), NEW t \in Seq(S)
  PROVE  ToSet(s \o t) = ToSet(s) \cup ToSet(t)
<1>1. /\ ToSet(s \o t) = Range(s \o t) /\ ToSet(s) = Range(s) /\ ToSet(t) = Range(t)
  BY DEF ToSet, Range
<1> QED
  BY <1>1, RangeConcatenation

\* What one painting sends: some of the pictures that are not there, recorded and
\* put on the channel alike; all of them before the scene itself may go.
LEMMA Painted ==
  ASSUME AssetsAssumption, AssetType, Paint
  PROVE  \E gone \in Seq(Pictures) :
           /\ sent' = Remembered \cup ToSet(gone)
           /\ wires'.control = wires.control \o gone /\ Len(gone) <= AssetRoom - Len(wires.control)
           /\ \/ /\ shown.pictures \subseteq sent' /\ painted' = shown.number
                 /\ wires' = [control |-> wires.control \o gone, slot |-> shown]
              \/ /\ painted' = painted
                 /\ wires' = [control |-> wires.control \o gone, slot |-> wires.slot]
<1> DEFINE need == shown.pictures \ Remembered
           room == AssetRoom - Len(wires.control)
           fits(order) == {n \in 0 .. Len(order) :
                             /\ n <= room
                             /\ \A k \in 1 .. n : order[k] \in Skins =>
                                  Cardinality(SentNow(order, k - 1) \cap Skins) < SkinCount}
           most(order) == CHOOSE m \in fits(order) : \A k \in fits(order) : k <= m
<1>1. PICK order \in SetToSeqs(need) :
        /\ sent' = SentNow(order, most(order))
        /\ wires' = [control |-> wires.control \o SubSeq(order, 1, most(order)),
                     slot |-> IF most(order) = Len(order) THEN shown ELSE wires.slot]
        /\ painted' = IF most(order) = Len(order) THEN shown.number ELSE painted
  BY DEF Paint
<1>2. need \subseteq Pictures /\ IsFiniteSet(need)
  BY FS_Union, FS_Subset DEF AssetsAssumption, AssetType, Numbered, Pictures
<1>3. order \in Seq(need) /\ order \in Seq(Pictures) /\ ToSet(order) = need
  BY <1>2, OrderComplete, SeqMonotonic
<1>4. Len(order) \in Nat /\ room \in Nat
  BY <1>3, LenProperties DEF AssetsAssumption, AssetType
<1>5. 0 \in fits(order) /\ fits(order) \subseteq Nat /\ \A k \in fits(order) : k <= Len(order)
  BY <1>4
<1> DEFINE n == most(order)
<1> HIDE DEF need, room
<1>6. n \in fits(order)
  <2>1. \E m \in fits(order) : \A k \in fits(order) : k <= m
    BY <1>4, <1>5, Greatest
  <2> QED
    BY <2>1
<1>7. n \in 0 .. Len(order) /\ n <= room
  BY <1>6
<1> HIDE DEF n
<1> DEFINE gone == SubSeq(order, 1, n)
<1>8. gone \in Seq(Pictures) /\ Len(gone) = n
  BY <1>3, <1>4, <1>7
<1>9. n = Len(order) => gone = order
  BY <1>3, <1>4
<1>10. sent' = Remembered \cup ToSet(gone)
  BY <1>1 DEF SentNow, n
<1>11. n = Len(order) => shown.pictures \subseteq sent'
  BY <1>3, <1>9, <1>10 DEF need
<1>12. /\ wires' = [control |-> wires.control \o gone,
                    slot |-> IF n = Len(order) THEN shown ELSE wires.slot]
       /\ painted' = IF n = Len(order) THEN shown.number ELSE painted
  BY <1>1 DEF n
<1> QED
  BY <1>7, <1>8, <1>10, <1>11, <1>12 DEF room

LEMMA AssetNextInv ==
  ASSUME AssetsAssumption, AssetInv, [AssetNext]_assetVars PROVE AssetInv'
<1> USE DEF AssetInv, AssetType, SkinsInv, Numbered
<1>1. CASE Change
  BY <1>1 DEF Change, Scenes
<1>2. CASE Paint
  <2>1. PICK gone \in Seq(Pictures) :
          /\ sent' = Remembered \cup ToSet(gone)
          /\ wires'.control = wires.control \o gone
          /\ Len(gone) <= AssetRoom - Len(wires.control)
          /\ \/ /\ shown.pictures \subseteq sent' /\ painted' = shown.number
                /\ wires' = [control |-> wires.control \o gone, slot |-> shown]
             \/ /\ painted' = painted
                /\ wires' = [control |-> wires.control \o gone, slot |-> wires.slot]
    BY <1>2, Painted
  <2>2. UNCHANGED <<shown, kept, view>>
    BY <1>2 DEF Paint
  <2>3. sent \cap Skins \subseteq Remembered /\ Remembered \subseteq sent
    BY DEF Remembered
  <2>4. /\ ToSet(wires.control \o gone) = ToSet(wires.control) \cup ToSet(gone)
        /\ wires.control \o gone \in Seq(Pictures)
        /\ Len(wires.control \o gone) = Len(wires.control) + Len(gone)
        /\ ToSet(gone) \subseteq Pictures
    <3>1. wires.control \in Seq(Pictures)
      OBVIOUS
    <3>2. ToSet(wires.control \o gone) = ToSet(wires.control) \cup ToSet(gone)
      BY <3>1, ConcatSet
    <3>3. /\ wires.control \o gone \in Seq(Pictures)
          /\ Len(wires.control \o gone) = Len(wires.control) + Len(gone)
      BY <3>1, ConcatProperties
    <3>4. ToSet(gone) \subseteq Pictures
      BY LenProperties, ElementOfSeq DEF ToSet
    <3> QED
      BY <3>2, <3>3, <3>4
  <2>5. /\ Len(wires.control) \in Nat /\ Len(gone) \in Nat /\ AssetRoom \in Nat
    BY LenProperties DEF AssetsAssumption
  <2>6. /\ sent' \subseteq Pictures /\ painted' \in Nat
        /\ wires' \in [control : Seq(Pictures), slot : Numbered \cup {NoScene}]
        /\ Len(wires'.control) <= AssetRoom
    <3>1. sent' \subseteq Pictures
      BY <2>1, <2>3, <2>4
    <3>2. painted' \in Nat /\ wires.slot \in Numbered \cup {NoScene}
      BY <2>1
    <3>3. wires' \in [control : Seq(Pictures), slot : Numbered \cup {NoScene}]
      <4>1. shown \in Numbered \cup {NoScene}
        OBVIOUS
      <4> HIDE DEF Numbered, AssetInv, AssetType
      <4>2. \A z \in Numbered \cup {NoScene} :
              [control |-> wires.control \o gone, slot |-> z]
                \in [control : Seq(Pictures), slot : Numbered \cup {NoScene}]
        BY <2>4
      <4>3. wires' = [control |-> wires.control \o gone, slot |-> shown]
            \/ wires' = [control |-> wires.control \o gone, slot |-> wires.slot]
        BY <2>1
      <4> QED
        BY <3>2, <4>1, <4>2, <4>3
    <3>4. Len(wires'.control) <= AssetRoom
      BY <2>1, <2>4, <2>5
    <3> QED
      BY <3>1, <3>2, <3>3, <3>4
  <2>7. sent' \cap Skins \subseteq kept \cup ToSet(wires'.control)
    BY <2>1, <2>3, <2>4
  <2>8. sent \cap Skins \subseteq sent'
    BY <2>1, <2>3
  <2>9. wires'.slot # NoScene => wires'.slot.pictures \cap Skins \subseteq sent'
    BY <2>1, <2>8
  <2>10. view.pictures \cap Skins \subseteq sent'
    BY <2>8
  <2> QED
    BY <2>2, <2>6, <2>7, <2>9, <2>10
<1>3. CASE Insert
  <2> DEFINE a == Head(wires.control)
  <2>1. /\ wires.control # <<>> /\ kept' = Kept(a)
        /\ view' = [view EXCEPT !.filled = @ \cup (kept' \cap view.pictures)]
        /\ wires' = [wires EXCEPT !.control = Tail(@)]
        /\ UNCHANGED <<shown, sent, painted>>
    BY <1>3 DEF Insert
  <2>2. /\ a \in Pictures /\ Tail(wires.control) \in Seq(Pictures)
        /\ Len(Tail(wires.control)) <= AssetRoom
        /\ ToSet(wires.control) \subseteq ToSet(Tail(wires.control)) \cup {a}
    <3>1. /\ wires.control \in Seq(Pictures) /\ Len(wires.control) \in Nat \ {0}
          /\ AssetRoom \in Nat
      BY <2>1, EmptySeq DEF AssetsAssumption
    <3>2. /\ a \in Pictures /\ Tail(wires.control) \in Seq(Pictures)
          /\ Len(Tail(wires.control)) = Len(wires.control) - 1
          /\ \A k \in 1 .. Len(wires.control) - 1 : Tail(wires.control)[k] = wires.control[k + 1]
          /\ a = wires.control[1]
      BY <3>1
    <3>3. \A k \in DOMAIN wires.control : k = 1 \/ k - 1 \in DOMAIN Tail(wires.control)
      BY <3>1, <3>2
    <3>4. ToSet(wires.control) \subseteq ToSet(Tail(wires.control)) \cup {a}
      <4> SUFFICES ASSUME NEW k \in DOMAIN wires.control, k # 1
                   PROVE  wires.control[k] \in ToSet(Tail(wires.control))
        BY <3>2 DEF ToSet
      <4>1. k \in 1 .. Len(wires.control) /\ k - 1 \in 1 .. Len(wires.control) - 1
        BY <3>1
      <4>2. wires.control[k] = Tail(wires.control)[k - 1]
        BY <3>1, <3>2, <4>1
      <4> QED
        BY <3>3, <4>2 DEF ToSet
    <3> QED
      BY <3>1, <3>2, <3>4
  <2> HIDE DEF a
  <2>3. kept' \subseteq Pictures /\ kept \cap Skins \subseteq kept' /\ a \in kept'
    BY <2>1, <2>2 DEF Kept, Pictures
  <2>4. wires'.control = Tail(wires.control) /\ wires'.slot = wires.slot
        /\ wires' \in [control : Seq(Pictures), slot : Numbered \cup {NoScene}]
    BY <2>1, <2>2
  <2>5. /\ view' \in [number : Nat, pictures : SUBSET Pictures, filled : SUBSET Pictures]
        /\ view'.pictures = view.pictures /\ kept' \cap view.pictures \subseteq view'.filled
    BY <2>1, <2>3
  <2> QED
    BY <2>1, <2>2, <2>3, <2>4, <2>5
<1>4. CASE TakeScene
  BY <1>4 DEF TakeScene
<1>5. CASE Reattach
  BY <1>5 DEF Reattach, AssetsAssumption
<1>6. CASE UNCHANGED assetVars
  BY <1>6 DEF assetVars
<1> QED
  BY <1>1, <1>2, <1>3, <1>4, <1>5, <1>6 DEF AssetNext

\* The skins of the scene on screen are there once its controls have been read, for
\* every set of pictures and whatever previews each side forgets when ("Reliable
\* assets are cached independently of the replaceable scene queue").
THEOREM SkinsAlwaysStay ==
  ASSUME AssetsAssumption PROVE AssetInit /\ [][AssetNext]_assetVars => []SkinsStay
<1>1. AssetInit => AssetInv
  BY DEF AssetInit, AssetInv, AssetType, SkinsInv, Numbered, AssetsAssumption
<1>2. AssetInv /\ [AssetNext]_assetVars => AssetInv'
  BY AssetNextInv
<1>3. AssetInv => SkinsStay
  <2> SUFFICES ASSUME AssetInv, Settled PROVE view.pictures \cap Skins \subseteq view.filled
    BY DEF SkinsStay
  <2>1. ToSet(wires.control) = {}
    BY DEF Settled, ToSet
  <2> QED
    BY <2>1 DEF AssetInv, SkinsInv
<1> QED
  BY <1>1, <1>2, <1>3, PTL

-----------------------------------------------------------------------------
(* Connections *)

OutMsg == [type : {"hello", "ack", "other", "error"}] \cup [type : {"open"}, id : Nat]
InMsg == [type : {"hello"}, by : Windows] \cup [type : {"input"}, link : BOOLEAN]
           \cup [type : {"detach", "eof"}]
           \cup [type : {"result"}, id : Nat, unsupported : BOOLEAN]
Connection == [by : Windows \cup {Probe}, stage : {"candidate", "peer", "gone"}, hello : BOOLEAN,
               in : Seq(InMsg), out : Seq(OutMsg), broken : BOOLEAN]

AttType ==
  /\ sockets \in Seq(Connection)
  /\ loop \in [peer : 0 .. Len(sockets), batch : Seq(InMsg), effects : Seq(Nat),
               exclusive : BOOLEAN]
  /\ links \in [available : BOOLEAN, next : Nat, pending : SUBSET Nat, queued : Seq(Nat),
                asked : Seq(1 .. Len(sockets))]
  /\ Len(links.asked) = links.next
  /\ windows \in [Windows -> [alive : BOOLEAN, conn : 0 .. Len(sockets), connected : BOOLEAN,
                              last : Nat, run : Nat, openers : SUBSET [id : Nat, run : Nat]]]
  /\ opened \in [1 .. MaxLinks -> Seq(Nat)]
  /\ seen \in [reply : BOOLEAN, events : Nat]

\* A candidate has been told nothing; what the loop holds it holds for its peer, and
\* only one that has said Hello can have asked for anything.
StageInv ==
  /\ \A c \in Socket : sockets[c].stage = "candidate" => sockets[c].out = <<>> /\ ~sockets[c].hello
  /\ loop.peer # 0 => sockets[loop.peer].stage = "peer"
  /\ loop.peer = 0 => loop.batch = <<>> /\ loop.effects = <<>> /\ links.queued = <<>>
  /\ links.queued # <<>> => sockets[loop.peer].hello

\* The messages of a turn that are not yet handled find room for their replies.
RoomInv ==
  /\ ~seen.reply
  /\ loop.batch # <<>> => Len(loop.batch) + Len(sockets[loop.peer].out) <= Room

\* The links on their way in a connection's controls.
IdsOf(q) == {n \in Nat : \E i \in DOMAIN q : q[i].type = "open" /\ q[i].id = n}
Ordered(q) == \A i, j \in DOMAIN q :
                i < j /\ q[i].type = "open" /\ q[j].type = "open" => q[i].id < q[j].id
Rising(s) == \A i, j \in DOMAIN s : i < j => s[i] < s[j]
Below(S, T) == \A a \in S, b \in T : a < b

\* A link goes from the application's queue through the loop and the controls of the
\* connection it was asked on to the opener, behind those asked before it.
LinkInv ==
  /\ \A c \in Socket : /\ Ordered(sockets[c].out)
                       /\ \A n \in IdsOf(sockets[c].out) :
                            n \in 1 .. links.next /\ links.asked[n] = c
  /\ Rising(loop.effects) /\ Rising(links.queued)
  /\ \A n \in ToSet(loop.effects) \cup ToSet(links.queued) :
       n \in 1 .. links.next /\ links.asked[n] = loop.peer
  /\ Below(ToSet(loop.effects), ToSet(links.queued))
  /\ loop.peer # 0 => Below(IdsOf(sockets[loop.peer].out),
                            ToSet(loop.effects) \cup ToSet(links.queued))
  /\ \A n \in 1 .. MaxLinks : opened[n] # <<>> =>
       /\ n <= links.next /\ opened[n] = <<links.asked[n]>>
       /\ Below({n}, IdsOf(sockets[links.asked[n]].out))
       /\ links.asked[n] = loop.peer => Below({n}, ToSet(loop.effects) \cup ToSet(links.queued))

AttInv == AttType /\ StageInv /\ RoomInv /\ LinkInv

\* Sequences of controls and of links.
LEMMA ControlAppended ==
  ASSUME NEW q \in Seq(OutMsg), Ordered(q), NEW m \in OutMsg
  PROVE  /\ m.type # "open" => Ordered(Append(q, m)) /\ IdsOf(Append(q, m)) = IdsOf(q)
         /\ m.type = "open" /\ Below(IdsOf(q), {m.id}) =>
              Ordered(Append(q, m)) /\ IdsOf(Append(q, m)) = IdsOf(q) \cup {m.id}
<1> DEFINE s == Append(q, m)
<1>1. /\ Len(q) \in Nat /\ DOMAIN q = 1 .. Len(q) /\ DOMAIN s = 1 .. Len(q) + 1
      /\ s[Len(q) + 1] = m /\ \A i \in 1 .. Len(q) : s[i] = q[i]
  BY AppendProperties, LenProperties
<1>2. \A i \in DOMAIN q : q[i] \in OutMsg
  BY ElementOfSeq, LenProperties
<1>3. \A x \in OutMsg : x.type = "open" => x.id \in Nat
  BY DEF OutMsg
<1> HIDE DEF s
<1>4. CASE m.type # "open"
  BY <1>1, <1>2, <1>3, <1>4 DEF Ordered, IdsOf, s
<1>5. CASE m.type = "open" /\ Below(IdsOf(q), {m.id})
  <2>1. \A i \in DOMAIN q : q[i].type = "open" => q[i].id < m.id
    BY <1>2, <1>3, <1>5 DEF Below, IdsOf
  <2>2. Ordered(s)
    BY <1>1, <1>2, <1>3, <1>5, <2>1 DEF Ordered
  <2>3. IdsOf(s) = IdsOf(q) \cup {m.id}
    BY <1>1, <1>2, <1>3, <1>5 DEF IdsOf
  <2> QED
    BY <1>5, <2>2, <2>3 DEF s
<1> QED
  BY <1>4, <1>5

LEMMA ControlRead ==
  ASSUME NEW q \in Seq(OutMsg), Ordered(q), q # <<>>
  PROVE  /\ Head(q) \in OutMsg /\ Tail(q) \in Seq(OutMsg) /\ Len(Tail(q)) = Len(q) - 1
         /\ Ordered(Tail(q)) /\ IdsOf(Tail(q)) \subseteq IdsOf(q)
         /\ Head(q).type = "open" =>
              Head(q).id \in IdsOf(q) /\ Below({Head(q).id}, IdsOf(Tail(q)))
<1> DEFINE t == Tail(q)
<1>1. /\ Len(q) \in Nat \ {0} /\ DOMAIN q = 1 .. Len(q) /\ t \in Seq(OutMsg)
      /\ Len(t) = Len(q) - 1 /\ DOMAIN t = 1 .. Len(q) - 1
      /\ Head(q) = q[1] /\ q[1] \in OutMsg
      /\ \A i \in 1 .. Len(q) - 1 : t[i] = q[i + 1]
  BY EmptySeq, LenProperties, ElementOfSeq, HeadTailProperties
<1>2. \A x \in OutMsg : x.type = "open" => x.id \in Nat
  BY DEF OutMsg
<1> HIDE DEF t
<1>3. \A i \in DOMAIN t : i + 1 \in DOMAIN q /\ t[i] = q[i + 1] /\ 1 \in DOMAIN q
  BY <1>1
<1>4. Ordered(t)
  <2> SUFFICES ASSUME NEW i \in DOMAIN t, NEW j \in DOMAIN t, i < j,
                      t[i].type = "open", t[j].type = "open"
               PROVE  t[i].id < t[j].id
    BY DEF Ordered
  <2>1. i + 1 < j + 1
    BY <1>1
  <2> QED
    BY <1>3, <2>1 DEF Ordered
<1>5. IdsOf(t) \subseteq IdsOf(q)
  BY <1>3 DEF IdsOf
<1>6. q[1].type = "open" => q[1].id \in IdsOf(q)
  BY SMTT(30), <1>1, <1>2 DEF IdsOf
<1>7. q[1].type = "open" => Below({q[1].id}, IdsOf(t))
  <2> SUFFICES ASSUME q[1].type = "open", NEW i \in DOMAIN t, t[i].type = "open"
               PROVE  q[1].id < t[i].id
    BY DEF Below, IdsOf
  <2>1. 1 < i + 1
    BY <1>1
  <2> QED
    BY <1>3, <2>1 DEF Ordered
<1> QED
  BY <1>1, <1>4, <1>5, <1>6, <1>7 DEF t

LEMMA RisingAppend ==
  ASSUME NEW s \in Seq(Nat), NEW t \in Seq(Nat), Rising(s), Rising(t), Below(ToSet(s), ToSet(t))
  PROVE  Rising(s \o t) /\ ToSet(s \o t) = ToSet(s) \cup ToSet(t) /\ s \o t \in Seq(Nat)
<1>1. /\ Len(s) \in Nat /\ Len(t) \in Nat /\ DOMAIN s = 1 .. Len(s) /\ DOMAIN t = 1 .. Len(t)
      /\ s \o t \in Seq(Nat) /\ DOMAIN (s \o t) = 1 .. Len(s) + Len(t)
      /\ \A i \in 1 .. Len(s) + Len(t) : (s \o t)[i] = IF i <= Len(s) THEN s[i] ELSE t[i - Len(s)]
  BY LenProperties, ConcatProperties
<1> DEFINE u == s \o t
<1> HIDE DEF u
<1>2. SUFFICES ASSUME NEW i \in 1 .. Len(s) + Len(t), NEW j \in 1 .. Len(s) + Len(t), i < j
               PROVE  u[i] < u[j]
  BY SMTT(30), <1>1, ConcatSet DEF Rising, u
<1>3. /\ u[i] = IF i <= Len(s) THEN s[i] ELSE t[i - Len(s)]
      /\ u[j] = IF j <= Len(s) THEN s[j] ELSE t[j - Len(s)]
  BY <1>1 DEF u
<1>4. CASE j <= Len(s)
  <2>1. i \in DOMAIN s /\ j \in DOMAIN s /\ u[i] = s[i] /\ u[j] = s[j]
    BY <1>1, <1>2, <1>3, <1>4
  <2> QED
    BY <1>2, <2>1 DEF Rising
<1>5. CASE i > Len(s)
  <2>1. /\ i - Len(s) \in DOMAIN t /\ j - Len(s) \in DOMAIN t /\ i - Len(s) < j - Len(s)
        /\ u[i] = t[i - Len(s)] /\ u[j] = t[j - Len(s)]
    BY <1>1, <1>2, <1>3, <1>5
  <2> QED
    BY <2>1 DEF Rising
<1>6. CASE i <= Len(s) /\ j > Len(s)
  <2>1. /\ i \in DOMAIN s /\ j - Len(s) \in DOMAIN t /\ u[i] = s[i] /\ u[j] = t[j - Len(s)]
    BY <1>1, <1>2, <1>3, <1>6
  <2> QED
    BY <2>1 DEF Below, ToSet
<1> QED
  BY <1>1, <1>4, <1>5, <1>6

LEMMA RisingHead ==
  ASSUME NEW s \in Seq(Nat), Rising(s), s # <<>>
  PROVE  /\ Head(s) \in Nat /\ Tail(s) \in Seq(Nat) /\ Rising(Tail(s))
         /\ ToSet(s) = {Head(s)} \cup ToSet(Tail(s)) /\ Below({Head(s)}, ToSet(Tail(s)))
<1> DEFINE t == Tail(s)
<1>1. /\ Len(s) \in Nat \ {0} /\ DOMAIN s = 1 .. Len(s) /\ t \in Seq(Nat)
      /\ DOMAIN t = 1 .. Len(s) - 1 /\ Head(s) = s[1] /\ s[1] \in Nat
      /\ \A i \in 1 .. Len(s) - 1 : t[i] = s[i + 1]
  BY EmptySeq, LenProperties, ElementOfSeq, HeadTailProperties
<1> HIDE DEF t
<1>2. \A i \in DOMAIN t : i + 1 \in DOMAIN s /\ t[i] = s[i + 1] /\ 1 \in DOMAIN s /\ 1 < i + 1
  BY SMTT(30), <1>1
<1>3. \A i, j \in DOMAIN t : i < j => i + 1 < j + 1
  BY <1>1
<1>4. Rising(t) /\ Below({s[1]}, ToSet(t))
  BY <1>2, <1>3 DEF Rising, Below, ToSet
<1>5. ToSet(s) \subseteq {s[1]} \cup ToSet(t)
  <2> SUFFICES ASSUME NEW i \in DOMAIN s, i # 1 PROVE s[i] \in ToSet(t)
    BY DEF ToSet
  <2>1. i - 1 \in DOMAIN t /\ t[i - 1] = s[i]
    BY <1>1
  <2> QED
    BY <2>1 DEF ToSet
<1>6. {s[1]} \cup ToSet(t) \subseteq ToSet(s)
  <2>1. 1 \in DOMAIN s
    BY <1>1
  <2> QED
    BY <1>2, <2>1 DEF ToSet
<1> QED
  BY <1>1, <1>4, <1>5, <1>6 DEF t

LEMMA OneControl ==
  /\ Ordered(<<>>) /\ IdsOf(<<>>) = {} /\ ToSet(<<>>) = {} /\ Rising(<<>>)
  /\ Ordered(<<[type |-> "error"]>>) /\ IdsOf(<<[type |-> "error"]>>) = {}
  BY DEF Ordered, IdsOf, ToSet, Rising

\* One connection changes.
LEMMA OneChanged ==
  ASSUME NEW ss \in Seq(Connection), NEW c \in 1 .. Len(ss), NEW r \in Connection
  PROVE  /\ [ss EXCEPT ![c] = r] \in Seq(Connection)
         /\ Len([ss EXCEPT ![c] = r]) = Len(ss)
         /\ [ss EXCEPT ![c] = r][c] = r
         /\ \A d \in 1 .. Len(ss) : d # c => [ss EXCEPT ![c] = r][d] = ss[d]
  BY ExceptSeq, LenProperties

LEMMA FieldChanged ==
  ASSUME NEW x \in Connection
  PROVE  x.out \in Seq(OutMsg) /\ x.in \in Seq(InMsg) /\ x.hello \in BOOLEAN /\ x.broken \in BOOLEAN
  BY DEF Connection

WithOut(x, q) == [x EXCEPT !.out = q]
WithIn(x, q) == [x EXCEPT !.in = q]
WithStage(x, g) == [x EXCEPT !.stage = g]
WithHello(x, h) == [x EXCEPT !.hello = h]
WithBroken(x, b) == [x EXCEPT !.broken = b]

LEMMA OutChanged ==
  ASSUME NEW x \in Connection, NEW q \in Seq(OutMsg)
  PROVE  /\ WithOut(x, q) \in Connection /\ WithOut(x, q).out = q
         /\ WithOut(x, q).stage = x.stage /\ WithOut(x, q).hello = x.hello
         /\ WithOut(x, q).broken = x.broken /\ WithOut(x, q).in = x.in
  BY DEF Connection, WithOut

LEMMA InChanged ==
  ASSUME NEW x \in Connection, NEW q \in Seq(InMsg)
  PROVE  /\ WithIn(x, q) \in Connection /\ WithIn(x, q).in = q
         /\ WithIn(x, q).stage = x.stage /\ WithIn(x, q).hello = x.hello
         /\ WithIn(x, q).broken = x.broken /\ WithIn(x, q).out = x.out
  BY DEF Connection, WithIn

LEMMA StageChanged ==
  ASSUME NEW x \in Connection, NEW g \in {"candidate", "peer", "gone"}
  PROVE  /\ WithStage(x, g) \in Connection /\ WithStage(x, g).stage = g
         /\ WithStage(x, g).hello = x.hello /\ WithStage(x, g).broken = x.broken
         /\ WithStage(x, g).in = x.in /\ WithStage(x, g).out = x.out
  BY DEF Connection, WithStage

LEMMA HelloChanged ==
  ASSUME NEW x \in Connection, NEW h \in BOOLEAN
  PROVE  /\ WithHello(x, h) \in Connection /\ WithHello(x, h).hello = h
         /\ WithHello(x, h).stage = x.stage /\ WithHello(x, h).broken = x.broken
         /\ WithHello(x, h).in = x.in /\ WithHello(x, h).out = x.out
  BY DEF Connection, WithHello

LEMMA BrokenChanged ==
  ASSUME NEW x \in Connection, NEW b \in BOOLEAN
  PROVE  /\ WithBroken(x, b) \in Connection /\ WithBroken(x, b).broken = b
         /\ WithBroken(x, b).stage = x.stage /\ WithBroken(x, b).hello = x.hello
         /\ WithBroken(x, b).in = x.in /\ WithBroken(x, b).out = x.out
  BY DEF Connection, WithBroken

LEMMA Posted ==
  ASSUME NEW ss \in Seq(Connection), NEW c \in 1 .. Len(ss), NEW m \in OutMsg
  PROVE  LET s == Post(ss, c, m) IN
         /\ s \in Seq(Connection) /\ Len(s) = Len(ss)
         /\ \A d \in 1 .. Len(ss) : d # c => s[d] = ss[d]
         /\ s[c].stage = ss[c].stage /\ s[c].hello = ss[c].hello /\ s[c].broken = ss[c].broken
         /\ IF ss[c].broken \/ Len(ss[c].out) >= Room THEN s[c].out = ss[c].out
            ELSE s[c].out = Append(ss[c].out, m)
<1>1. ss[c] \in Connection
  BY ElementOfSeq
<1> DEFINE r == WithOut(ss[c], Append(ss[c].out, m))
<1>2. r \in Connection /\ r.out = Append(ss[c].out, m) /\ r.stage = ss[c].stage
      /\ r.hello = ss[c].hello /\ r.broken = ss[c].broken
  <2>1. Append(ss[c].out, m) \in Seq(OutMsg)
    BY <1>1, FieldChanged, AppendProperties
  <2> QED
    BY <1>1, <2>1, OutChanged
<1>3. [ss EXCEPT ![c].out = Append(@, m)] = [ss EXCEPT ![c] = r]
  BY DEF WithOut
<1> HIDE DEF r
<1>4. CASE ss[c].broken \/ Len(ss[c].out) >= Room
  BY <1>4 DEF Post
<1>5. CASE ~(ss[c].broken \/ Len(ss[c].out) >= Room)
  <2>1. Post(ss, c, m) = [ss EXCEPT ![c] = r]
    BY <1>3, <1>5 DEF Post
  <2> QED
    BY <1>2, <1>5, <2>1, OneChanged
<1> QED
  BY <1>4, <1>5

\* A step on which no link moves forward.
LEMMA NoLinkMoves ==
  ASSUME AttType, AttType', LinkInv, Len(sockets) <= Len(sockets'),
         \A c \in 1 .. Len(sockets) :
           Ordered(sockets'[c].out) /\ IdsOf(sockets'[c].out) \subseteq IdsOf(sockets[c].out),
         \A c \in 1 .. Len(sockets') : c > Len(sockets) => sockets'[c].out = <<>>,
         links'.next = links.next, links'.asked = links.asked, UNCHANGED opened,
         \/ /\ loop'.peer = loop.peer /\ loop'.effects = loop.effects
            /\ links'.queued = links.queued \/ links'.queued = <<>>
         \/ loop'.effects = <<>> /\ links'.queued = <<>>
  PROVE  LinkInv'
<1> USE OneControl
<1>1. /\ Len(sockets) \in Nat /\ Len(sockets') \in Nat
      /\ loop.peer \in 0 .. Len(sockets)
      /\ \A n \in 1 .. links.next : links.asked[n] \in 1 .. Len(sockets)
  BY LenProperties, ElementOfSeq DEF AttType
<1>2. \A c \in 1 .. Len(sockets') :
        /\ Ordered(sockets'[c].out)
        /\ IdsOf(sockets'[c].out) \subseteq
             IF c <= Len(sockets) THEN IdsOf(sockets[c].out) ELSE {}
  BY SMTT(30), <1>1
<1>3. \A c \in 1 .. Len(sockets') : /\ Ordered(sockets'[c].out)
                                   /\ \A n \in IdsOf(sockets'[c].out) :
                                        n \in 1 .. links.next /\ links.asked[n] = c
  BY <1>1, <1>2 DEF LinkInv, Socket
<1>4. /\ ToSet(loop'.effects) \subseteq ToSet(loop.effects)
      /\ ToSet(links'.queued) \subseteq ToSet(links.queued)
      /\ ToSet(loop'.effects) \cup ToSet(links'.queued) # {} => loop'.peer = loop.peer
      /\ Rising(loop'.effects) /\ Rising(links'.queued)
  BY DEF LinkInv
<1>5. /\ \A n \in ToSet(loop'.effects) \cup ToSet(links'.queued) :
           n \in 1 .. links.next /\ links.asked[n] = loop'.peer
      /\ Below(ToSet(loop'.effects), ToSet(links'.queued))
  BY <1>4 DEF LinkInv, Below
<1>6. loop'.peer # 0 => Below(IdsOf(sockets'[loop'.peer].out),
                             ToSet(loop'.effects) \cup ToSet(links'.queued))
  BY <1>1, <1>2, <1>4 DEF LinkInv, Below
<1>7. ASSUME NEW n \in 1 .. MaxLinks, opened[n] # <<>>
      PROVE  /\ n <= links.next /\ opened[n] = <<links.asked[n]>>
             /\ Below({n}, IdsOf(sockets'[links.asked[n]].out))
             /\ links.asked[n] = loop'.peer =>
                  Below({n}, ToSet(loop'.effects) \cup ToSet(links'.queued))
  <2>1. /\ n <= links.next /\ opened[n] = <<links.asked[n]>>
        /\ Below({n}, IdsOf(sockets[links.asked[n]].out))
        /\ links.asked[n] = loop.peer => Below({n}, ToSet(loop.effects) \cup ToSet(links.queued))
    BY <1>7 DEF LinkInv
  <2>2. links.next \in Nat
    BY DEF AttType
  <2>3. links.asked[n] \in 1 .. Len(sockets)
    BY <1>1, <2>1, <2>2
  <2>4. Below({n}, IdsOf(sockets'[links.asked[n]].out))
    BY <2>1, <2>3 DEF Below
  <2>5. links.asked[n] = loop'.peer =>
          Below({n}, ToSet(loop'.effects) \cup ToSet(links'.queued))
    BY <1>4, <2>1 DEF Below
  <2> QED
    BY <2>1, <2>4, <2>5
<1>8. \A c \in Socket' : /\ Ordered(sockets'[c].out)
                         /\ \A n \in IdsOf(sockets'[c].out) :
                              n \in 1 .. links'.next /\ links'.asked[n] = c
  BY <1>3 DEF Socket
<1>9. \A n \in 1 .. MaxLinks : opened'[n] # <<>> =>
        /\ n <= links'.next /\ opened'[n] = <<links'.asked[n]>>
        /\ Below({n}, IdsOf(sockets'[links'.asked[n]].out))
        /\ links'.asked[n] = loop'.peer =>
             Below({n}, ToSet(loop'.effects) \cup ToSet(links'.queued))
  BY <1>7
<1> QED
  BY <1>4, <1>5, <1>6, <1>8, <1>9 DEF LinkInv

\* A step that tells no connection anything and leaves the loop and the links alone.
LEMMA Quietly ==
  ASSUME AttInv, AttType', Len(sockets) <= Len(sockets'),
         \A c \in 1 .. Len(sockets) :
           /\ sockets'[c].out = sockets[c].out /\ sockets'[c].hello = sockets[c].hello
           /\ \/ sockets'[c].stage = sockets[c].stage
              \/ sockets'[c].stage = "gone" /\ c # loop.peer,
         \A c \in 1 .. Len(sockets') :
           c > Len(sockets) => sockets'[c].out = <<>> /\ ~sockets'[c].hello,
         UNCHANGED <<loop, links, opened>>, seen'.reply = seen.reply
  PROVE  AttInv'
<1>1. Len(sockets) \in Nat /\ Len(sockets') \in Nat /\ loop.peer \in 0 .. Len(sockets)
  BY LenProperties DEF AttInv, AttType
<1>2. \A c \in 1 .. Len(sockets') : c \in 1 .. Len(sockets) \/ c > Len(sockets)
  BY <1>1
<1>3. LinkInv'
  BY <1>1, NoLinkMoves DEF AttInv, LinkInv, Socket
<1>4. \A c \in Socket' : sockets'[c].stage = "candidate" =>
                           sockets'[c].out = <<>> /\ ~sockets'[c].hello
  BY <1>2 DEF AttInv, StageInv, Socket
<1>5. StageInv'
  BY <1>1, <1>4 DEF AttInv, StageInv
<1>6. RoomInv'
  <2> SUFFICES ASSUME loop.batch # <<>> PROVE Len(loop.batch) + Len(sockets'[loop.peer].out) <= Room
    BY DEF AttInv, RoomInv
  <2>1. loop.peer \in 1 .. Len(sockets)
    BY <1>1 DEF AttInv, StageInv
  <2> QED
    BY <2>1 DEF AttInv, RoomInv
<1> QED
  BY <1>3, <1>5, <1>6 DEF AttInv

\* What a frontend or the network does to the session's end of one connection.
LEMMA Heard ==
  ASSUME AttInv, AttType', NEW c \in Socket, NEW r \in Connection, sockets' = [sockets EXCEPT ![c] = r],
         r.out = sockets[c].out, r.hello = sockets[c].hello,
         r.stage = sockets[c].stage \/ (r.stage = "gone" /\ c # loop.peer),
         UNCHANGED <<loop, links, opened>>, seen'.reply = seen.reply
  PROVE  AttInv'
<1>1. Len(sockets') = Len(sockets) /\ Len(sockets) \in Nat
  BY OneChanged, LenProperties DEF AttInv, AttType, Socket
<1>2. \A d \in 1 .. Len(sockets) : IF d = c THEN sockets'[d] = r ELSE sockets'[d] = sockets[d]
  BY OneChanged DEF AttInv, AttType, Socket
<1> QED
  BY <1>1, <1>2, Quietly

LEMMA NothingHeard ==
  ASSUME AttInv, AttType', UNCHANGED <<sockets, loop, links, opened>>, seen'.reply = seen.reply
  PROVE  AttInv'
<1>1. Len(sockets) \in Nat
  BY LenProperties DEF AttInv, AttType
<1> QED
  BY <1>1, Quietly

\* Only the connections change in number.
TypeButSockets ==
  /\ loop \in [peer : 0 .. Len(sockets), batch : Seq(InMsg), effects : Seq(Nat),
               exclusive : BOOLEAN]
  /\ links \in [available : BOOLEAN, next : Nat, pending : SUBSET Nat, queued : Seq(Nat),
                asked : Seq(1 .. Len(sockets))]
  /\ Len(links.asked) = links.next
  /\ opened \in [1 .. MaxLinks -> Seq(Nat)]

LEMMA MoreSockets ==
  ASSUME AttType, Len(sockets) <= Len(sockets'), Len(sockets') \in Nat, UNCHANGED <<loop, links, opened>>
  PROVE  TypeButSockets'
<1>1. Len(sockets) \in Nat /\ 1 .. Len(sockets) \subseteq 1 .. Len(sockets')
  BY LenProperties DEF AttType
<1>2. links.asked \in Seq(1 .. Len(sockets'))
  BY <1>1, SeqMonotonic DEF AttType
<1>3. links' \in [available : BOOLEAN, next : Nat, pending : SUBSET Nat, queued : Seq(Nat),
                  asked : Seq(1 .. Len(sockets'))]
  BY <1>2 DEF AttType
<1> QED
  BY <1>1, <1>3 DEF AttType, TypeButSockets

LEMMA ConnectStep ==
  ASSUME AttInv, NEW w \in Windows \cup {Probe}, Connect(w), UNCHANGED <<loop, links, opened>>,
         seen' \in [reply : {seen.reply}, events : Nat],
         windows' \in [Windows -> [alive : BOOLEAN, conn : 0 .. Len(sockets) + 1, connected : BOOLEAN,
                                   last : Nat, run : Nat, openers : SUBSET [id : Nat, run : Nat]]]
  PROVE  AttInv'
<1> DEFINE s == [Fresh(w) EXCEPT !.in = IF w = Probe THEN <<>> ELSE <<[type |-> "hello", by |-> w]>>,
                                 !.stage = IF Cardinality(Waiting) < Candidates THEN @ ELSE "gone"]
<1>1. sockets' = Append(sockets, s)
  BY DEF Connect
<1>2. s \in Connection /\ s.out = <<>> /\ ~s.hello
  <2>1. (IF w = Probe THEN <<>> ELSE <<[type |-> "hello", by |-> w]>>) \in Seq(InMsg)
    <3>1. w # Probe => [type |-> "hello", by |-> w] \in InMsg
      BY DEF InMsg
    <3> QED
      BY <3>1
  <2>2. Fresh(w) \in Connection
    BY DEF Fresh, Connection
  <2> QED
    BY <2>1, <2>2 DEF Connection, Fresh
<1> HIDE DEF s
<1>3. /\ sockets' \in Seq(Connection) /\ Len(sockets') = Len(sockets) + 1 /\ Len(sockets) \in Nat
      /\ sockets'[Len(sockets) + 1] = s
      /\ \A c \in 1 .. Len(sockets) : sockets'[c] = sockets[c]
  BY <1>1, <1>2, AppendProperties, LenProperties DEF AttInv, AttType
<1>4. AttType'
  <2>1. TypeButSockets'
    BY <1>3, MoreSockets DEF AttInv
  <2>2. seen' \in [reply : BOOLEAN, events : Nat]
    BY DEF AttInv, AttType
  <2> QED
    BY <1>3, <2>1, <2>2 DEF AttType, TypeButSockets
<1>5. \A c \in 1 .. Len(sockets') : c > Len(sockets) => sockets'[c].out = <<>> /\ ~sockets'[c].hello
  BY <1>2, <1>3
<1>6. seen'.reply = seen.reply
  OBVIOUS
<1> QED
  BY <1>3, <1>4, <1>5, <1>6, Quietly

WindowRecord ==
  [alive : BOOLEAN, conn : 0 .. Len(sockets), connected : BOOLEAN, last : Nat, run : Nat,
   openers : SUBSET [id : Nat, run : Nat]]

\* One connection is heard of, and the frontends may change.
LEMMA HeardType ==
  ASSUME AttInv, NEW c \in Socket, NEW r \in Connection, sockets' = [sockets EXCEPT ![c] = r],
         UNCHANGED <<loop, links, opened>>, seen' \in [reply : BOOLEAN, events : Nat],
         windows' \in [Windows -> WindowRecord]
  PROVE  AttType'
<1>1. sockets' \in Seq(Connection) /\ Len(sockets') = Len(sockets)
  BY OneChanged DEF AttInv, AttType, Socket
<1> QED
  BY <1>1 DEF AttInv, AttType, WindowRecord

\* What a frontend sends ends up with the session, unless the connection is broken.
LEMMA SentStep ==
  ASSUME AttInv, NEW w \in Windows, NEW m \in InMsg, sockets' = Send(w, m),
         UNCHANGED <<loop, links, opened>>, seen' \in [reply : {seen.reply}, events : Nat],
         windows' \in [Windows -> WindowRecord]
  PROVE  AttInv'
<1>1. seen' \in [reply : BOOLEAN, events : Nat] /\ seen'.reply = seen.reply
  BY DEF AttInv, AttType
<1>2. CASE sockets' = sockets
  <2>1. AttType'
    BY <1>1, <1>2 DEF AttInv, AttType, WindowRecord
  <2>2. Len(sockets) \in Nat
    BY LenProperties DEF AttInv, AttType
  <2> QED
    BY <1>1, <1>2, <2>1, <2>2, Quietly
<1>3. CASE ~(Mine(w) = 0 \/ sockets[Mine(w)].broken)
  <2> DEFINE c == Mine(w)
             r == WithIn(sockets[c], Append(sockets[c].in, m))
  <2>1. c \in Socket
    BY <1>3, LenProperties DEF Mine, Socket, AttInv, AttType
  <2>2. sockets[c] \in Connection
    BY <2>1, ElementOfSeq DEF AttInv, AttType, Socket
  <2>3. Append(sockets[c].in, m) \in Seq(InMsg)
    BY <2>2, FieldChanged, AppendProperties
  <2>6. sockets' = [sockets EXCEPT ![c] = r]
    BY <1>3 DEF Send, WithIn
  <2> HIDE DEF c
  <2>5. r \in Connection /\ r.out = sockets[c].out /\ r.stage = sockets[c].stage
        /\ r.hello = sockets[c].hello
    BY <2>2, <2>3, InChanged
  <2> HIDE DEF r
  <2>7. AttType'
    BY <1>1, <2>1, <2>5, <2>6, HeardType
  <2> QED
    BY <1>1, <2>1, <2>5, <2>6, <2>7, Heard
<1> QED
  BY <1>2, <1>3 DEF Send

\* What a frontend knows changes as follows.
Wired(x) == [x EXCEPT !.conn = Len(sockets) + 1]
Away(x) == [x EXCEPT !.alive = FALSE, !.connected = FALSE, !.conn = 0]
Noticed(x) == [x EXCEPT !.conn = 0, !.connected = FALSE, !.last = 0, !.run = @ + 1]
Greeted(x) == [x EXCEPT !.connected = TRUE, !.run = @ + 1, !.last = 0]
WiderRecord ==
  [alive : BOOLEAN, conn : 0 .. Len(sockets) + 1, connected : BOOLEAN, last : Nat, run : Nat,
   openers : SUBSET [id : Nat, run : Nat]]

LEMMA WindowParts ==
  ASSUME Len(sockets) \in Nat, NEW x \in WindowRecord
  PROVE  /\ Away(x) \in WindowRecord /\ Noticed(x) \in WindowRecord
         /\ Greeted(x) \in WindowRecord /\ Wired(x) \in WiderRecord /\ x \in WiderRecord
<1> DEFINE Conns == 0 .. Len(sockets)
           More == 0 .. Len(sockets) + 1
<1>1. 0 \in Conns /\ Len(sockets) + 1 \in More /\ Conns \subseteq More
  OBVIOUS
<1>2. /\ WindowRecord = [alive : BOOLEAN, conn : Conns, connected : BOOLEAN, last : Nat, run : Nat,
                         openers : SUBSET [id : Nat, run : Nat]]
      /\ WiderRecord = [alive : BOOLEAN, conn : More, connected : BOOLEAN, last : Nat, run : Nat,
                        openers : SUBSET [id : Nat, run : Nat]]
  BY DEF WindowRecord, WiderRecord
<1> HIDE DEF Conns, More
<1>3. x.run \in Nat
  BY <1>2
<1>4. x.run + 1 \in Nat
  BY <1>3
<1>5. Away(x) \in WindowRecord
  BY <1>1, <1>2 DEF Away
<1>6. Noticed(x) \in WindowRecord
  BY <1>1, <1>2, <1>4 DEF Noticed
<1>7. Greeted(x) \in WindowRecord
  BY <1>2, <1>4 DEF Greeted
<1>8. Wired(x) \in WiderRecord /\ x \in WiderRecord
  BY <1>1, <1>2 DEF Wired
<1> QED
  BY <1>5, <1>6, <1>7, <1>8

Later(x, n) == [x EXCEPT !.last = n]
Opening(x, n, e) == [x EXCEPT !.last = n, !.openers = @ \cup {e}]

LEMMA OpenParts ==
  ASSUME NEW x \in WindowRecord, NEW n \in Nat, NEW e \in [id : Nat, run : Nat]
  PROVE  Later(x, n) \in WindowRecord /\ Opening(x, n, e) \in WindowRecord
<1> DEFINE Conns == 0 .. Len(sockets)
           Many == SUBSET [id : Nat, run : Nat]
<1>1. WindowRecord = [alive : BOOLEAN, conn : Conns, connected : BOOLEAN, last : Nat, run : Nat,
                      openers : Many]
  BY DEF WindowRecord
<1>2. \A S \in Many : S \cup {e} \in Many
  OBVIOUS
<1> HIDE DEF Conns, Many
<1> QED
  BY <1>1, <1>2 DEF Later, Opening

LEMMA WindowChanged ==
  ASSUME AttInv, NEW w \in Windows, NEW r \in WindowRecord, windows' = [windows EXCEPT ![w] = r]
  PROVE  windows' \in [Windows -> WindowRecord]
  BY DEF AttInv, AttType, WindowRecord

LEMMA WindowFields ==
  ASSUME AttInv, NEW w \in Windows
  PROVE  /\ windows[w] \in WindowRecord /\ windows \in [Windows -> WindowRecord]
         /\ windows[w].conn \in 0 .. Len(sockets) /\ windows[w].last \in Nat
         /\ windows[w].run \in Nat /\ windows[w].openers \subseteq [id : Nat, run : Nat]
         /\ Len(sockets) \in Nat /\ seen.reply \in BOOLEAN /\ seen.events \in Nat
         /\ [seen EXCEPT !.events = @ + 1] \in [reply : {seen.reply}, events : Nat]
         /\ seen \in [reply : {seen.reply}, events : Nat]
<1>1. /\ windows \in [Windows -> WindowRecord] /\ Len(sockets) \in Nat
      /\ seen \in [reply : BOOLEAN, events : Nat]
  BY LenProperties DEF AttInv, AttType, WindowRecord
<1>2. windows[w] \in WindowRecord
  BY <1>1
<1> QED
  BY <1>1, <1>2 DEF WindowRecord

LEMMA FrontendSteps ==
  ASSUME AttachmentAssumption, AttInv, NEW w \in Windows,
         Open(w) \/ Type(w) \/ Leave(w) \/ Reap(w) \/ Notice(w)
  PROVE  AttInv'
<1>1. /\ windows[w] \in WindowRecord /\ windows \in [Windows -> WindowRecord] /\ Len(sockets) \in Nat
      /\ [seen EXCEPT !.events = @ + 1] \in [reply : {seen.reply}, events : Nat]
      /\ seen \in [reply : {seen.reply}, events : Nat]
  BY WindowFields
<1>2. CASE Open(w)
  <2>1. windows' = [windows EXCEPT ![w].conn = Len(sockets) + 1] /\ Connect(w)
        /\ UNCHANGED <<loop, links, opened, seen>>
    BY <1>2 DEF Open
  <2>2. windows' = [windows EXCEPT ![w] = Wired(windows[w])]
    BY <2>1 DEF Wired
  <2>3. Wired(windows[w]) \in WiderRecord /\ \A v \in Windows : windows[v] \in WiderRecord
    BY <1>1, WindowParts
  <2>4. windows' \in [Windows -> WiderRecord]
    BY <1>1, <2>2, <2>3
  <2>5. windows' \in [Windows -> [alive : BOOLEAN, conn : 0 .. Len(sockets) + 1,
                                  connected : BOOLEAN, last : Nat, run : Nat,
                                  openers : SUBSET [id : Nat, run : Nat]]]
    BY <2>4 DEF WiderRecord
  <2>6. seen' \in [reply : {seen.reply}, events : Nat]
    BY <1>1, <2>1
  <2> QED
    BY <2>1, <2>5, <2>6, ConnectStep
<1>3. CASE Type(w)
  <2>1. PICK link \in BOOLEAN : sockets' = Send(w, [type |-> "input", link |-> link])
    BY <1>3 DEF Type
  <2>2. [type |-> "input", link |-> link] \in InMsg
    BY DEF InMsg
  <2>3. seen' = [seen EXCEPT !.events = @ + 1] /\ UNCHANGED <<loop, links, windows, opened>>
    BY <1>3 DEF Type, Count
  <2> QED
    BY <1>1, <2>1, <2>2, <2>3, SentStep
<1>4. CASE Leave(w)
  <2>1. [type |-> "detach"] \in InMsg
    BY DEF InMsg
  <2>2. /\ sockets' = Send(w, [type |-> "detach"])
        /\ windows' = [windows EXCEPT ![w] = Away(windows[w])]
        /\ seen' = [seen EXCEPT !.events = @ + 1] /\ UNCHANGED <<loop, links, opened>>
    BY <1>4 DEF Leave, Count, Away
  <2>3. Away(windows[w]) \in WindowRecord
    BY <1>1, WindowParts
  <2>4. windows' \in [Windows -> WindowRecord]
    BY <2>2, <2>3, WindowChanged
  <2> QED
    BY <1>1, <2>1, <2>2, <2>4, SentStep
<1>5. CASE Reap(w)
  <2>1. PICK o \in windows[w].openers :
          /\ windows' = [windows EXCEPT ![w] = [windows[w] EXCEPT !.openers = @ \ {o}]]
          /\ sockets' = IF o.run = windows[w].run /\ windows[w].connected
                        THEN Send(w, [type |-> "result", id |-> o.id, unsupported |-> FALSE])
                        ELSE sockets
          /\ UNCHANGED <<loop, links, opened, seen>>
    BY <1>5 DEF Reap
  <2>2. [type |-> "result", id |-> o.id, unsupported |-> FALSE] \in InMsg
    <3>1. o \in [id : Nat, run : Nat]
      BY WindowFields
    <3> QED
      BY <3>1 DEF InMsg
  <2>3. [windows[w] EXCEPT !.openers = @ \ {o}] \in WindowRecord
    BY <1>1 DEF WindowRecord
  <2>4. windows' \in [Windows -> WindowRecord]
    BY <2>1, <2>3, WindowChanged
  <2>5. seen' \in [reply : {seen.reply}, events : Nat] /\ seen'.reply = seen.reply
    BY <1>1, <2>1
  <2>6. CASE sockets' = Send(w, [type |-> "result", id |-> o.id, unsupported |-> FALSE])
    BY <2>1, <2>2, <2>4, <2>5, <2>6, SentStep
  <2>7. CASE sockets' = sockets
    <3>1. AttType'
      BY <2>1, <2>4, <2>7 DEF AttInv, AttType, WindowRecord
    <3> QED
      BY <1>1, <2>1, <2>5, <2>7, <3>1, NothingHeard
  <2> QED
    BY <2>1, <2>6, <2>7
<1>6. CASE Notice(w)
  <2>1. /\ windows' = [windows EXCEPT ![w] = Noticed(windows[w])]
        /\ UNCHANGED <<sockets, loop, links, opened, seen>>
    BY <1>6 DEF Notice, Noticed
  <2>2. Noticed(windows[w]) \in WindowRecord
    BY <1>1, WindowParts
  <2>3. windows' \in [Windows -> WindowRecord]
    BY <2>1, <2>2, WindowChanged
  <2>4. AttType'
    BY <2>1, <2>3 DEF AttInv, AttType, WindowRecord
  <2> QED
    BY <1>1, <2>1, <2>4, NothingHeard
<1> QED
  BY <1>2, <1>3, <1>4, <1>5, <1>6

\* A connection breaks, or a candidate is discarded.
LEMMA SocketSteps ==
  ASSUME AttInv, NEW c \in Socket, Discard(c) \/ Break(c)
  PROVE  AttInv'
<1>1. sockets[c] \in Connection /\ windows \in [Windows -> WindowRecord]
      /\ seen \in [reply : BOOLEAN, events : Nat]
  BY ElementOfSeq DEF AttInv, AttType, Socket, WindowRecord
<1>2. CASE Discard(c)
  <2> DEFINE r == WithStage(sockets[c], "gone")
  <2>1. r \in Connection /\ r.out = sockets[c].out /\ r.hello = sockets[c].hello /\ r.stage = "gone"
    BY <1>1, StageChanged
  <2>2. /\ sockets' = [sockets EXCEPT ![c] = r] /\ c # loop.peer
        /\ UNCHANGED <<loop, links, windows, opened, seen>>
    BY <1>2 DEF Discard, Shut, WithStage, Waiting, Socket, AttInv, StageInv
  <2> HIDE DEF r
  <2>3. AttType'
    <3>1. windows' \in [Windows -> WindowRecord] /\ seen' \in [reply : BOOLEAN, events : Nat]
      BY <1>1, <2>2
    <3> QED
      BY <2>1, <2>2, <3>1, HeardType
  <2> QED
    BY <2>1, <2>2, <2>3, Heard
<1>3. CASE Break(c)
  <2> DEFINE x == WithBroken(sockets[c], TRUE)
             r == WithIn(x, Append(sockets[c].in, [type |-> "eof"]))
  <2>1. x \in Connection /\ x.out = sockets[c].out /\ x.hello = sockets[c].hello
        /\ x.stage = sockets[c].stage /\ x.in = sockets[c].in
    BY <1>1, BrokenChanged
  <2>2. Append(sockets[c].in, [type |-> "eof"]) \in Seq(InMsg)
    <3>1. [type |-> "eof"] \in InMsg
      BY DEF InMsg
    <3> QED
      BY <1>1, <3>1, FieldChanged, AppendProperties
  <2>3. sockets' = [sockets EXCEPT ![c] = r]
    BY <1>3 DEF Break, WithBroken, WithIn
  <2>4. UNCHANGED <<loop, links, windows, opened>> /\ seen' = [seen EXCEPT !.events = @ + 1]
    BY <1>3 DEF Break, Count
  <2> HIDE DEF x
  <2>5. r \in Connection /\ r.out = sockets[c].out /\ r.hello = sockets[c].hello
        /\ r.stage = sockets[c].stage
    BY <2>1, <2>2, InChanged
  <2> HIDE DEF r
  <2>6. /\ seen' \in [reply : BOOLEAN, events : Nat] /\ seen'.reply = seen.reply
        /\ windows' \in [Windows -> WindowRecord]
    BY <1>1, <2>4
  <2>7. AttType'
    BY <2>3, <2>4, <2>5, <2>6, HeardType
  <2> QED
    BY <2>3, <2>4, <2>5, <2>6, <2>7, Heard
<1> QED
  BY <1>2, <1>3

\* What the loop does to its peer and to the links.
LoopRecord == [peer : 0 .. Len(sockets), batch : Seq(InMsg), effects : Seq(Nat), exclusive : BOOLEAN]
LinkRecord == [available : BOOLEAN, next : Nat, pending : SUBSET Nat, queued : Seq(Nat),
               asked : Seq(1 .. Len(sockets))]

LEMMA PeerStep ==
  ASSUME AttInv, loop.peer # 0, NEW r \in Connection, sockets' = [sockets EXCEPT ![loop.peer] = r],
         r.stage = "peer", loop' \in LoopRecord, loop'.peer = loop.peer,
         links' \in LinkRecord, Len(links'.asked) = links'.next, UNCHANGED <<windows, opened>>,
         seen' \in [reply : {FALSE}, events : Nat], links'.queued # <<>> => r.hello,
         loop'.batch # <<>> => Len(loop'.batch) + Len(r.out) <= Room
  PROVE  /\ AttType' /\ StageInv' /\ RoomInv'
         /\ Len(sockets') = Len(sockets) /\ sockets'[loop.peer] = r /\ loop.peer \in Socket
         /\ \A c \in Socket : c # loop.peer => sockets'[c] = sockets[c]
<1>1. loop.peer \in Socket /\ Len(sockets) \in Nat
  BY LenProperties DEF AttInv, AttType, Socket
<1>2. /\ sockets' \in Seq(Connection) /\ Len(sockets') = Len(sockets) /\ sockets'[loop.peer] = r
      /\ \A c \in Socket : c # loop.peer => sockets'[c] = sockets[c]
  BY <1>1, OneChanged DEF AttInv, AttType, Socket
<1>3. AttType'
  <2>1. seen' \in [reply : BOOLEAN, events : Nat]
    OBVIOUS
  <2> QED
    BY <1>2, <2>1 DEF AttInv, AttType, LoopRecord, LinkRecord
<1>4. StageInv'
  BY <1>1, <1>2 DEF AttInv, StageInv, Socket
<1>5. RoomInv'
  <2>1. ~seen'.reply
    OBVIOUS
  <2> QED
    BY <1>2, <2>1 DEF RoomInv
<1> QED
  BY <1>1, <1>2, <1>3, <1>4, <1>5

\* Where the links of the peer are.
Controls(ss, l) == IdsOf(ss[l.peer].out)
Awaiting(l, k) == ToSet(l.effects) \cup ToSet(k.queued)

LEMMA PeerLinks ==
  ASSUME AttType, AttType', LinkInv, loop.peer \in Socket, loop'.peer = loop.peer,
         Len(sockets') = Len(sockets),
         \A c \in Socket : c # loop.peer => sockets'[c] = sockets[c],
         UNCHANGED opened, links.next <= links'.next,
         \A n \in 1 .. links.next : links'.asked[n] = links.asked[n],
         Ordered(sockets'[loop.peer].out), Rising(loop'.effects), Rising(links'.queued),
         Below(ToSet(loop'.effects), ToSet(links'.queued)),
         Below(Controls(sockets', loop), Awaiting(loop', links')),
         \A n \in Controls(sockets', loop) \cup Awaiting(loop', links') :
           n \in 1 .. links'.next /\ links'.asked[n] = loop.peer,
         \A n \in 1 .. MaxLinks : opened[n] # <<>> /\ links.asked[n] = loop.peer =>
           Below({n}, Controls(sockets', loop) \cup Awaiting(loop', links'))
  PROVE  LinkInv'
<1> DEFINE O == Controls(sockets', loop)
           W == Awaiting(loop', links')
<1>0. O = IdsOf(sockets'[loop.peer].out) /\ W = ToSet(loop'.effects) \cup ToSet(links'.queued)
  BY DEF Controls, Awaiting
<1> HIDE DEF O, W
<1>1. /\ links.next \in Nat /\ links'.next \in Nat /\ Len(sockets) \in Nat
      /\ \A n \in 1 .. links.next : n \in 1 .. links'.next /\ links.asked[n] \in Socket
  <2>1. /\ links.next \in Nat /\ links'.next \in Nat /\ Len(sockets) \in Nat
        /\ links.asked \in Seq(Socket) /\ Len(links.asked) = links.next
    BY LenProperties DEF AttType, Socket
  <2>2. \A n \in 1 .. links.next : links.asked[n] \in Socket
    BY <2>1, ElementOfSeq
  <2> QED
    BY <2>1, <2>2
<1>2. \A c \in Socket' : /\ Ordered(sockets'[c].out)
                         /\ \A n \in IdsOf(sockets'[c].out) :
                              n \in 1 .. links'.next /\ links'.asked[n] = c
  <2>1. \A n \in IdsOf(sockets'[loop.peer].out) :
          n \in 1 .. links'.next /\ links'.asked[n] = loop.peer
    BY <1>0 DEF O
  <2>2. Socket' = Socket
    BY DEF Socket
  <2> SUFFICES ASSUME NEW c \in Socket, c # loop.peer
               PROVE  /\ Ordered(sockets'[c].out)
                      /\ \A n \in IdsOf(sockets'[c].out) :
                           n \in 1 .. links'.next /\ links'.asked[n] = c
    BY <2>1, <2>2
  <2> QED
    BY SMTT(30), <1>1 DEF LinkInv
<1>3. ASSUME NEW n \in 1 .. MaxLinks, opened[n] # <<>>
      PROVE  /\ n <= links'.next /\ opened[n] = <<links'.asked[n]>>
             /\ Below({n}, IdsOf(sockets'[links'.asked[n]].out))
             /\ links'.asked[n] = loop.peer => Below({n}, W)
  <2>1. /\ n <= links.next /\ opened[n] = <<links.asked[n]>>
        /\ Below({n}, IdsOf(sockets[links.asked[n]].out))
    BY <1>3 DEF LinkInv
  <2>2. n \in 1 .. links.next
    BY <1>1, <2>1
  <2>3. links'.asked[n] = links.asked[n] /\ links.asked[n] \in Socket /\ n <= links'.next
    BY <1>1, <2>2
  <2>4. CASE links.asked[n] = loop.peer
    <3>1. Below({n}, O \cup W)
      BY <1>3, <2>4 DEF O, W
    <3>2. Below({n}, O) /\ Below({n}, W)
      BY <3>1 DEF Below
    <3> QED
      BY <1>0, <2>1, <2>3, <2>4, <3>2
  <2>5. CASE links.asked[n] # loop.peer
    BY <2>1, <2>3, <2>5
  <2> QED
    BY <2>4, <2>5
<1>4. /\ \A n \in ToSet(loop'.effects) \cup ToSet(links'.queued) :
           n \in 1 .. links'.next /\ links'.asked[n] = loop'.peer
      /\ loop'.peer # 0 => Below(IdsOf(sockets'[loop'.peer].out),
                                 ToSet(loop'.effects) \cup ToSet(links'.queued))
  BY <1>0 DEF O, W
<1>5. \A n \in 1 .. MaxLinks : opened'[n] # <<>> =>
       /\ n <= links'.next /\ opened'[n] = <<links'.asked[n]>>
       /\ Below({n}, IdsOf(sockets'[links'.asked[n]].out))
       /\ links'.asked[n] = loop'.peer =>
            Below({n}, ToSet(loop'.effects) \cup ToSet(links'.queued))
  BY <1>0, <1>3
<1> QED
  BY <1>2, <1>4, <1>5 DEF LinkInv

LEMMA LoopParts ==
  ASSUME AttInv
  PROVE  /\ loop \in LoopRecord /\ links \in LinkRecord /\ Len(links.asked) = links.next
         /\ seen \in [reply : {FALSE}, events : Nat]
         /\ [seen EXCEPT !.events = @ + 1] \in [reply : {FALSE}, events : Nat]
         /\ links.next \in Nat /\ loop.effects \in Seq(Nat) /\ links.queued \in Seq(Nat)
         /\ loop.batch \in Seq(InMsg) /\ loop.peer \in 0 .. Len(sockets) /\ Len(sockets) \in Nat
<1>1. /\ loop \in LoopRecord /\ links \in LinkRecord /\ Len(links.asked) = links.next
      /\ Len(sockets) \in Nat /\ seen \in [reply : BOOLEAN, events : Nat] /\ ~seen.reply
  BY LenProperties DEF AttInv, AttType, LoopRecord, LinkRecord, RoomInv
<1>2. loop.effects \in Seq(Nat) /\ loop.batch \in Seq(InMsg) /\ loop.peer \in 0 .. Len(sockets)
  BY <1>1 DEF LoopRecord
<1>3. links.next \in Nat /\ links.queued \in Seq(Nat)
  BY <1>1 DEF LinkRecord
<1>4. /\ seen \in [reply : {FALSE}, events : Nat]
      /\ [seen EXCEPT !.events = @ + 1] \in [reply : {FALSE}, events : Nat]
  <2>1. seen \in [reply : {FALSE}, events : Nat]
    BY <1>1
  <2>2. seen.events + 1 \in Nat
    BY <2>1
  <2> QED
    BY <2>1, <2>2
<1> QED
  BY <1>1, <1>2, <1>3, <1>4

\* The peer of the loop.
LEMMA PeerParts ==
  ASSUME AttInv, loop.peer # 0
  PROVE  /\ loop.peer \in Socket /\ sockets[loop.peer] \in Connection /\ Peer = sockets[loop.peer]
         /\ sockets[loop.peer].stage = "peer" /\ Peer.out \in Seq(OutMsg) /\ Peer.in \in Seq(InMsg)
         /\ Len(Peer.out) \in Nat /\ Ordered(Peer.out)
         /\ Below(IdsOf(Peer.out), ToSet(loop.effects) \cup ToSet(links.queued))
         /\ \A n \in IdsOf(Peer.out) : n \in 1 .. links.next /\ links.asked[n] = loop.peer
<1>1. loop.peer \in Socket /\ Peer = sockets[loop.peer]
  BY LoopParts DEF Socket, Peer
<1>2. sockets[loop.peer] \in Connection
  BY <1>1, ElementOfSeq DEF AttInv, AttType, Socket
<1>3. sockets[loop.peer].stage = "peer"
  BY DEF AttInv, StageInv
<1>4. Peer.out \in Seq(OutMsg) /\ Peer.in \in Seq(InMsg) /\ Len(Peer.out) \in Nat
  BY <1>1, <1>2, FieldChanged, LenProperties
<1>5. /\ Ordered(Peer.out) /\ Below(IdsOf(Peer.out), ToSet(loop.effects) \cup ToSet(links.queued))
      /\ \A n \in IdsOf(Peer.out) : n \in 1 .. links.next /\ links.asked[n] = loop.peer
  BY <1>1 DEF AttInv, LinkInv
<1> QED
  BY <1>1, <1>2, <1>3, <1>4, <1>5

\* A step of the loop that moves no link forward: the peer is told m, or nothing.
LEMMA PlainStep ==
  ASSUME AttInv, loop.peer # 0, NEW r \in Connection, sockets' = [sockets EXCEPT ![loop.peer] = r],
         r.stage = "peer", loop' \in LoopRecord, loop'.peer = loop.peer, loop'.effects = loop.effects,
         links' \in LinkRecord, links'.next = links.next, links'.asked = links.asked,
         links'.queued = links.queued \/ links'.queued = <<>>, UNCHANGED <<windows, opened>>,
         seen' \in [reply : {FALSE}, events : Nat], links'.queued # <<>> => r.hello,
         loop'.batch # <<>> => Len(loop'.batch) + Len(r.out) <= Room,
         Ordered(r.out), IdsOf(r.out) = IdsOf(sockets[loop.peer].out)
  PROVE  AttInv'
<1>1. Len(links'.asked) = links'.next
  BY LoopParts
<1>2. /\ AttType' /\ StageInv' /\ RoomInv' /\ Len(sockets') = Len(sockets)
      /\ sockets'[loop.peer] = r /\ loop.peer \in Socket
      /\ \A c \in Socket : c # loop.peer => sockets'[c] = sockets[c]
  BY <1>1, PeerStep
<1>3. \A c \in 1 .. Len(sockets) :
        Ordered(sockets'[c].out) /\ IdsOf(sockets'[c].out) \subseteq IdsOf(sockets[c].out)
  BY <1>2 DEF AttInv, LinkInv, Socket
<1>4. LinkInv'
  <2>1. Len(sockets) <= Len(sockets') /\ \A c \in 1 .. Len(sockets') : ~(c > Len(sockets))
    BY <1>2, LoopParts
  <2> QED
    BY <1>2, <1>3, <2>1, NoLinkMoves DEF AttInv
<1> QED
  BY <1>2, <1>4 DEF AttInv

\* What is read of the peer.
LEMMA TakeStep ==
  ASSUME AttachmentAssumption, AttInv, Take
  PROVE  AttInv'
<1>1. PICK n \in Nat \ {0} :
        /\ n <= Len(Peer.in) /\ n <= Takes /\ loop' = [loop EXCEPT !.batch = SubSeq(Peer.in, 1, n)]
        /\ sockets' = [sockets EXCEPT ![loop.peer].in = SubSeq(@, n + 1, Len(@))]
        /\ UNCHANGED <<links, windows, opened, seen>>
  <2> DEFINE n == IF Len(Peer.in) < Takes THEN Len(Peer.in) ELSE Takes
  <2>1. Len(Peer.in) \in Nat /\ Len(Peer.out) \in Nat /\ Room \in Nat
    BY PeerParts, LenProperties DEF Take, AttachmentAssumption
  <2>2. n \in Nat \ {0} /\ n <= Len(Peer.in) /\ n <= Takes
    BY <2>1 DEF Take, Takes
  <2> QED
    BY <2>2 DEF Take
<1>2. loop.peer # 0
  BY DEF Take
<1> DEFINE x == sockets[loop.peer]
           q == SubSeq(x.in, n + 1, Len(x.in))
           r == WithIn(x, q)
<1>3. x = Peer /\ x \in Connection /\ x.in \in Seq(InMsg) /\ Len(x.in) \in Nat /\ x.stage = "peer"
      /\ Len(x.out) \in Nat /\ Ordered(x.out)
  BY <1>2, PeerParts, LenProperties
<1>4. sockets' = [sockets EXCEPT ![loop.peer] = r]
  BY <1>1 DEF WithIn
<1> HIDE DEF x
<1>5. q \in Seq(InMsg) /\ SubSeq(x.in, 1, n) \in Seq(InMsg) /\ Len(SubSeq(x.in, 1, n)) = n
  BY <1>1, <1>3, SubSeqProperties
<1> HIDE DEF q
<1>6. r \in Connection /\ r.stage = "peer" /\ r.out = x.out /\ r.hello = x.hello
  BY <1>3, <1>5, InChanged
<1> HIDE DEF r
<1>7. loop' \in LoopRecord /\ loop'.peer = loop.peer /\ loop'.effects = loop.effects
      /\ loop'.batch = SubSeq(x.in, 1, n)
  BY <1>1, <1>3, <1>5, LoopParts DEF LoopRecord
<1>8. Len(loop'.batch) + Len(r.out) <= Room
  <2>1. Room \in Nat
    BY DEF AttachmentAssumption
  <2> QED
    BY <1>1, <1>3, <1>5, <1>6, <1>7, <2>1 DEF Takes
<1>9. links'.queued # <<>> => r.hello
  BY <1>1, <1>6 DEF AttInv, StageInv, x
<1>10. /\ links' \in LinkRecord /\ links'.next = links.next /\ links'.asked = links.asked
       /\ links'.queued = links.queued /\ UNCHANGED <<windows, opened>>
       /\ seen' \in [reply : {FALSE}, events : Nat]
  BY <1>1, LoopParts
<1>11. Ordered(r.out) /\ IdsOf(r.out) = IdsOf(sockets[loop.peer].out)
  BY <1>3, <1>6 DEF x
<1> QED
  BY <1>2, <1>4, <1>6, <1>7, <1>8, <1>9, <1>10, <1>11, PlainStep

LEMMA RoomKept ==
  ASSUME AttachmentAssumption, NEW a \in Nat, NEW b \in Nat, a + b <= Room
  PROVE  a + (b - 1) <= Room
  BY DEF AttachmentAssumption

LEMMA RoomLeft ==
  ASSUME NEW a \in Nat, NEW b \in Nat, NEW r \in Nat, a + b + 1 <= r
  PROVE  a + b <= r /\ a + (b + 1) <= r /\ ~(b >= r)
  OBVIOUS

\* The peer is told m, which is no link, unless its connection is broken.
LEMMA TellStep ==
  ASSUME AttInv, loop.peer # 0, NEW x \in Connection, x.out = sockets[loop.peer].out,
         x.stage = "peer", NEW m \in OutMsg, m.type # "open",
         sockets' = IF x.broken \/ Len(x.out) >= Room THEN [sockets EXCEPT ![loop.peer] = x]
                    ELSE [sockets EXCEPT ![loop.peer] = WithOut(x, Append(x.out, m))],
         loop' \in LoopRecord, loop'.peer = loop.peer, loop'.effects = loop.effects,
         links' \in LinkRecord, links'.next = links.next, links'.asked = links.asked,
         links'.queued = links.queued \/ links'.queued = <<>>, UNCHANGED <<windows, opened>>,
         seen' \in [reply : {FALSE}, events : Nat], links'.queued # <<>> => x.hello,
         loop'.batch # <<>> => Len(loop'.batch) + Len(x.out) + 1 <= Room, Room \in Nat
  PROVE  AttInv'
<1>1. /\ x.out \in Seq(OutMsg) /\ Len(x.out) \in Nat /\ Ordered(x.out)
      /\ IdsOf(x.out) = IdsOf(sockets[loop.peer].out)
  BY PeerParts
<1>2. loop'.batch \in Seq(InMsg) /\ Len(loop'.batch) \in Nat
  <2>1. loop'.batch \in Seq(InMsg)
    BY DEF LoopRecord
  <2> QED
    BY <2>1, LenProperties
<1>3. CASE x.broken \/ Len(x.out) >= Room
  <2>1. sockets' = [sockets EXCEPT ![loop.peer] = x]
    BY <1>3
  <2>2. loop'.batch # <<>> => Len(loop'.batch) + Len(x.out) <= Room
    BY <1>1, <1>2, RoomLeft
  <2> QED
    BY <1>1, <2>1, <2>2, PlainStep
<1>4. CASE ~(x.broken \/ Len(x.out) >= Room)
  <2> DEFINE q == Append(x.out, m)
             r == WithOut(x, q)
  <2>1. q \in Seq(OutMsg) /\ Len(q) = Len(x.out) + 1
    BY <1>1, AppendProperties
  <2>2. Ordered(q) /\ IdsOf(q) = IdsOf(x.out)
    BY <1>1, ControlAppended
  <2>3. sockets' = [sockets EXCEPT ![loop.peer] = r]
    BY <1>4
  <2> HIDE DEF q
  <2>4. r \in Connection /\ r.out = q /\ r.stage = "peer" /\ r.hello = x.hello
    BY <2>1, OutChanged
  <2> HIDE DEF r
  <2>5. loop'.batch # <<>> => Len(loop'.batch) + Len(r.out) <= Room
    BY <1>1, <1>2, <2>1, <2>4, RoomLeft
  <2>6. Ordered(r.out) /\ IdsOf(r.out) = IdsOf(sockets[loop.peer].out)
    BY <1>1, <2>2, <2>4
  <2>7. links'.queued # <<>> => r.hello
    BY <2>4
  <2> QED
    BY <2>3, <2>4, <2>5, <2>6, <2>7, PlainStep
<1> QED
  BY <1>3, <1>4

LEMMA FillStep ==
  ASSUME AttachmentAssumption, AttInv, Fill
  PROVE  AttInv'
<1> DEFINE x == sockets[loop.peer]
           m == [type |-> "other"]
<1>1. loop.peer # 0 /\ UNCHANGED <<loop, links, windows, opened>> /\ seen' = [seen EXCEPT !.events = @ + 1]
      /\ sockets' = Post(sockets, loop.peer, m) /\ loop.batch = <<>>
  BY DEF Fill, Count, TurnOver
<1>2. sockets' = IF x.broken \/ Len(x.out) >= Room THEN [sockets EXCEPT ![loop.peer] = x]
                 ELSE [sockets EXCEPT ![loop.peer] = WithOut(x, Append(x.out, m))]
  BY <1>1, PeerParts DEF Fill, Refused, Post, WithOut
<1>3. x \in Connection /\ x.out = sockets[loop.peer].out /\ x.stage = "peer"
      /\ (links.queued # <<>> => x.hello)
  BY <1>1, PeerParts DEF AttInv, StageInv
<1>4. m \in OutMsg /\ m.type # "open"
  BY DEF OutMsg
<1>5. /\ loop' \in LoopRecord /\ loop'.peer = loop.peer /\ loop'.effects = loop.effects
      /\ links' \in LinkRecord /\ links'.next = links.next /\ links'.asked = links.asked
      /\ links'.queued = links.queued /\ seen' \in [reply : {FALSE}, events : Nat]
      /\ loop'.batch = <<>>
  <2>1. loop' = loop /\ links' = links
    BY <1>1
  <2> QED
    BY <1>1, <2>1, LoopParts DEF LoopRecord, LinkRecord
<1>6. Room \in Nat
  BY DEF AttachmentAssumption
<1> HIDE DEF x, m
<1> QED
  BY <1>1, <1>2, <1>3, <1>4, <1>5, <1>6, TellStep

\* Pieces of the loop and the links.
NextMessage == [loop EXCEPT !.batch = Tail(@)]

LEMMA NextParts ==
  ASSUME AttInv, loop.batch # <<>>
  PROVE  /\ NextMessage \in LoopRecord /\ NextMessage.peer = loop.peer
         /\ NextMessage.effects = loop.effects
         /\ Len(NextMessage.batch) = Len(loop.batch) - 1 /\ Len(loop.batch) \in Nat
         /\ Head(loop.batch) \in InMsg /\ loop.peer # 0
         /\ Len(loop.batch) + Len(Peer.out) <= Room
<1>1. loop \in LoopRecord /\ loop.batch \in Seq(InMsg)
  BY LoopParts
<1>2. Tail(loop.batch) \in Seq(InMsg) /\ Len(Tail(loop.batch)) = Len(loop.batch) - 1
      /\ Len(loop.batch) \in Nat /\ Head(loop.batch) \in InMsg
  BY <1>1, EmptySeq, HeadTailProperties, LenProperties
<1>3. NextMessage \in LoopRecord /\ NextMessage.peer = loop.peer
      /\ NextMessage.effects = loop.effects /\ NextMessage.batch = Tail(loop.batch)
  <2> DEFINE t == Tail(loop.batch)
  <2> HIDE DEF t
  <2>1. NextMessage = [loop EXCEPT !.batch = t]
    BY DEF NextMessage, t
  <2>2. t \in Seq(InMsg) /\ t = Tail(loop.batch)
    BY <1>2 DEF t
  <2> QED
    BY <1>1, <2>1, <2>2 DEF LoopRecord
<1>4. loop.peer # 0
  BY DEF AttInv, StageInv
<1>5. Len(loop.batch) + Len(Peer.out) <= Room
  BY <1>4, PeerParts DEF AttInv, RoomInv
<1> QED
  BY <1>2, <1>3, <1>4, <1>5

LEMMA Available ==
  ASSUME NEW l \in LinkRecord, NEW b \in BOOLEAN
  PROVE  /\ SetAvailable(l, b) \in LinkRecord /\ SetAvailable(l, b).next = l.next
         /\ SetAvailable(l, b).asked = l.asked
         /\ SetAvailable(l, b).queued = (IF b THEN l.queued ELSE <<>>)
<1> DEFINE S == Seq(1 .. Len(sockets))
           N == Seq(Nat)
           B == SUBSET Nat
<1>1. /\ LinkRecord = [available : BOOLEAN, next : Nat, pending : B, queued : N, asked : S]
      /\ <<>> \in N /\ {} \in B
  BY DEF LinkRecord
<1> HIDE DEF S, N, B
<1>2. CASE b
  BY <1>1, <1>2 DEF SetAvailable
<1>3. CASE ~b
  BY <1>1, <1>3 DEF SetAvailable
<1> QED
  BY <1>2, <1>3

LEMMA Replied ==
  ASSUME NEW l \in LinkRecord, NEW m \in InMsg, m.type = "result"
  PROVE  /\ ReceiveReply(l, m) \in LinkRecord /\ ReceiveReply(l, m).next = l.next
         /\ ReceiveReply(l, m).asked = l.asked
         /\ ReceiveReply(l, m).queued = l.queued \/ ReceiveReply(l, m).queued = <<>>
<1> DEFINE k == [l EXCEPT !.pending = @ \ {m.id}]
<1>1. /\ l.queued \in Seq(Nat) /\ l.pending \in SUBSET Nat
      /\ l = [available |-> l.available, next |-> l.next, pending |-> l.pending,
              queued |-> l.queued, asked |-> l.asked]
  BY DEF LinkRecord
<1>2. k \in LinkRecord /\ k.next = l.next /\ k.asked = l.asked /\ k.queued = l.queued
  BY DEF LinkRecord
<1> HIDE DEF k
<1>3. ReceiveReply(l, m) = IF m.id \notin l.pending THEN l ELSE SetAvailable(k, ~m.unsupported)
  BY DEF ReceiveReply, k
<1>4. (~m.unsupported) \in BOOLEAN
  OBVIOUS
<1> QED
  BY <1>2, <1>3, <1>4, Available

\* A step by which the peer goes, with what was on its way to it.
LEMMA DropStep ==
  ASSUME AttInv, loop.peer # 0, NEW told \in BOOLEAN, Drop(told), UNCHANGED <<windows, opened>>,
         seen' \in [reply : {FALSE}, events : Nat]
  PROVE  AttInv'
<1> DEFINE r == WithStage(sockets[loop.peer], "gone")
<1>1. loop.peer \in Socket /\ sockets[loop.peer] \in Connection
  BY PeerParts
<1>2. sockets' = [sockets EXCEPT ![loop.peer] = r]
  BY DEF Drop, Shut, WithStage
<1>3. r \in Connection /\ r.out = sockets[loop.peer].out /\ r.stage = "gone"
  BY <1>1, StageChanged
<1> HIDE DEF r
<1>4. /\ sockets' \in Seq(Connection) /\ Len(sockets') = Len(sockets) /\ sockets'[loop.peer] = r
      /\ \A c \in Socket : c # loop.peer => sockets'[c] = sockets[c]
  BY <1>1, <1>2, <1>3, OneChanged DEF AttInv, AttType, Socket
<1>5. /\ loop' \in LoopRecord /\ loop'.peer = 0 /\ loop'.batch = <<>> /\ loop'.effects = <<>>
  <2> DEFINE S == 0 .. Len(sockets)
             M == Seq(InMsg)
             N == Seq(Nat)
  <2>1. loop' = [loop EXCEPT !.peer = 0, !.batch = <<>>, !.effects = <<>>]
    BY DEF Drop
  <2>2. 0 \in S /\ <<>> \in M /\ <<>> \in N
    BY LoopParts
  <2>3. loop \in LoopRecord /\ LoopRecord = [peer : S, batch : M, effects : N, exclusive : BOOLEAN]
    BY LoopParts DEF LoopRecord
  <2> HIDE DEF S, M, N
  <2> QED
    BY <2>1, <2>2, <2>3
<1>6. /\ links' \in LinkRecord /\ links'.next = links.next /\ links'.asked = links.asked
      /\ links'.queued = <<>> /\ Len(links'.asked) = links'.next
  <2> DEFINE l == IF told THEN SetAvailable(links, FALSE) ELSE links
  <2>1. l \in LinkRecord /\ l.next = links.next /\ l.asked = links.asked
    BY LoopParts, Available
  <2>2. links' = [l EXCEPT !.queued = <<>>]
    BY DEF Drop
  <2> HIDE DEF l
  <2>3. /\ links' \in LinkRecord /\ links'.next = l.next /\ links'.asked = l.asked
        /\ links'.queued = <<>>
    <3> DEFINE S == Seq(1 .. Len(sockets))
               N == Seq(Nat)
               B == SUBSET Nat
    <3>1. LinkRecord = [available : BOOLEAN, next : Nat, pending : B, queued : N, asked : S]
          /\ <<>> \in N
      BY DEF LinkRecord
    <3> HIDE DEF S, N, B
    <3> QED
      BY <2>1, <2>2, <3>1
  <2> QED
    BY <2>1, <2>3, LoopParts
<1>7. AttType'
  <2>1. seen' \in [reply : BOOLEAN, events : Nat]
    OBVIOUS
  <2> QED
    BY <1>4, <1>5, <1>6, <2>1 DEF AttInv, AttType, LoopRecord, LinkRecord
<1>8. StageInv'
  <2>1. \A c \in Socket : sockets'[c].stage = "candidate" =>
                            sockets'[c].out = <<>> /\ ~sockets'[c].hello
    BY <1>3, <1>4 DEF AttInv, StageInv
  <2> QED
    BY <1>4, <1>5, <1>6, <2>1 DEF StageInv, Socket
<1>9. RoomInv'
  <2>1. ~seen'.reply
    OBVIOUS
  <2> QED
    BY <1>5, <2>1 DEF RoomInv
<1>10. LinkInv'
  <2>1. \A c \in 1 .. Len(sockets) :
          Ordered(sockets'[c].out) /\ IdsOf(sockets'[c].out) \subseteq IdsOf(sockets[c].out)
    <3>1. \A c \in Socket : sockets'[c].out = sockets[c].out
      BY <1>3, <1>4
    <3> QED
      BY <3>1 DEF AttInv, LinkInv, Socket
  <2>2. Len(sockets) <= Len(sockets') /\ \A c \in 1 .. Len(sockets') : ~(c > Len(sockets))
    BY <1>4, LoopParts
  <2> QED
    BY <1>5, <1>6, <1>7, <2>1, <2>2, NoLinkMoves DEF AttInv
<1> QED
  BY <1>7, <1>8, <1>9, <1>10 DEF AttInv

\* The user's input makes the application ask for a link: it is behind all others.
LEMMA Asked ==
  ASSUME AttInv, loop.peer # 0
  PROVE  LET l == OpenUrl(links) IN
         /\ l \in LinkRecord /\ Len(l.asked) = l.next
         /\ \/ l = links
            \/ /\ l.next = links.next + 1 /\ l.queued = Append(links.queued, l.next)
               /\ l.asked = Append(links.asked, loop.peer)
<1>1. /\ links \in LinkRecord /\ Len(links.asked) = links.next /\ loop.peer \in 1 .. Len(sockets)
      /\ links.next + 1 \in Nat /\ links.queued \in Seq(Nat)
  BY LoopParts
<1> DEFINE n == links.next + 1
           q == Append(links.queued, n)
           a == Append(links.asked, loop.peer)
           P == links.pending \cup {n}
           S == Seq(1 .. Len(sockets))
           N == Seq(Nat)
           B == SUBSET Nat
           k == [links EXCEPT !.next = n, !.pending = P, !.queued = q, !.asked = a]
<1>2. links.asked \in S /\ links.pending \in B
  BY <1>1 DEF LinkRecord
<1>3. q \in N /\ a \in S /\ Len(a) = n
  BY <1>1, <1>2, AppendProperties
<1>4. P \in B
  BY <1>1, <1>2
<1>5. OpenUrl(links) = links \/ OpenUrl(links) = k
  BY DEF OpenUrl
<1>6. LinkRecord = [available : BOOLEAN, next : Nat, pending : B, queued : N, asked : S]
  BY DEF LinkRecord
<1>7. n \in Nat
  BY <1>1
<1> HIDE DEF n, q, a, P, S, N, B
<1>8. k \in LinkRecord /\ k.next = n /\ k.queued = q /\ k.asked = a
  BY <1>1, <1>3, <1>4, <1>6, <1>7
<1> HIDE DEF k
<1> QED
  BY <1>1, <1>3, <1>5, <1>8 DEF n, q, a

\* A message of the peer is handled.
\* An input that makes the application ask for link n.
LEMMA AskStep ==
  ASSUME AttInv, loop.peer # 0, sockets[loop.peer].hello,
         NEW r \in Connection, r.stage = "peer", r.hello,
         sockets' = [sockets EXCEPT ![loop.peer] = r],
         Ordered(r.out), IdsOf(r.out) = IdsOf(sockets[loop.peer].out),
         loop' \in LoopRecord, loop'.peer = loop.peer, loop'.effects = loop.effects,
         links' \in LinkRecord, Len(links'.asked) = links'.next,
         NEW n, n = links.next + 1, links'.next = n, links'.queued = Append(links.queued, n),
         links'.asked = Append(links.asked, loop.peer), UNCHANGED <<windows, opened>>,
         seen' \in [reply : {FALSE}, events : Nat],
         loop'.batch # <<>> => Len(loop'.batch) + Len(r.out) <= Room
  PROVE  AttInv'
<1>1. /\ AttType' /\ StageInv' /\ RoomInv' /\ Len(sockets') = Len(sockets)
      /\ sockets'[loop.peer] = r /\ loop.peer \in Socket
      /\ \A c \in Socket : c # loop.peer => sockets'[c] = sockets[c]
  BY PeerStep
<1> DEFINE O == IdsOf(r.out)
           E == ToSet(loop.effects)
           Q == ToSet(links.queued)
<1>2. /\ links.next \in Nat /\ n \in Nat /\ links.queued \in Seq(Nat) /\ links.asked \in Seq(Socket)
      /\ Len(links.asked) = links.next
  BY LoopParts DEF LinkRecord, Socket
<1>3. /\ Rising(loop.effects) /\ Rising(links.queued) /\ Below(E, Q) /\ Below(O, E \cup Q)
      /\ \A k \in O \cup E \cup Q : k \in 1 .. links.next /\ links.asked[k] = loop.peer
      /\ \A k \in 1 .. MaxLinks : opened[k] # <<>> /\ links.asked[k] = loop.peer =>
                                   k <= links.next /\ Below({k}, O) /\ Below({k}, E \cup Q)
  <2>1. /\ Rising(loop.effects) /\ Rising(links.queued) /\ Below(E, Q)
        /\ \A k \in E \cup Q : k \in 1 .. links.next /\ links.asked[k] = loop.peer
    BY DEF AttInv, LinkInv
  <2>2. /\ O = IdsOf(Peer.out) /\ Below(O, E \cup Q) /\ Peer = sockets[loop.peer]
        /\ \A k \in O : k \in 1 .. links.next /\ links.asked[k] = loop.peer
    BY PeerParts
  <2>3. ASSUME NEW k \in 1 .. MaxLinks, opened[k] # <<>>, links.asked[k] = loop.peer
        PROVE  k <= links.next /\ Below({k}, O) /\ Below({k}, E \cup Q)
    BY <2>2, <2>3 DEF AttInv, LinkInv
  <2> HIDE DEF O, E, Q
  <2> QED
    BY <2>1, <2>2, <2>3
<1>4. /\ \A k \in 1 .. links.next : links'.asked[k] = links.asked[k] /\ k \in 1 .. n /\ k < n
      /\ links'.asked[n] = loop.peer /\ n \in 1 .. n /\ links.next <= n
  BY SMTT(30), <1>1, <1>2, AppendProperties
<1>5. Rising(Append(links.queued, n)) /\ ToSet(Append(links.queued, n)) = Q \cup {n}
  <2>1. <<n>> \in Seq(Nat) /\ ToSet(<<n>>) = {n} /\ Rising(<<n>>)
    <3>1. <<n>> \in Seq(Nat)
      BY <1>2
    <3>2. DOMAIN <<n>> = {1} /\ <<n>>[1] = n
      OBVIOUS
    <3> QED
      BY <3>1, <3>2 DEF ToSet, Rising
  <2>2. Below(Q, {n})
    BY <1>3, <1>4 DEF Below
  <2>3. Append(links.queued, n) = links.queued \o <<n>>
    BY SMTT(30), <1>2
  <2>4. Below(Q, ToSet(<<n>>))
    BY <2>1, <2>2
  <2> DEFINE t == <<n>>
  <2> HIDE DEF t
  <2>5. Rising(links.queued \o t) /\ ToSet(links.queued \o t) = Q \cup ToSet(t)
    BY <1>2, <1>3, <2>1, <2>4, RisingAppend DEF t
  <2> QED
    BY <2>1, <2>3, <2>5 DEF t
<1> HIDE DEF O, E, Q
<1>6. Below(E, Q \cup {n}) /\ Below(O, E \cup (Q \cup {n}))
  BY <1>3, <1>4 DEF Below
<1>7. \A k \in O \cup E \cup (Q \cup {n}) : k \in 1 .. n /\ links'.asked[k] = loop.peer
  BY <1>3, <1>4
<1>8. \A k \in 1 .. MaxLinks : opened[k] # <<>> /\ links.asked[k] = loop.peer =>
                               Below({k}, O \cup E \cup (Q \cup {n}))
  <2> SUFFICES ASSUME NEW k \in 1 .. MaxLinks, opened[k] # <<>>, links.asked[k] = loop.peer
               PROVE  Below({k}, O \cup E \cup (Q \cup {n}))
    OBVIOUS
  <2>1. k <= links.next /\ Below({k}, O) /\ Below({k}, E \cup Q)
    BY <1>3
  <2>2. k < n
    BY <1>2, <2>1
  <2> QED
    BY <2>1, <2>2 DEF Below
<1>9. LinkInv'
  <2>1. /\ O = IdsOf(sockets'[loop.peer].out) /\ Ordered(sockets'[loop.peer].out)
        /\ E = ToSet(loop'.effects) /\ Q \cup {n} = ToSet(links'.queued)
        /\ Rising(loop'.effects) /\ Rising(links'.queued)
    BY <1>1, <1>3, <1>5 DEF O, E
  <2>2. AttType /\ LinkInv /\ links.next <= links'.next
    BY <1>4 DEF AttInv
  <2>3. /\ \A k \in 1 .. links.next : links'.asked[k] = links.asked[k]
        /\ \A k \in O \cup E \cup (Q \cup {n}) : k \in 1 .. links'.next /\ links'.asked[k] = loop.peer
    BY <1>4, <1>7
  <2> DEFINE R == Q \cup {n}
  <2>4. /\ R = ToSet(links'.queued) /\ Below(E, R) /\ Below(O, E \cup R)
        /\ \A k \in O \cup E \cup R : k \in 1 .. links'.next /\ links'.asked[k] = loop.peer
        /\ \A k \in 1 .. MaxLinks : opened[k] # <<>> /\ links.asked[k] = loop.peer =>
                                    Below({k}, O \cup E \cup R)
    BY <1>6, <1>8, <2>1, <2>3
  <2>5. /\ Controls(sockets', loop) = O /\ Awaiting(loop', links') = E \cup R
        /\ E = ToSet(loop'.effects)
    BY <2>1 DEF Controls, Awaiting
  <2> HIDE DEF R
  <2>6. O \cup (E \cup R) = O \cup E \cup R
    OBVIOUS
  <2>7. /\ Below(Controls(sockets', loop), Awaiting(loop', links'))
        /\ Below(ToSet(loop'.effects), ToSet(links'.queued))
        /\ \A k \in Controls(sockets', loop) \cup Awaiting(loop', links') :
              k \in 1 .. links'.next /\ links'.asked[k] = loop.peer
        /\ \A k \in 1 .. MaxLinks : opened[k] # <<>> /\ links.asked[k] = loop.peer =>
              Below({k}, Controls(sockets', loop) \cup Awaiting(loop', links'))
    BY <2>4, <2>5, <2>6
  <2> QED
    BY <1>1, <2>1, <2>2, <2>3, <2>7, PeerLinks
<1> QED
  BY <1>1, <1>9 DEF AttInv

LEMMA OneTaken ==
  ASSUME NEW a \in Nat, NEW b \in Nat, NEW r \in Nat, a + b <= r, NEW n, n = a - 1
  PROVE  n + b + 1 <= r /\ n + b <= r
  OBVIOUS

LEMMA HandleStep ==
  ASSUME AttachmentAssumption, AttInv, Handle
  PROVE  AttInv'
<1> DEFINE m == Head(loop.batch)
           x == sockets[loop.peer]
<1>1. /\ loop.batch # <<>> /\ UNCHANGED <<windows, opened>> /\ Room \in Nat
  BY DEF Handle, AttachmentAssumption
<1>2. /\ NextMessage \in LoopRecord /\ NextMessage.peer = loop.peer
      /\ NextMessage.effects = loop.effects
      /\ Len(NextMessage.batch) = Len(loop.batch) - 1 /\ Len(loop.batch) \in Nat
      /\ m \in InMsg /\ loop.peer # 0 /\ Len(loop.batch) + Len(x.out) <= Room
      /\ loop.peer \in Socket /\ x \in Connection /\ Peer = x /\ x.stage = "peer"
      /\ Len(x.out) \in Nat /\ x = sockets[loop.peer] /\ Ordered(x.out)
  BY <1>1, NextParts, PeerParts
<1>3. links.queued # <<>> => x.hello
  BY DEF AttInv, StageInv
<1>4. /\ seen \in [reply : {FALSE}, events : Nat] /\ links \in LinkRecord
      /\ Len(links.asked) = links.next
  BY LoopParts
<1>5. \/ /\ m.type = "hello" /\ loop' = NextMessage
         /\ sockets' = Post([sockets EXCEPT ![loop.peer].hello = TRUE], loop.peer, [type |-> "hello"])
         /\ links' = SetAvailable(links, TRUE) /\ UNCHANGED seen
      \/ /\ m.type = "input"
         /\ seen' = [seen EXCEPT !.reply = @ \/ (Refused(loop.peer) /\ ~Peer.broken)]
         /\ IF ~Peer.hello \/ Refused(loop.peer) THEN Drop(FALSE)
            ELSE /\ loop' = NextMessage /\ sockets' = Post(sockets, loop.peer, [type |-> "ack"])
                 /\ links' = IF m.link THEN OpenUrl(links) ELSE links
      \/ /\ m.type = "detach" /\ Drop(TRUE) /\ UNCHANGED seen
      \/ /\ m.type = "eof" /\ Drop(Peer.hello) /\ UNCHANGED seen
      \/ /\ m.type = "result" /\ loop' = NextMessage
         /\ links' = IF Peer.hello THEN ReceiveReply(links, m) ELSE links
         /\ UNCHANGED <<sockets, seen>>
  BY DEF Handle, NextMessage
<1> HIDE DEF m, x
<1>6. /\ Len(NextMessage.batch) + Len(x.out) + 1 <= Room
      /\ Len(NextMessage.batch) + Len(x.out) <= Room
  BY <1>1, <1>2, OneTaken
<1>7. CASE m.type = "hello"
  <2> DEFINE y == WithHello(x, TRUE)
             h == [type |-> "hello"]
             ss == [sockets EXCEPT ![loop.peer] = y]
  <2>1. /\ loop' = NextMessage /\ UNCHANGED seen /\ links' = SetAvailable(links, TRUE)
        /\ sockets' = Post([sockets EXCEPT ![loop.peer].hello = TRUE], loop.peer, h)
    BY <1>5, <1>7
  <2>2. y \in Connection /\ y.out = x.out /\ y.stage = "peer" /\ y.hello
    BY <1>2, HelloChanged
  <2>3. ss = [sockets EXCEPT ![loop.peer].hello = TRUE]
    BY <1>2 DEF WithHello
  <2> HIDE DEF y
  <2>4. ss[loop.peer] = y
    BY <1>2, <2>2, OneChanged DEF AttInv, AttType, Socket
  <2>5. \A z : [ss EXCEPT ![loop.peer] = z] = [sockets EXCEPT ![loop.peer] = z]
    OBVIOUS
  <2>6. [ss EXCEPT ![loop.peer].out = Append(@, h)] =
          [ss EXCEPT ![loop.peer] = WithOut(ss[loop.peer], Append(ss[loop.peer].out, h))]
    BY DEF WithOut
  <2>7. sockets' = Post(ss, loop.peer, h)
    BY <2>1, <2>3
  <2> HIDE DEF ss
  <2>8. sockets' = IF y.broken \/ Len(y.out) >= Room THEN [sockets EXCEPT ![loop.peer] = y]
                   ELSE [sockets EXCEPT ![loop.peer] = WithOut(y, Append(y.out, h))]
    <3>1. ss = [sockets EXCEPT ![loop.peer] = y]
      BY DEF ss
    <3> QED
      BY <2>4, <2>5, <2>6, <2>7, <3>1 DEF Post
  <2>9. h \in OutMsg /\ h.type # "open"
    BY DEF OutMsg
  <2>10. /\ links' \in LinkRecord /\ links'.next = links.next /\ links'.asked = links.asked
         /\ links'.queued = links.queued
    BY <1>4, <2>1, Available
  <2>11. /\ loop' \in LoopRecord /\ loop'.peer = loop.peer /\ loop'.effects = loop.effects
         /\ Len(loop'.batch) + Len(y.out) + 1 <= Room
    BY <1>2, <1>6, <2>1, <2>2
  <2>12. seen' \in [reply : {FALSE}, events : Nat]
    BY <1>4, <2>1
  <2> HIDE DEF h
  <2>13. y.out = sockets[loop.peer].out
    BY <1>2, <2>2
  <2> QED
    BY <1>1, <1>2, <2>2, <2>8, <2>9, <2>10, <2>11, <2>12, <2>13, TellStep
<1>8. CASE m.type = "detach"
  <2>1. Drop(TRUE) /\ UNCHANGED seen
    BY <1>5, <1>8
  <2>2. seen' \in [reply : {FALSE}, events : Nat]
    BY <1>4, <2>1
  <2> QED
    BY <1>1, <1>2, <2>1, <2>2, DropStep
<1>9. CASE m.type = "eof"
  <2>1. Drop(Peer.hello) /\ UNCHANGED seen
    BY <1>5, <1>9
  <2>2. seen' \in [reply : {FALSE}, events : Nat]
    BY <1>4, <2>1
  <2>3. Peer.hello \in BOOLEAN
    BY <1>2, FieldChanged
  <2> QED
    BY <1>1, <1>2, <2>1, <2>2, <2>3, DropStep
<1>10. CASE m.type = "result"
  <2>1. /\ loop' = NextMessage /\ UNCHANGED <<sockets, seen>>
        /\ links' = IF Peer.hello THEN ReceiveReply(links, m) ELSE links
    BY <1>5, <1>10
  <2>2. /\ links' \in LinkRecord /\ links'.next = links.next /\ links'.asked = links.asked
        /\ links'.queued = links.queued \/ links'.queued = <<>>
    BY <1>2, <1>4, <1>10, <2>1, Replied
  <2>3. /\ loop' \in LoopRecord /\ loop'.peer = loop.peer /\ loop'.effects = loop.effects
        /\ Len(loop'.batch) + Len(x.out) <= Room
    BY <1>2, <1>6, <2>1
  <2>4. sockets' = [sockets EXCEPT ![loop.peer] = x]
    BY <1>2, <2>1 DEF AttInv, AttType, Socket
  <2>5. seen' \in [reply : {FALSE}, events : Nat]
    BY <1>4, <2>1
  <2>6. links'.queued # <<>> => x.hello
    BY <1>3, <2>2
  <2> QED
    BY <1>1, <1>2, <2>2, <2>3, <2>4, <2>5, <2>6, PlainStep
<1>11. CASE m.type = "input"
  <2> DEFINE h == [type |-> "ack"]
             r == WithOut(x, Append(x.out, h))
  <2>1. /\ seen' = [seen EXCEPT !.reply = @ \/ (Refused(loop.peer) /\ ~Peer.broken)]
        /\ IF ~Peer.hello \/ Refused(loop.peer) THEN Drop(FALSE)
           ELSE /\ loop' = NextMessage /\ sockets' = Post(sockets, loop.peer, h)
                /\ links' = IF m.link THEN OpenUrl(links) ELSE links
    BY <1>5, <1>11
  <2>2. Refused(loop.peer) => x.broken
    <3>1. NextMessage.batch \in Seq(InMsg)
      BY <1>2 DEF LoopRecord
    <3>2. ~(Len(x.out) >= Room)
      BY <1>1, <1>2, <1>6, <3>1, LenProperties, RoomLeft
    <3> QED
      BY <1>2, <3>2 DEF Refused
  <2>3. seen' \in [reply : {FALSE}, events : Nat]
    <3>1. ~(Refused(loop.peer) /\ ~Peer.broken)
      BY <1>2, <2>2
    <3>2. seen' = [seen EXCEPT !.reply = FALSE]
      BY <1>4, <2>1, <3>1
    <3> QED
      BY <1>4, <3>2
  <2>4. CASE ~Peer.hello \/ Refused(loop.peer)
    BY <1>1, <1>2, <2>1, <2>3, <2>4, DropStep
  <2>5. CASE ~(~Peer.hello \/ Refused(loop.peer))
    <3>1. h \in OutMsg /\ h.type # "open"
      BY DEF OutMsg
    <3>2. /\ loop' = NextMessage /\ links' = (IF m.link THEN OpenUrl(links) ELSE links) /\ x.hello
          /\ sockets' = [sockets EXCEPT ![loop.peer] = r]
          /\ ~(x.broken \/ Len(x.out) >= Room)
      BY <1>2, <2>1, <2>5 DEF Post, Refused, WithOut
    <3> HIDE DEF h
    <3>3. /\ loop' \in LoopRecord /\ loop'.peer = loop.peer /\ loop'.effects = loop.effects
          /\ Len(loop'.batch) + Len(x.out) + 1 <= Room
      BY <1>2, <1>6, <3>2
    <3>4. CASE links' = links
      <4>1. sockets' = IF x.broken \/ Len(x.out) >= Room THEN [sockets EXCEPT ![loop.peer] = x]
                       ELSE [sockets EXCEPT ![loop.peer] = WithOut(x, Append(x.out, h))]
        BY <3>2
      <4>2. /\ links' \in LinkRecord /\ links'.next = links.next /\ links'.asked = links.asked
            /\ links'.queued = links.queued /\ x.out = sockets[loop.peer].out
        BY <1>2, <1>4, <3>4
      <4> QED
        BY <1>1, <1>2, <2>3, <3>1, <3>2, <3>3, <4>1, <4>2, TellStep
    <3>5. CASE links' # links
      <4>1. /\ links' \in LinkRecord /\ Len(links'.asked) = links'.next
            /\ links'.next = links.next + 1 /\ links'.queued = Append(links.queued, links'.next)
            /\ links'.asked = Append(links.asked, loop.peer)
        BY <1>2, <3>2, <3>5, Asked
      <4> DEFINE q == Append(x.out, h)
      <4>2. q \in Seq(OutMsg) /\ Len(q) = Len(x.out) + 1 /\ Ordered(q) /\ IdsOf(q) = IdsOf(x.out)
        <5>1. x.out \in Seq(OutMsg)
          BY <1>2, FieldChanged
        <5>2. q \in Seq(OutMsg) /\ Len(q) = Len(x.out) + 1
          BY <3>1, <5>1, AppendProperties
        <5>3. Ordered(q) /\ IdsOf(q) = IdsOf(x.out)
          BY <1>2, <3>1, <5>1, ControlAppended
        <5> QED
          BY <5>2, <5>3
      <4> HIDE DEF q
      <4>3. r \in Connection /\ r.out = q /\ r.stage = "peer" /\ r.hello
        BY <1>2, <3>2, <4>2, OutChanged DEF q
      <4> HIDE DEF r
      <4>4. Len(loop'.batch) + Len(r.out) <= Room /\ Ordered(r.out)
            /\ IdsOf(r.out) = IdsOf(sockets[loop.peer].out) /\ sockets[loop.peer].hello
        <5>1. Len(loop'.batch) \in Nat
          BY <3>3, LenProperties DEF LoopRecord
        <5> QED
          BY <1>1, <1>2, <3>2, <3>3, <4>2, <4>3, <5>1, RoomLeft
      <4> QED
        BY <1>1, <1>2, <2>3, <3>2, <3>3, <4>1, <4>3, <4>4, AskStep
    <3> QED
      BY <3>4, <3>5
  <2> QED
    BY <2>4, <2>5
<1> QED
  BY <1>5, <1>7, <1>8, <1>9, <1>10, <1>11

\* What the application wants done goes into the loop, then to the peer.
LEMMA EffectsStep ==
  ASSUME AttachmentAssumption, AttInv, Effects
  PROVE  AttInv'
<1> DEFINE x == sockets[loop.peer]
           O == IdsOf(x.out)
           E == ToSet(loop.effects)
           Q == ToSet(links.queued)
<1>1. /\ loop.batch = <<>> /\ loop.peer # 0 /\ UNCHANGED <<windows, opened, seen>> /\ Room \in Nat
  BY DEF Effects, AttachmentAssumption
<1>2. /\ loop.peer \in Socket /\ x \in Connection /\ x.stage = "peer" /\ Ordered(x.out)
      /\ x.out \in Seq(OutMsg) /\ Peer = x /\ x = sockets[loop.peer]
  BY <1>1, PeerParts
<1>3. /\ Rising(loop.effects) /\ Rising(links.queued) /\ Below(E, Q) /\ Below(O, E \cup Q)
      /\ \A k \in O \cup E \cup Q : k \in 1 .. links.next /\ links.asked[k] = loop.peer
      /\ \A k \in 1 .. MaxLinks : opened[k] # <<>> /\ links.asked[k] = loop.peer =>
                                   Below({k}, O) /\ Below({k}, E \cup Q)
  <2>1. /\ Rising(loop.effects) /\ Rising(links.queued) /\ Below(E, Q)
        /\ \A k \in E \cup Q : k \in 1 .. links.next /\ links.asked[k] = loop.peer
    BY DEF AttInv, LinkInv
  <2>2. /\ O = IdsOf(Peer.out) /\ Below(O, E \cup Q) /\ Peer = sockets[loop.peer]
        /\ \A k \in O : k \in 1 .. links.next /\ links.asked[k] = loop.peer
    BY <1>1, PeerParts
  <2>3. ASSUME NEW k \in 1 .. MaxLinks, opened[k] # <<>>, links.asked[k] = loop.peer
        PROVE  Below({k}, O) /\ Below({k}, E \cup Q)
    BY <2>2, <2>3 DEF AttInv, LinkInv
  <2> HIDE DEF O, E, Q
  <2> QED
    BY <2>1, <2>2, <2>3
<1>4. /\ loop \in LoopRecord /\ links \in LinkRecord /\ Len(links.asked) = links.next
      /\ seen' \in [reply : {FALSE}, events : Nat] /\ links.next \in Nat
      /\ loop.effects \in Seq(Nat) /\ links.queued \in Seq(Nat)
  BY <1>1, LoopParts
<1>5. CASE links.queued # <<>>
  <2> DEFINE t == loop.effects \o links.queued
  <2>1. /\ links' = [links EXCEPT !.queued = <<>>] /\ loop' = [loop EXCEPT !.effects = t]
        /\ UNCHANGED sockets
    BY <1>5 DEF Effects
  <2>2. Rising(t) /\ ToSet(t) = E \cup Q /\ t \in Seq(Nat)
    BY <1>3, <1>4, RisingAppend
  <2> HIDE DEF t, E, Q, O, x
  <2>3. /\ loop' \in LoopRecord /\ loop'.peer = loop.peer /\ loop'.effects = t /\ loop'.batch = <<>>
    BY <1>1, <1>4, <2>1, <2>2 DEF LoopRecord
  <2>4. /\ links' \in LinkRecord /\ links'.next = links.next /\ links'.asked = links.asked
        /\ links'.queued = <<>>
    <3> DEFINE N == Seq(Nat)
               S == Seq(1 .. Len(sockets))
    <3>1. LinkRecord = [available : BOOLEAN, next : Nat, pending : SUBSET Nat, queued : N, asked : S]
          /\ <<>> \in N
      BY DEF LinkRecord
    <3> HIDE DEF N, S
    <3> QED
      BY <1>4, <2>1, <3>1
  <2>5. sockets' = [sockets EXCEPT ![loop.peer] = x]
    BY <1>2, <2>1 DEF AttInv, AttType
  <2>6. /\ AttType' /\ StageInv' /\ RoomInv' /\ Len(sockets') = Len(sockets)
        /\ sockets'[loop.peer] = x /\ \A c \in Socket : c # loop.peer => sockets'[c] = sockets[c]
    BY <1>1, <1>2, <1>4, <2>3, <2>4, <2>5, PeerStep
  <2>7. ToSet(links'.queued) = {} /\ Rising(links'.queued) /\ ToSet(loop'.effects) = E \cup Q
        /\ Rising(loop'.effects)
    BY <2>2, <2>3, <2>4, OneControl
  <2>8. Controls(sockets', loop) = O /\ Awaiting(loop', links') = E \cup Q
    BY <2>6, <2>7 DEF Controls, Awaiting, O
  <2>9. Below(ToSet(loop'.effects), ToSet(links'.queued))
    BY <2>7 DEF Below
  <2>10. \A k \in 1 .. MaxLinks : opened[k] # <<>> /\ links.asked[k] = loop.peer =>
                                  Below({k}, O \cup (E \cup Q))
    BY <1>3 DEF Below
  <2>11. \A k \in O \cup (E \cup Q) : k \in 1 .. links.next /\ links.asked[k] = loop.peer
    BY <1>3
  <2>12. LinkInv'
    <3>1. AttType /\ LinkInv /\ links.next <= links'.next
      BY <1>4, <2>4 DEF AttInv
    <3>2. Ordered(sockets'[loop.peer].out)
      BY <1>2, <2>6
    <3> QED
      BY <1>1, <1>2, <1>3, <2>3, <2>4, <2>6, <2>7, <2>8, <2>9, <2>10, <2>11, <3>1, <3>2, PeerLinks
  <2> QED
    BY <2>6, <2>12 DEF AttInv
<1>6. CASE links.queued = <<>> /\ loop.effects # <<>> /\ ~Refused(loop.peer)
  <2> DEFINE h == Head(loop.effects)
             m == [type |-> "open", id |-> h]
             q == Append(x.out, m)
             r == WithOut(x, q)
             t == Tail(loop.effects)
             T == ToSet(t)
  <2>1. /\ links' = links /\ loop' = [loop EXCEPT !.effects = t]
        /\ sockets' = Post(sockets, loop.peer, m)
    BY <1>6 DEF Effects
  <2>2. h \in Nat /\ t \in Seq(Nat) /\ Rising(t) /\ E = {h} \cup T /\ Below({h}, T)
    BY <1>3, <1>4, <1>6, RisingHead
  <2>3. sockets' = [sockets EXCEPT ![loop.peer] = r]
    BY <1>6, <2>1 DEF Post, Refused, WithOut
  <2>4. m \in OutMsg /\ m.type = "open" /\ m.id = h
    BY <2>2 DEF OutMsg
  <2> HIDE DEF m
  <2>5. Below(O, {h})
    BY <1>3, <2>2 DEF Below
  <2>6. q \in Seq(OutMsg) /\ Ordered(q) /\ IdsOf(q) = O \cup {h}
    <3>1. q \in Seq(OutMsg)
      BY <1>2, <2>4, AppendProperties
    <3>2. Below(IdsOf(x.out), {m.id})
      BY <2>4, <2>5
    <3> HIDE DEF h, x
    <3>3. Ordered(q) /\ IdsOf(q) = IdsOf(x.out) \cup {m.id}
      BY <1>2, <2>4, <3>2, ControlAppended
    <3> QED
      BY <2>4, <3>1, <3>3
  <2> HIDE DEF q
  <2>7. r \in Connection /\ r.out = q /\ r.stage = "peer"
    BY <1>2, <2>6, OutChanged
  <2> HIDE DEF r, t, T, E, O, Q, x, h
  <2>8. /\ loop' \in LoopRecord /\ loop'.peer = loop.peer /\ loop'.effects = t /\ loop'.batch = <<>>
    BY <1>1, <1>4, <2>1, <2>2 DEF LoopRecord
  <2>9. links' = links /\ links'.queued = <<>>
    BY <1>6, <2>1
  <2>10. /\ AttType' /\ StageInv' /\ RoomInv' /\ Len(sockets') = Len(sockets)
         /\ sockets'[loop.peer] = r /\ \A c \in Socket : c # loop.peer => sockets'[c] = sockets[c]
    BY <1>1, <1>4, <2>3, <2>7, <2>8, <2>9, PeerStep
  <2>11. ToSet(links'.queued) = {} /\ Rising(links'.queued) /\ ToSet(loop'.effects) = T
         /\ Rising(loop'.effects) /\ Q = {}
    BY <2>2, <2>8, <2>9, OneControl DEF T, Q
  <2>12. Controls(sockets', loop) = O \cup {h} /\ Awaiting(loop', links') = T
    BY <2>6, <2>7, <2>10, <2>11 DEF Controls, Awaiting
  <2>13. Below(ToSet(loop'.effects), ToSet(links'.queued)) /\ Below(O \cup {h}, T)
    BY <1>3, <2>2, <2>11 DEF Below
  <2>14. \A k \in 1 .. MaxLinks : opened[k] # <<>> /\ links.asked[k] = loop.peer =>
                                  Below({k}, O \cup {h} \cup T)
    BY <1>3, <2>2, <2>11 DEF Below
  <2>15. \A k \in O \cup {h} \cup T : k \in 1 .. links.next /\ links.asked[k] = loop.peer
    BY <1>3, <2>2
  <2>16. LinkInv'
    <3>1. AttType /\ LinkInv /\ links.next <= links'.next
      BY <1>4, <2>9 DEF AttInv
    <3>2. Ordered(sockets'[loop.peer].out)
      BY <2>6, <2>7, <2>10
    <3> QED
      BY <1>1, <1>2, <2>8, <2>9, <2>10, <2>11, <2>12, <2>13, <2>14, <2>15, <3>1, <3>2, PeerLinks
  <2> QED
    BY <2>10, <2>16 DEF AttInv
<1> QED
  BY <1>5, <1>6 DEF Effects

\* A frontend reads a control of its connection.
LEMMA ReadStep ==
  ASSUME AttachmentAssumption, AttInv, NEW c \in Socket, sockets[c].out # <<>>, NEW r \in Connection,
         r.out = Tail(sockets[c].out), r.hello = sockets[c].hello, r.stage = sockets[c].stage,
         sockets' = [sockets EXCEPT ![c] = r], UNCHANGED <<loop, links, seen>>,
         windows' \in [Windows -> WindowRecord], opened' \in [1 .. MaxLinks -> Seq(Nat)]
  PROVE  /\ AttType' /\ StageInv' /\ RoomInv' /\ Len(sockets') = Len(sockets)
         /\ sockets'[c] = r /\ \A d \in Socket : d # c => sockets'[d] = sockets[d]
         /\ Ordered(r.out) /\ IdsOf(r.out) \subseteq IdsOf(sockets[c].out)
<1>1. /\ sockets' \in Seq(Connection) /\ Len(sockets') = Len(sockets) /\ sockets'[c] = r
      /\ \A d \in Socket : d # c => sockets'[d] = sockets[d]
  BY OneChanged DEF AttInv, AttType, Socket
<1>2. sockets[c] \in Connection /\ sockets[c].out \in Seq(OutMsg) /\ Ordered(sockets[c].out)
  <2>1. sockets[c] \in Connection
    BY ElementOfSeq DEF AttInv, AttType, Socket
  <2> QED
    BY <2>1, FieldChanged DEF AttInv, LinkInv
<1>3. /\ Ordered(r.out) /\ IdsOf(r.out) \subseteq IdsOf(sockets[c].out)
      /\ Len(r.out) = Len(sockets[c].out) - 1 /\ Len(sockets[c].out) \in Nat
  BY <1>2, ControlRead, LenProperties
<1>4. AttType'
  BY <1>1 DEF AttInv, AttType, WindowRecord
<1>5. StageInv'
  <2>1. \A d \in Socket : sockets'[d].stage = "candidate" =>
                            sockets'[d].out = <<>> /\ ~sockets'[d].hello
    BY <1>1 DEF AttInv, StageInv
  <2>2. loop.peer # 0 => loop.peer \in Socket
    BY LoopParts DEF Socket
  <2>3. \A d \in Socket : sockets'[d].stage = sockets[d].stage /\ sockets'[d].hello = sockets[d].hello
    BY <1>1
  <2>4. links.queued # <<>> => loop.peer # 0
    BY DEF AttInv, StageInv
  <2> QED
    BY <1>1, <2>1, <2>2, <2>3, <2>4 DEF AttInv, StageInv, Socket
<1>6. RoomInv'
  <2>1. ~seen'.reply
    BY DEF AttInv, RoomInv
  <2>2. ASSUME loop.batch # <<>> PROVE Len(loop.batch) + Len(sockets'[loop.peer].out) <= Room
    <3>1. loop.peer \in Socket /\ Len(loop.batch) \in Nat
      <4>1. loop.peer # 0
        BY <2>2 DEF AttInv, StageInv
      <4>2. loop.peer \in Socket
        BY <4>1, PeerParts
      <4>3. loop.batch \in Seq(InMsg)
        BY LoopParts
      <4> QED
        BY <4>2, <4>3, LenProperties
    <3>2. Len(loop.batch) + Len(sockets[loop.peer].out) <= Room
      BY <2>2 DEF AttInv, RoomInv
    <3>3. CASE loop.peer = c
      <4>1. sockets'[loop.peer].out = r.out
        BY <1>1, <3>3
      <4>2. Len(loop.batch) + Len(sockets[c].out) <= Room
        BY <3>2, <3>3
      <4> HIDE <2>2
      <4>3. Len(loop.batch) + (Len(sockets[c].out) - 1) <= Room
        BY <1>3, <3>1, <4>2, RoomKept
      <4> QED
        BY <1>3, <4>1, <4>3
    <3>4. CASE loop.peer # c
      BY <1>1, <3>1, <3>2, <3>4
    <3> QED
      BY <3>3, <3>4
  <2>3. UNCHANGED loop
    OBVIOUS
  <2> QED
    BY <2>1, <2>2, <2>3 DEF RoomInv
<1> QED
  BY <1>1, <1>3, <1>4, <1>5, <1>6

LEMMA ReceiveStep ==
  ASSUME AttachmentAssumption, AttInv, NEW w \in Windows, Receive(w)
  PROVE  AttInv'
<1> DEFINE c == Mine(w)
           x == sockets[c]
           m == Head(x.out)
           y == WithOut(x, Tail(x.out))
           wr == windows[w]
<1>1. /\ c \in Socket /\ x.out # <<>> /\ UNCHANGED <<loop, links, seen>>
      /\ windows \in [Windows -> WindowRecord] /\ wr \in WindowRecord /\ Len(sockets) \in Nat
      /\ wr.last \in Nat /\ wr.run \in Nat /\ wr.openers \subseteq [id : Nat, run : Nat]
      /\ opened \in [1 .. MaxLinks -> Seq(Nat)]
  <2>1. c # 0 /\ x.out # <<>> /\ UNCHANGED <<loop, links, seen>>
    BY DEF Receive
  <2>2. c \in 0 .. Len(sockets)
    BY WindowFields DEF Mine
  <2>3. opened \in [1 .. MaxLinks -> Seq(Nat)]
    BY DEF AttInv, AttType
  <2> HIDE DEF c
  <2> QED
    BY SMTT(30), <2>1, <2>2, <2>3, WindowFields DEF Socket
<1>2. /\ x \in Connection /\ x.out \in Seq(OutMsg) /\ Ordered(x.out)
  <2>1. x \in Connection
    BY <1>1, ElementOfSeq DEF AttInv, AttType, Socket
  <2> HIDE DEF c
  <2> QED
    BY <1>1, <2>1, FieldChanged DEF AttInv, LinkInv
<1>3. /\ m \in OutMsg /\ Tail(x.out) \in Seq(OutMsg)
      /\ m.type = "open" => m.id \in IdsOf(x.out) /\ Below({m.id}, IdsOf(Tail(x.out)))
  <2> HIDE DEF x
  <2> QED
    BY <1>1, <1>2, ControlRead
<1>4. /\ y \in Connection /\ y.out = Tail(x.out) /\ y.hello = x.hello /\ y.stage = x.stage
      /\ y.in = x.in
  <2> HIDE DEF x
  <2> QED
    BY <1>2, <1>3, OutChanged
<1>5. \E r \in Connection :
        /\ sockets' = [sockets EXCEPT ![c] = r] /\ r.out = y.out /\ r.hello = x.hello
        /\ r.stage = x.stage /\ windows' \in [Windows -> WindowRecord]
        /\ \/ opened' = opened
           \/ m.type = "open" /\ opened' = [opened EXCEPT ![m.id] = Append(@, c)]
  <2>1. CASE m.type = "hello"
    <3>1. /\ sockets' = [sockets EXCEPT ![c] = y] /\ opened' = opened
          /\ windows' = [windows EXCEPT ![w] = Greeted(wr)]
      BY <2>1 DEF Receive, WithOut, Greeted
    <3> HIDE DEF y, wr, x, m, c
    <3>2. windows' \in [Windows -> WindowRecord]
      BY <1>1, <3>1, WindowParts, WindowChanged DEF wr
    <3> QED
      BY <1>4, <3>1, <3>2
  <2>2. CASE m.type = "error"
    <3>1. /\ sockets' = [sockets EXCEPT ![c] = y] /\ opened' = opened
          /\ windows' = [windows EXCEPT ![w] = Away(wr)]
      BY <2>2 DEF Receive, WithOut, Away
    <3> HIDE DEF y, wr, x, m, c
    <3>2. windows' \in [Windows -> WindowRecord]
      BY <1>1, <3>1, WindowParts, WindowChanged DEF wr
    <3> QED
      BY <1>4, <3>1, <3>2
  <2>3. CASE m.type \in {"ack", "other"}
    <3>1. sockets' = [sockets EXCEPT ![c] = y] /\ opened' = opened /\ windows' = windows
      BY <2>3 DEF Receive, WithOut
    <3> HIDE DEF y, wr, x, m, c
    <3> QED
      BY <1>1, <1>4, <3>1
  <2>4. CASE m.type = "open"
    <3> DEFINE a == [type |-> "result", id |-> m.id, unsupported |-> FALSE]
               z == WithIn(y, Append(x.in, a))
               e == [id |-> m.id, run |-> wr.run]
    <3>1. \/ /\ sockets' = [sockets EXCEPT ![c] = y] /\ opened' = opened /\ windows' = windows
          \/ /\ sockets' = [sockets EXCEPT ![c] = z] /\ opened' = opened
             /\ windows' = [windows EXCEPT ![w] = Later(wr, m.id)]
          \/ /\ sockets' = [sockets EXCEPT ![c] = y]
             /\ opened' = [opened EXCEPT ![m.id] = Append(@, c)]
             /\ windows' = [windows EXCEPT ![w] = Opening(wr, m.id, e)]
      <4>1. IF ~wr.connected \/ ~Unread(w, m)
            THEN sockets' = [sockets EXCEPT ![c].out = Tail(@)] /\ UNCHANGED <<windows, opened>>
            ELSE IF Cardinality(wr.openers) >= LinkLimit
            THEN /\ sockets' = [[sockets EXCEPT ![c].out = Tail(@)] EXCEPT ![c].in = Append(@, a)]
                 /\ windows' = [windows EXCEPT ![w].last = m.id] /\ UNCHANGED opened
            ELSE /\ windows' = [windows EXCEPT ![w].last = m.id, ![w].openers = @ \cup {e}]
                 /\ opened' = [opened EXCEPT ![m.id] = Append(@, c)]
                 /\ sockets' = [sockets EXCEPT ![c].out = Tail(@)]
        BY <2>4 DEF Receive
      <4>2. [sockets EXCEPT ![c].out = Tail(@)] = [sockets EXCEPT ![c] = y]
        BY DEF WithOut
      <4>3. [[sockets EXCEPT ![c].out = Tail(@)] EXCEPT ![c].in = Append(@, a)] = [sockets EXCEPT ![c] = z]
        <5> DEFINE ss == [sockets EXCEPT ![c] = y]
        <5>1. ss[c] = y
          <6> HIDE DEF c, y
          <6> QED
            BY <1>1, <1>4, OneChanged DEF AttInv, AttType, Socket
        <5>2. [ss EXCEPT ![c].in = Append(@, a)] = [ss EXCEPT ![c] = WithIn(ss[c], Append(ss[c].in, a))]
          BY DEF WithIn
        <5>3. \A v : [ss EXCEPT ![c] = v] = [sockets EXCEPT ![c] = v]
          OBVIOUS
        <5>4. [sockets EXCEPT ![c].out = Tail(@)] = ss
          BY <4>2
        <5>5. y.in = x.in
          BY <1>4
        <5> HIDE DEF ss, y, x, c, a
        <5> QED
          BY <5>1, <5>2, <5>3, <5>4, <5>5
      <4>4. [windows EXCEPT ![w].last = m.id] = [windows EXCEPT ![w] = Later(wr, m.id)]
        BY DEF Later
      <4>5. [windows EXCEPT ![w].last = m.id, ![w].openers = @ \cup {e}] =
              [windows EXCEPT ![w] = Opening(wr, m.id, e)]
        BY <1>1 DEF Opening
      <4> HIDE DEF a, e, y, wr, x, m, c, z
      <4> QED
        BY <4>1, <4>2, <4>3, <4>4, <4>5
    <3>2. m.id \in Nat
      BY <1>3, <2>4 DEF OutMsg
    <3>3. a \in InMsg
      BY <3>2 DEF InMsg
    <3>4. e \in [id : Nat, run : Nat]
      BY <1>1, <3>2
    <3> HIDE DEF a, e, y, wr, x, m, c
    <3>5. z \in Connection /\ z.out = y.out /\ z.hello = y.hello /\ z.stage = y.stage
      <4>1. Append(x.in, a) \in Seq(InMsg)
        BY <1>2, <3>3, FieldChanged, AppendProperties
      <4> QED
        BY <1>4, <4>1, InChanged
    <3> HIDE DEF z
    <3>6. Later(wr, m.id) \in WindowRecord /\ Opening(wr, m.id, e) \in WindowRecord
      BY <1>1, <3>2, <3>4, OpenParts
    <3>7. windows' \in [Windows -> WindowRecord]
      BY <1>1, <3>1, <3>6, WindowChanged
    <3> QED
      BY <1>4, <2>4, <3>1, <3>5, <3>7
  <2> QED
    BY <1>3, <2>1, <2>2, <2>3, <2>4 DEF OutMsg
<1> HIDE DEF m, y, wr
<1>6. PICK r \in Connection :
        /\ sockets' = [sockets EXCEPT ![c] = r] /\ r.out = y.out /\ r.hello = x.hello
        /\ r.stage = x.stage /\ windows' \in [Windows -> WindowRecord]
        /\ \/ opened' = opened
           \/ m.type = "open" /\ opened' = [opened EXCEPT ![m.id] = Append(@, c)]
  BY <1>5
<1>7. opened' \in [1 .. MaxLinks -> Seq(Nat)]
  <2>1. c \in Nat
    BY <1>1 DEF Socket
  <2> HIDE DEF c
  <2>2. \A k \in 1 .. MaxLinks : Append(opened[k], c) \in Seq(Nat)
    BY <1>1, <2>1, AppendProperties
  <2>3. CASE opened' = [opened EXCEPT ![m.id] = Append(@, c)]
    BY <1>1, <2>2, <2>3
  <2> QED
    BY <1>1, <1>6, <2>3
<1>8. /\ AttType' /\ StageInv' /\ RoomInv' /\ Len(sockets') = Len(sockets)
      /\ sockets'[c] = r /\ \A d \in Socket : d # c => sockets'[d] = sockets[d]
      /\ Ordered(r.out) /\ IdsOf(r.out) \subseteq IdsOf(x.out)
  <2>1. r.out = Tail(sockets[c].out) /\ r.hello = sockets[c].hello /\ r.stage = sockets[c].stage
    BY <1>4, <1>6
  <2> HIDE DEF c
  <2> QED
    BY <1>1, <1>6, <1>7, <2>1, ReadStep DEF x
<1> HIDE DEF c, x
<1>9. \A d \in Socket : Ordered(sockets'[d].out) /\ IdsOf(sockets'[d].out) \subseteq IdsOf(sockets[d].out)
  BY <1>8 DEF AttInv, LinkInv, x
<1>10. CASE opened' = opened
  <2>1. Len(sockets) <= Len(sockets') /\ \A d \in 1 .. Len(sockets') : ~(d > Len(sockets))
    BY <1>1, <1>8
  <2>2. \A d \in 1 .. Len(sockets) :
          Ordered(sockets'[d].out) /\ IdsOf(sockets'[d].out) \subseteq IdsOf(sockets[d].out)
    BY <1>9 DEF Socket
  <2>3. AttType /\ LinkInv
    BY DEF AttInv
  <2>4. LinkInv'
    BY <1>1, <1>8, <1>10, <2>1, <2>2, <2>3, NoLinkMoves
  <2> QED
    BY <1>8, <2>4 DEF AttInv
<1>11. CASE m.type = "open" /\ opened' = [opened EXCEPT ![m.id] = Append(@, c)]
  <2> DEFINE n == m.id
             W == ToSet(loop.effects) \cup ToSet(links.queued)
  <2>1. /\ n \in IdsOf(x.out) /\ Below({n}, IdsOf(r.out)) /\ n \in 1 .. links.next
        /\ links.asked[n] = c
    <3>1. n \in IdsOf(x.out) /\ Below({n}, IdsOf(Tail(x.out)))
      BY <1>3, <1>11
    <3> QED
      BY <1>1, <1>4, <1>6, <3>1 DEF AttInv, LinkInv, x
  <2>2. loop.peer # 0 => Below(IdsOf(sockets[loop.peer].out), W)
    BY DEF AttInv, LinkInv
  <2>3. \A k \in 1 .. MaxLinks : opened[k] # <<>> =>
          /\ k <= links.next /\ opened[k] = <<links.asked[k]>>
          /\ Below({k}, IdsOf(sockets[links.asked[k]].out))
          /\ links.asked[k] = loop.peer => Below({k}, W)
    BY DEF AttInv, LinkInv
  <2> HIDE DEF n, W
  <2>4. n \in 1 .. MaxLinks => opened[n] = <<>>
    <3> SUFFICES ASSUME n \in 1 .. MaxLinks, opened[n] # <<>> PROVE FALSE
      OBVIOUS
    <3>1. Below({n}, IdsOf(x.out))
      BY <2>1, <2>3 DEF x
    <3> QED
      BY <2>1, <3>1 DEF Below
  <2>5. ASSUME NEW k \in 1 .. MaxLinks, opened'[k] # <<>>
        PROVE  /\ k <= links.next /\ opened'[k] = <<links.asked[k]>>
               /\ Below({k}, IdsOf(sockets'[links.asked[k]].out))
               /\ links.asked[k] = loop.peer => Below({k}, W)
    <3>1. CASE k = n
      <4>1. opened'[n] = Append(opened[n], c)
        BY <1>1, <1>11, <3>1 DEF n
      <4>2. opened'[n] = <<c>>
        <5>1. opened[n] = <<>>
          BY <2>4, <3>1
        <5>2. Append(<<>>, c) = <<c>>
          OBVIOUS
        <5> QED
          BY <4>1, <5>1, <5>2
      <4>3. n <= links.next
        BY <2>1, LoopParts
      <4>4. c = loop.peer => Below({n}, W)
        <5>1. c # 0
          BY <1>1 DEF Socket
        <5> QED
          BY <2>1, <2>2, <5>1 DEF Below, x
      <4> QED
        BY <1>8, <2>1, <3>1, <4>2, <4>3, <4>4
    <3>2. CASE k # n
      <4>1. opened'[k] = opened[k]
        BY <1>1, <1>11, <3>2 DEF n
      <4>2. /\ k <= links.next /\ opened[k] = <<links.asked[k]>>
            /\ Below({k}, IdsOf(sockets[links.asked[k]].out))
            /\ links.asked[k] = loop.peer => Below({k}, W)
        BY <2>3, <2>5, <4>1
      <4>3. links.asked[k] \in Socket
        <5>1. links.asked \in Seq(Socket) /\ Len(links.asked) = links.next /\ links.next \in Nat
          BY LoopParts DEF LinkRecord, Socket
        <5>2. k \in 1 .. links.next
          BY <4>2, <5>1
        <5> QED
          BY <5>1, <5>2, ElementOfSeq
      <4>4. Below({k}, IdsOf(sockets'[links.asked[k]].out))
        BY <1>9, <4>2, <4>3 DEF Below
      <4> QED
        BY <4>1, <4>2, <4>4
    <3> QED
      BY <3>1, <3>2
  <2>6. \A d \in Socket' : /\ Ordered(sockets'[d].out)
                           /\ \A k \in IdsOf(sockets'[d].out) :
                                k \in 1 .. links.next /\ links.asked[k] = d
    <3>1. Socket' = Socket
      BY <1>8 DEF Socket
    <3> QED
      BY <1>9, <3>1 DEF AttInv, LinkInv
  <2>7. loop.peer # 0 => Below(IdsOf(sockets'[loop.peer].out), W)
    <3>1. loop.peer # 0 => loop.peer \in Socket
      BY PeerParts
    <3> QED
      BY <1>9, <2>2, <3>1 DEF Below
  <2>8. LinkInv'
    <3>1. UNCHANGED <<loop, links>>
      BY <1>1
    <3>2. /\ Rising(loop.effects) /\ Rising(links.queued)
          /\ \A k \in ToSet(loop.effects) \cup ToSet(links.queued) :
               k \in 1 .. links.next /\ links.asked[k] = loop.peer
          /\ Below(ToSet(loop.effects), ToSet(links.queued))
      BY DEF AttInv, LinkInv
    <3> QED
      BY <2>5, <2>6, <2>7, <3>1, <3>2 DEF LinkInv, W
  <2> QED
    BY <1>8, <2>8 DEF AttInv
<1> QED
  BY <1>6, <1>10, <1>11

\* A candidate's first message makes it the peer, or turns it away.
LEMMA PromoteStep ==
  ASSUME AttachmentAssumption, AttInv, NEW c \in Socket, Promote(c)
  PROVE  AttInv'
<1> DEFINE x == sockets[c]
           p == loop.peer
<1>1. /\ x.stage = "candidate" /\ x.in # <<>> /\ UNCHANGED <<windows, opened, seen>>
      /\ x.out = <<>> /\ ~x.hello /\ x \in Connection /\ c # p /\ c \in 1 .. Len(sockets)
      /\ c # 0 /\ Room \in Nat \ {0}
  <2>1. /\ x.stage = "candidate" /\ x.in # <<>> /\ UNCHANGED <<windows, opened, seen>>
    BY DEF Promote, Waiting, Speaks
  <2>2. x \in Connection
    BY ElementOfSeq DEF AttInv, AttType, Socket
  <2>3. x.out = <<>> /\ ~x.hello /\ c # p
    <3>1. c = p => x.stage = "peer"
      BY DEF AttInv, StageInv, Socket
    <3> QED
      BY <2>1, <3>1 DEF AttInv, StageInv
  <2> QED
    BY <2>1, <2>2, <2>3 DEF Socket, AttachmentAssumption
<1>2. sockets \in Seq(Connection) /\ Len(sockets) \in Nat /\ p \in 0 .. Len(sockets)
      /\ \A d \in 1 .. Len(sockets) : Ordered(sockets[d].out)
  BY LoopParts DEF AttInv, AttType, LinkInv, Socket
<1>3. CASE TurnedAway
  <2> DEFINE q == <<[type |-> "error"]>>
             y == WithStage(x, "gone")
             r == WithOut(y, q)
  <2>1. sockets' = [sockets EXCEPT ![c] = r] /\ UNCHANGED <<loop, links>>
    BY <1>3 DEF Promote, WithStage, WithOut
  <2>2. q \in Seq(OutMsg)
    <3>1. [type |-> "error"] \in OutMsg
      BY DEF OutMsg
    <3> QED
      BY <3>1
  <2>3. Ordered(q) /\ IdsOf(q) = {}
    BY OneControl
  <2> HIDE DEF q, x, p
  <2>4. y \in Connection /\ y.stage = "gone"
    BY <1>1, StageChanged
  <2> HIDE DEF y
  <2>5. r \in Connection /\ r.stage = "gone" /\ r.out = q
    BY <2>2, <2>4, OutChanged
  <2> HIDE DEF r
  <2>6. /\ sockets' \in Seq(Connection) /\ Len(sockets') = Len(sockets) /\ sockets'[c] = r
        /\ \A d \in 1 .. Len(sockets) : d # c => sockets'[d] = sockets[d]
    BY <1>1, <1>2, <2>1, <2>5, OneChanged
  <2>7. AttType'
    BY <1>1, <2>1, <2>6 DEF AttInv, AttType
  <2>8. StageInv'
    <3>1. \A d \in Socket : sockets'[d].stage = "candidate" =>
                              sockets'[d].out = <<>> /\ ~sockets'[d].hello
      BY <2>5, <2>6 DEF AttInv, StageInv, Socket
    <3>2. p # 0 => sockets'[p] = sockets[p]
      BY <1>1, <1>2, <2>6
    <3>3. links.queued # <<>> => p # 0
      BY DEF AttInv, StageInv, p
    <3> QED
      BY <2>1, <2>6, <3>1, <3>2, <3>3 DEF AttInv, StageInv, Socket, p
  <2>9. RoomInv'
    <3>1. loop.batch # <<>> => p # 0 /\ sockets'[p] = sockets[p]
      BY <1>1, <1>2, <2>6 DEF AttInv, StageInv, p
    <3> QED
      BY <1>1, <2>1, <3>1 DEF AttInv, RoomInv, p
  <2>10. LinkInv'
    <3>1. /\ Len(sockets) <= Len(sockets') /\ \A d \in 1 .. Len(sockets') : ~(d > Len(sockets))
          /\ AttType /\ LinkInv
      BY <1>2, <2>6 DEF AttInv
    <3>2. \A d \in 1 .. Len(sockets) :
            Ordered(sockets'[d].out) /\ IdsOf(sockets'[d].out) \subseteq IdsOf(sockets[d].out)
      BY <1>2, <2>3, <2>5, <2>6
    <3> QED
      BY <1>1, <2>1, <2>7, <3>1, <3>2, NoLinkMoves
  <2> QED
    BY <2>7, <2>8, <2>9, <2>10 DEF AttInv
<1>4. CASE ~TurnedAway
  <2> DEFINE q == SubSeq(x.in, 2, Len(x.in))
             b == SubSeq(x.in, 1, 1)
             y == WithStage(x, "peer")
             r == WithIn(y, q)
             ss == [sockets EXCEPT ![c] = r]
             g == WithStage(ss[p], "gone")
  <2>1. /\ sockets' = Shut(ss, p)
        /\ loop' = [loop EXCEPT !.peer = c, !.batch = b, !.effects = <<>>]
        /\ links' = (IF Peer.hello THEN SetAvailable(links, FALSE) ELSE links)
    BY <1>4 DEF Promote, Welcome, WithStage, WithIn
  <2>2. q \in Seq(InMsg) /\ b \in Seq(InMsg) /\ Len(b) <= 1 /\ Len(b) \in Nat
    <3>1. x.in \in Seq(InMsg) /\ Len(x.in) \in Nat /\ Len(x.in) # 0
      BY <1>1, FieldChanged, LenProperties, EmptySeq
    <3> HIDE DEF x
    <3> QED
      BY <3>1, SubSeqProperties
  <2> HIDE DEF q, b, x, p
  <2>3. y \in Connection /\ y.stage = "peer" /\ y.out = x.out
    BY <1>1, StageChanged
  <2> HIDE DEF y
  <2>4. r \in Connection /\ r.stage = "peer" /\ r.out = <<>>
    BY <1>1, <2>2, <2>3, InChanged
  <2> HIDE DEF r
  <2>5. /\ ss \in Seq(Connection) /\ Len(ss) = Len(sockets) /\ ss[c] = r
        /\ \A d \in 1 .. Len(sockets) : d # c => ss[d] = sockets[d]
    BY <1>1, <1>2, <2>4, OneChanged
  <2> HIDE DEF ss
  <2>6. /\ sockets' \in Seq(Connection) /\ Len(sockets') = Len(sockets) /\ sockets'[c] = r
        /\ \A d \in 1 .. Len(sockets) : d # c =>
              /\ sockets'[d].out = sockets[d].out /\ sockets'[d].hello = sockets[d].hello
              /\ sockets'[d].stage = IF d = p THEN "gone" ELSE sockets[d].stage
    <3>1. CASE p = 0
      <4>1. sockets' = ss /\ \A d \in 1 .. Len(sockets) : d # p
        BY <1>2, <2>1, <3>1 DEF Shut
      <4> QED
        BY <2>5, <4>1
    <3>2. CASE p # 0
      <4>1. p \in 1 .. Len(ss) /\ p # c /\ ss[p] = sockets[p]
        BY <1>1, <1>2, <2>5, <3>2
      <4>2. ss[p] \in Connection
        BY <2>5, <4>1, ElementOfSeq
      <4>3. g \in Connection /\ g.stage = "gone" /\ g.out = ss[p].out /\ g.hello = ss[p].hello
        BY <4>2, StageChanged
      <4>4. sockets' = [ss EXCEPT ![p] = g]
        BY <2>1, <3>2 DEF Shut, WithStage
      <4> HIDE DEF g
      <4>5. /\ sockets' \in Seq(Connection) /\ Len(sockets') = Len(ss) /\ sockets'[p] = g
            /\ \A d \in 1 .. Len(ss) : d # p => sockets'[d] = ss[d]
        BY <2>5, <4>1, <4>3, <4>4, OneChanged
      <4> QED
        BY <1>1, <2>5, <4>1, <4>3, <4>5
    <3> QED
      BY <3>1, <3>2
  <2>7. /\ loop' \in LoopRecord /\ loop'.peer = c /\ loop'.batch = b /\ loop'.effects = <<>>
    <3> DEFINE S == 0 .. Len(sockets)
               M == Seq(InMsg)
               N == Seq(Nat)
    <3>1. /\ loop \in LoopRecord /\ LoopRecord = [peer : S, batch : M, effects : N, exclusive : BOOLEAN]
          /\ c \in S /\ b \in M /\ <<>> \in N
      BY <1>1, <2>2, LoopParts DEF LoopRecord
    <3> HIDE DEF S, M, N
    <3> QED
      BY <2>1, <3>1
  <2>8. /\ links' \in LinkRecord /\ links'.next = links.next /\ links'.asked = links.asked
        /\ links'.queued = <<>> /\ Len(links'.asked) = links'.next
    <3>1. /\ links' \in LinkRecord /\ links'.next = links.next /\ links'.asked = links.asked
          /\ links'.queued = IF Peer.hello THEN <<>> ELSE links.queued
      BY <2>1, LoopParts, Available
    <3>2. ~Peer.hello => links.queued = <<>>
      <4>1. CASE p = 0
        BY <4>1 DEF AttInv, StageInv, p
      <4>2. CASE p # 0
        <5>1. Peer = sockets[loop.peer]
          BY <4>2, PeerParts DEF p
        <5> QED
          BY <5>1 DEF AttInv, StageInv
      <4> QED
        BY <4>1, <4>2
    <3> QED
      BY <3>1, <3>2, LoopParts
  <2>9. AttType'
    BY <1>1, <2>6, <2>7, <2>8 DEF AttInv, AttType, LoopRecord, LinkRecord
  <2>10. StageInv'
    <3>1. \A d \in Socket : sockets'[d].stage = "candidate" =>
                              sockets'[d].out = <<>> /\ ~sockets'[d].hello
      <4> SUFFICES ASSUME NEW d \in Socket, sockets'[d].stage = "candidate"
                   PROVE  sockets'[d].out = <<>> /\ ~sockets'[d].hello
        OBVIOUS
      <4>1. d # c /\ sockets[d].stage = "candidate"
        BY <2>4, <2>6 DEF Socket
      <4> QED
        BY <2>6, <4>1 DEF AttInv, StageInv, Socket
    <3>2. Socket' = Socket
      BY <2>6 DEF Socket
    <3> QED
      BY <1>1, <2>4, <2>6, <2>7, <2>8, <3>1, <3>2 DEF StageInv
  <2>11. RoomInv'
    <3>1. Len(r.out) = 0
      BY <2>4
    <3>2. Len(b) + 0 <= Room
      BY <1>1, <2>2
    <3> QED
      BY <1>1, <2>6, <2>7, <3>1, <3>2 DEF AttInv, RoomInv
  <2>12. LinkInv'
    <3>1. /\ Len(sockets) <= Len(sockets') /\ \A d \in 1 .. Len(sockets') : ~(d > Len(sockets))
          /\ AttType /\ LinkInv
      BY <1>2, <2>6 DEF AttInv
    <3>2. \A d \in 1 .. Len(sockets) :
            Ordered(sockets'[d].out) /\ IdsOf(sockets'[d].out) \subseteq IdsOf(sockets[d].out)
      BY <1>2, <2>4, <2>6, OneControl
    <3> QED
      BY <1>1, <2>7, <2>8, <2>9, <3>1, <3>2, NoLinkMoves
  <2> QED
    BY <2>9, <2>10, <2>11, <2>12 DEF AttInv
<1> QED
  BY <1>3, <1>4

LEMMA PokeStep ==
  ASSUME AttInv, Poke
  PROVE  AttInv'
<1>1. Connect(Probe) /\ UNCHANGED <<loop, links, windows, opened>> /\ seen' = [seen EXCEPT !.events = @ + 1]
  BY DEF Poke, Count
<1>2. windows' \in [Windows -> WiderRecord]
  <2>1. windows \in [Windows -> WindowRecord]
    BY DEF AttInv, AttType, WindowRecord
  <2>2. WindowRecord \subseteq WiderRecord
    BY LoopParts, WindowParts
  <2> QED
    BY <1>1, <2>1, <2>2
<1>3. seen' \in [reply : {seen.reply}, events : Nat]
  <2>1. seen \in [reply : {FALSE}, events : Nat] /\ [seen EXCEPT !.events = @ + 1] \in [reply : {FALSE}, events : Nat]
    BY LoopParts
  <2> QED
    BY <1>1, <2>1
<1> QED
  BY <1>1, <1>2, <1>3, ConnectStep DEF WiderRecord

LEMMA AttStart ==
  ASSUME AttachmentAssumption, AttInit
  PROVE  AttInv
<1>1. /\ sockets = <<>> /\ Len(sockets) = 0 /\ Socket = {}
  BY DEF AttInit, Socket
<1>2. /\ loop.peer = 0 /\ loop.batch = <<>> /\ loop.effects = <<>>
      /\ links.queued = <<>> /\ links.next = 0 /\ links.asked = <<>> /\ seen.reply = FALSE
      /\ \A n \in 1 .. MaxLinks : opened[n] = <<>>
  BY DEF AttInit
<1>3. AttType
  <2>1. loop \in [peer : 0 .. 0, batch : Seq(InMsg), effects : Seq(Nat), exclusive : BOOLEAN]
    BY DEF AttInit, AttachmentAssumption
  <2>2. links \in [available : BOOLEAN, next : Nat, pending : SUBSET Nat, queued : Seq(Nat),
                    asked : Seq(1 .. 0)] /\ Len(links.asked) = links.next
    BY DEF AttInit
  <2>3. windows \in [Windows -> [alive : BOOLEAN, conn : 0 .. 0, connected : BOOLEAN,
                                  last : Nat, run : Nat, openers : SUBSET [id : Nat, run : Nat]]]
    BY DEF AttInit
  <2>4. opened \in [1 .. MaxLinks -> Seq(Nat)] /\ seen \in [reply : BOOLEAN, events : Nat]
        /\ sockets \in Seq(Connection)
    BY DEF AttInit
  <2> QED
    BY <1>1, <2>1, <2>2, <2>3, <2>4 DEF AttType
<1>4. StageInv /\ RoomInv
  BY <1>1, <1>2 DEF StageInv, RoomInv
<1>5. LinkInv
  BY <1>1, <1>2, OneControl DEF LinkInv, Below
<1> QED
  BY <1>3, <1>4, <1>5 DEF AttInv

LEMMA AttNextInv ==
  ASSUME AttachmentAssumption, AttInv, [AttNext]_attVars
  PROVE  AttInv'
<1>1. CASE UNCHANGED attVars
  BY <1>1 DEF attVars, AttInv, AttType, StageInv, RoomInv, LinkInv, Socket
<1>2. CASE \E c \in Socket : Promote(c) \/ Discard(c) \/ Break(c)
  BY <1>2, PromoteStep, SocketSteps
<1>3. CASE \E w \in Windows : Open(w) \/ Type(w) \/ Leave(w) \/ Receive(w) \/ Reap(w) \/ Notice(w)
  BY <1>3, FrontendSteps, ReceiveStep
<1>4. CASE Take \/ Handle \/ Effects \/ Fill \/ Poke
  BY <1>4, TakeStep, HandleStep, EffectsStep, FillStep, PokeStep
<1> QED
  BY <1>1, <1>2, <1>3, <1>4 DEF AttNext

\* A link is opened at most once and only on the connection it was asked on, and a burst
\* of inputs never finds the control channel full, for every number of frontends, of
\* connections and of links and whatever room there is: drop_peer, the capped read of
\* Peer::incoming and the ordering of ids in session.rs and frontend_actions.rs.
THEOREM EffectsAlwaysKept ==
  ASSUME AttachmentAssumption
  PROVE  AttInit /\ [][AttNext]_attVars => []EffectsKept
<1>1. AttInit => AttInv
  BY AttStart
<1>2. AttInv /\ [AttNext]_attVars => AttInv'
  BY AttNextInv
<1>3. AttInv => EffectsKept
  <2> SUFFICES ASSUME AttInv PROVE NoReplay /\ RepliesFit
    BY DEF EffectsKept
  <2>1. RepliesFit
    BY DEF AttInv, RoomInv, RepliesFit
  <2>2. ASSUME NEW n \in 1 .. MaxLinks
        PROVE  /\ Len(opened[n]) <= 1
               /\ \A k \in 1 .. Len(opened[n]) : n <= links.next /\ opened[n][k] = links.asked[n]
    <3>1. CASE opened[n] = <<>>
      BY <3>1
    <3>2. CASE opened[n] # <<>>
      <4>1. n <= links.next /\ opened[n] = <<links.asked[n]>>
        BY <3>2 DEF AttInv, LinkInv
      <4> QED
        BY <4>1
    <3> QED
      BY <3>1, <3>2
  <2> QED
    BY <2>1, <2>2 DEF NoReplay
<1> QED
  BY <1>1, <1>2, <1>3, PTL
=============================================================================
