------------------------------- MODULE Update -------------------------------
(***************************************************************************)
(* The self-updater (update.rs).  Several processes of one installation    *)
(* share a cache directory and the executable they were started from: a    *)
(* background worker asks for the latest release and stages it, a starting *)
(* process activates what is staged, a command rolls back, the settings    *)
(* change the policy.  Each takes the cache's lock without waiting (lock)  *)
(* and fails when it is held; a killed process loses it.                   *)
(*                                                                         *)
(* Every file that another process can read is written by a rename or      *)
(* removed in a step of its own, so a process can stop, or fail, between   *)
(* any two of them.  An executable is the version it reports, since stage  *)
(* keeps only what reports the candidate's version; 0 is no file.  A       *)
(* process does one thing at a time: the worker of a process beside its    *)
(* main thread is another member of Procs.  Left out: what status.json     *)
(* tells the user, the private temporary files, a second installation in   *)
(* the same cache, and stage called outside the background worker.         *)
(***************************************************************************)
EXTENDS Naturals

CONSTANTS Procs,   \* the processes that can run at once
          Newest,  \* bound: the newest version ever released
          Nobody   \* holds the lock when no process does

ASSUME UpdateAssumption == Newest \in Nat \ {0} /\ Nobody \notin Procs

VARIABLES policy,   \* policy.json
          checked,  \* status.json: a check was recorded within six hours
          pending,  \* the version pending.json describes
          staged,   \* the version of pending.bin
          applied,  \* the version of the receipt, applied.json
          target,   \* the installed executable
          backup,   \* .<name>.previous beside it
          lock,     \* the process that holds the flock
          latest,   \* the release GitHub calls the latest
          asked,    \* history: checks over the network in these six hours
          ver,      \* app.version of each process
          pc,       \* where each process is
          found,    \* the candidate its background worker is handling
          leave     \* what it does after clear_pending

cache == <<policy, checked, pending, staged, applied>>
installed == <<target, backup>>
local == <<ver, found, leave>>
vars == <<cache, installed, lock, latest, asked, pc, local>>

Versions == 1 .. Newest
Maybe == 0 .. Newest
Policies == {"automatic", "notify", "off"}
Staging == {"fetch", "unpair", "persist", "list"}
Locked == {"decide", "backup", "install", "restore", "unlist", "unbin", "poll"} \cup Staging
Checking == {"poll", "ask", "consider", "stage", "report"} \cup Staging
Labels == {"off", "start", "idle", "exec"} \cup Locked \cup Checking

Init ==
  /\ policy = "automatic" /\ checked = FALSE
  /\ pending = 0 /\ staged = 0 /\ applied = 0
  /\ target = 1 /\ backup = 0 /\ latest = 1
  /\ lock = Nobody /\ asked = 0
  /\ ver = [p \in Procs |-> 0]
  /\ pc = [p \in Procs |-> "off"]
  /\ found = [p \in Procs |-> 0]
  /\ leave = [p \in Procs |-> "idle"]

-----------------------------------------------------------------------------
(* The lock *)

At(p, l) == pc[p] = l
Goto(p, l) == pc' = [pc EXCEPT ![p] = l]

\* Who gets the lock removes a pending.bin that no pending.json describes.
Swept == IF pending = 0 THEN 0 ELSE staged

Acquire(p, from, to) ==
  /\ At(p, from) /\ lock = Nobody
  /\ lock' = p /\ staged' = Swept
  /\ Goto(p, to)

Unlock(p, to) == lock' = Nobody /\ Goto(p, to)

-----------------------------------------------------------------------------
(* Processes *)

\* A process runs the executable installed at that moment.
Launch(p) ==
  /\ At(p, "off")
  /\ ver' = [ver EXCEPT ![p] = target]
  /\ Goto(p, "start")
  /\ UNCHANGED <<cache, installed, lock, latest, asked, found, leave>>

\* After an activation or a rollback it executes the new installation.
Exec(p) ==
  /\ At(p, "exec")
  /\ ver' = [ver EXCEPT ![p] = target]
  /\ Goto(p, "start")
  /\ UNCHANGED <<cache, installed, lock, latest, asked, found, leave>>

\* A process ends or is killed, wherever it is.
Stop(p) ==
  /\ ~At(p, "off")
  /\ lock' = IF lock = p THEN Nobody ELSE lock
  /\ Goto(p, "off")
  /\ ver' = [ver EXCEPT ![p] = 0]
  /\ found' = [found EXCEPT ![p] = 0]
  /\ leave' = [leave EXCEPT ![p] = "idle"]
  /\ UNCHANGED <<cache, installed, latest, asked>>

\* The next file operation, download or verification of an operation that
\* holds the lock fails: it returns the error and drops the lock.
Fail(p) ==
  /\ pc[p] \in Locked
  /\ Unlock(p, IF pc[p] \in Staging THEN "report" ELSE "idle")
  /\ leave' = [leave EXCEPT ![p] = "idle"]
  /\ UNCHANGED <<cache, installed, latest, asked, ver, found>>

-----------------------------------------------------------------------------
(* activate, rollback, set_policy *)

Activate(p) ==
  /\ Acquire(p, "start", "decide")
  /\ UNCHANGED <<policy, checked, pending, applied, installed, latest, asked, local>>

\* The lock is held elsewhere: the application goes on with what it runs.
ActivateRefused(p) ==
  /\ At(p, "start") /\ lock # Nobody
  /\ Goto(p, "idle")
  /\ UNCHANGED <<cache, installed, lock, latest, asked, local>>

\* (mutant) Only a version older than this process counts as obsolete.
ObsoleteOlder(p) == pending < ver[p]

\* What is staged is for a process of this version or an older one.
Obsolete(p) == pending <= ver[p]

\* Nothing is pending, or the staged executable is not the one described.
DecideNothing(p) ==
  /\ At(p, "decide")
  /\ pending = 0 \/ (~Obsolete(p) /\ staged # pending)
  /\ Unlock(p, "idle")
  /\ UNCHANGED <<cache, installed, latest, asked, local>>

DecideObsolete(p) ==
  /\ At(p, "decide") /\ pending # 0 /\ Obsolete(p)
  /\ Goto(p, "unlist")
  /\ UNCHANGED <<cache, installed, lock, latest, asked, local>>

DecideApply(p) ==
  /\ At(p, "decide") /\ pending # 0 /\ ~Obsolete(p) /\ staged = pending
  /\ applied' = pending
  /\ Goto(p, "backup")
  /\ UNCHANGED <<policy, checked, pending, staged, installed, lock, latest, asked, local>>

\* replace: a copy of the target is renamed over the backup, then a copy of
\* the staged executable over the target.
Backup(p) ==
  /\ At(p, "backup")
  /\ backup' = target
  /\ Goto(p, "install")
  /\ UNCHANGED <<cache, target, lock, latest, asked, local>>

Install(p) ==
  /\ At(p, "install")
  /\ target' = staged
  /\ leave' = [leave EXCEPT ![p] = "exec"]
  /\ Goto(p, "unlist")
  /\ UNCHANGED <<cache, backup, lock, latest, asked, ver, found>>

\* clear_pending: pending.json goes first, then pending.bin.
Unlist(p) ==
  /\ At(p, "unlist")
  /\ pending' = 0
  /\ Goto(p, "unbin")
  /\ UNCHANGED <<policy, checked, staged, applied, installed, lock, latest, asked, local>>

Unbin(p) ==
  /\ At(p, "unbin")
  /\ staged' = 0
  /\ Unlock(p, leave[p])
  /\ leave' = [leave EXCEPT ![p] = "idle"]
  /\ UNCHANGED <<policy, checked, pending, applied, installed, latest, asked, ver, found>>

Rollback(p) ==
  /\ \E from \in {"start", "idle"} : Acquire(p, from, "restore")
  /\ UNCHANGED <<policy, checked, pending, applied, installed, latest, asked, local>>

RestoreNothing(p) ==
  /\ At(p, "restore") /\ backup = 0
  /\ Unlock(p, "idle")
  /\ UNCHANGED <<cache, installed, latest, asked, local>>

\* The caller may execute what was restored or go on with what it runs.
Restore(p) ==
  /\ At(p, "restore") /\ backup # 0
  /\ target' = backup
  /\ \E l \in {"idle", "exec"} : leave' = [leave EXCEPT ![p] = l]
  /\ Goto(p, "unlist")
  /\ UNCHANGED <<cache, backup, lock, latest, asked, ver, found>>

\* set_policy.  A policy other than off is one write under the lock.
SetPolicy(p, new) ==
  /\ pc[p] \in {"start", "idle"} /\ lock = Nobody /\ new # "off"
  /\ policy' = new /\ staged' = Swept
  /\ UNCHANGED <<checked, pending, applied, installed, lock, latest, asked, pc, local>>

SetOff(p) ==
  /\ \E from \in {"start", "idle"} : Acquire(p, from, "unlist")
  /\ policy' = "off"
  /\ UNCHANGED <<checked, pending, applied, installed, latest, asked, local>>

-----------------------------------------------------------------------------
(* background_once *)

Poll(p) ==
  /\ policy # "off"
  /\ Acquire(p, "idle", "poll")
  /\ UNCHANGED <<policy, checked, pending, applied, installed, latest, asked, local>>

\* (mutant) The check is recorded only when it is reported.
RecordLater(p) ==
  /\ At(p, "poll")
  /\ IF checked THEN Unlock(p, "idle") ELSE Unlock(p, "ask")
  /\ UNCHANGED <<cache, installed, latest, asked, local>>

\* The check is recorded before it is made, so that the other processes do not
\* make it too.
Record(p) ==
  /\ At(p, "poll")
  /\ IF checked THEN Unlock(p, "idle") ELSE Unlock(p, "ask")
  /\ checked' = TRUE
  /\ UNCHANGED <<policy, pending, staged, applied, installed, latest, asked, local>>

\* check: only a release newer than this process becomes a candidate.
Newer(p) == IF latest > ver[p] THEN latest ELSE 0

Ask(p) ==
  /\ At(p, "ask")
  /\ asked' = asked + 1
  /\ \/ found' = [found EXCEPT ![p] = Newer(p)] /\ Goto(p, "consider")
     \/ found' = found /\ Goto(p, "report")
  /\ UNCHANGED <<cache, installed, lock, latest, ver, leave>>

\* The policy is read again, before stage takes the lock.
Consider(p) ==
  /\ At(p, "consider")
  /\ Goto(p, IF policy = "automatic" /\ found[p] # 0 THEN "stage" ELSE "report")
  /\ UNCHANGED <<cache, installed, lock, latest, asked, local>>

Stage(p) ==
  /\ Acquire(p, "stage", "fetch")
  /\ UNCHANGED <<policy, checked, pending, applied, installed, latest, asked, local>>

StageRefused(p) ==
  /\ At(p, "stage") /\ lock # Nobody
  /\ Goto(p, "report")
  /\ UNCHANGED <<cache, installed, lock, latest, asked, local>>

\* Downloaded, unpacked and run for its version, in temporary files.
Fetch(p) ==
  /\ At(p, "fetch") /\ found[p] > ver[p]
  /\ Goto(p, "unpair")
  /\ UNCHANGED <<cache, installed, lock, latest, asked, local>>

\* (mutant) The old metadata stays until the new one replaces it.
UnpairNothing(p) ==
  /\ At(p, "unpair")
  /\ Goto(p, "persist")
  /\ UNCHANGED <<cache, installed, lock, latest, asked, local>>

\* "A crash must not pair the new executable with an older candidate's
\* metadata": the metadata goes first and comes last.
Unpair(p) ==
  /\ At(p, "unpair")
  /\ pending' = 0
  /\ Goto(p, "persist")
  /\ UNCHANGED <<policy, checked, staged, applied, installed, lock, latest, asked, local>>

Persist(p) ==
  /\ At(p, "persist")
  /\ staged' = found[p]
  /\ Goto(p, "list")
  /\ UNCHANGED <<policy, checked, pending, applied, installed, lock, latest, asked, local>>

List(p) ==
  /\ At(p, "list")
  /\ pending' = found[p]
  /\ Unlock(p, "report")
  /\ UNCHANGED <<policy, checked, staged, applied, installed, latest, asked, local>>

\* The worker writes its copy of the status back, when it gets the lock.
Report(p) ==
  /\ At(p, "report")
  /\ IF lock = Nobody THEN checked' = TRUE /\ staged' = Swept
     ELSE UNCHANGED <<checked, staged>>
  /\ found' = [found EXCEPT ![p] = 0]
  /\ Goto(p, "idle")
  /\ UNCHANGED <<policy, pending, applied, installed, lock, latest, asked, ver, leave>>

-----------------------------------------------------------------------------
(* The world *)

\* A release is published or withdrawn.
Publish(v) ==
  /\ latest' = v
  /\ UNCHANGED <<cache, installed, lock, asked, pc, local>>

\* Six hours pass.  A check in progress takes minutes: its requests time out
\* after 180 s and the version check after 15 s.
Elapse ==
  /\ \A p \in Procs : pc[p] \notin Checking
  /\ checked' = FALSE /\ asked' = 0
  /\ UNCHANGED <<policy, pending, staged, applied, installed, lock, latest, pc, local>>

Process(p) == Launch(p) \/ Exec(p) \/ Stop(p) \/ Fail(p)
Decide(p) == DecideNothing(p) \/ DecideObsolete(p) \/ DecideApply(p)
Startup(p) == Activate(p) \/ ActivateRefused(p) \/ Decide(p) \/ Backup(p) \/ Install(p)
Clear(p) == Unlist(p) \/ Unbin(p)
Command(p) ==
  \/ Rollback(p) \/ RestoreNothing(p) \/ Restore(p)
  \/ SetOff(p) \/ \E new \in Policies : SetPolicy(p, new)
Background(p) ==
  \/ Poll(p) \/ Record(p) \/ Ask(p) \/ Consider(p) \/ Stage(p) \/ StageRefused(p)
  \/ Fetch(p) \/ Unpair(p) \/ Persist(p) \/ List(p) \/ Report(p)

Next ==
  \/ \E p \in Procs : Process(p) \/ Startup(p) \/ Clear(p) \/ Command(p) \/ Background(p)
  \/ \E v \in Maybe : Publish(v)
  \/ Elapse

Spec == Init /\ [][Next]_vars

-----------------------------------------------------------------------------
(* Properties *)

TypeOK ==
  /\ policy \in Policies /\ checked \in BOOLEAN
  /\ pending \in Maybe /\ staged \in Maybe /\ applied \in Maybe
  /\ target \in Versions /\ backup \in Maybe /\ latest \in Maybe
  /\ lock \in Procs \cup {Nobody} /\ asked \in Nat
  /\ ver \in [Procs -> Maybe] /\ pc \in [Procs -> Labels]
  /\ found \in [Procs -> Maybe] /\ leave \in [Procs -> {"idle", "exec"}]

\* Wherever a process stops or fails, pending.json describes the pending.bin
\* beside it (update.rs, stage and clear_pending).
PendingPaired == pending # 0 => staged = pending

\* An activation puts in place the executable its receipt names, and leaves the
\* one it replaces as the backup; the new one is newer when the process runs
\* the one it replaces (update.rs, activate and replace).
InstallsSafely ==
  [][\A p \in Procs :
       At(p, "install") /\ pc'[p] = "unlist" =>
         /\ target' = applied /\ target' # 0
         /\ backup' = target
         /\ ver[p] = target => target' > target]_vars

\* "It polls at most once every six hours across application instances"
\* (update.rs, spawn_background): whoever else runs, stops or fails.
OncePerWindow == asked <= 1

\* "Disabling cannot activate pending bytes" (the test of update.rs): nothing is
\* installed while the policy is off.
OffMeansOff == [][\A p \in Procs : At(p, "install") /\ pc'[p] = "unlist" => policy # "off"]_vars
=============================================================================
