---------------------------- MODULE IdentityFile ----------------------------
(***************************************************************************)
(* load_or_create_identity: processes that start at the same time on one   *)
(* machine (CLI commands, the desktop's sidecar) read or create the same   *)
(* identity.key.  Files change in single system calls; a process may be    *)
(* killed between any two of them and started again.                       *)
(*                                                                         *)
(* The repository has two copies.  The vendored transport's publishes a    *)
(* new key with link(2), which never replaces; the CLI's writes it with    *)
(* os.replace, which does.  Linking names the processes that run the       *)
(* former.  A key is the process and the attempt that generated it, or     *)
(* Old, the one found on disk.                                             *)
(***************************************************************************)
EXTENDS Naturals, FiniteSets

CONSTANTS
  Procs,      \* processes
  Linking,    \* those that run the transport's copy
  MaxCrashes, \* bound: kills of each process
  Old,        \* the key of an installation that exists already
  None        \* no key

ASSUME IdentityAssumption ==
  /\ Linking \subseteq Procs /\ MaxCrashes \in Nat
  /\ Old # None /\ {Old, None} \cap (Procs \X Nat) = {}

VARIABLES
  file,     \* identity.key: its format and its key
  pc,       \* where each process is in load_or_create_identity
  key,      \* the key it holds in memory
  temps,    \* temporary files, by the process and attempt that made them
  partial,  \* those not completely written
  crashes   \* kills of each process so far

vars == <<file, pc, key, temps, partial, crashes>>

Formats == {"absent", "seed", "pem", "exposed", "torn"}
Places == {"start", "read", "generate", "migrate", "write", "replace", "publish",
           "unlink", "lost", "reread", "done", "failed"}
Mine(p) == <<p, crashes[p]>>

\* First start, or an installation with a raw key, a PEM key of an earlier
\* version, or a key that others may read.
Init ==
  /\ file \in {[format |-> "absent", key |-> None]}
              \cup [format : {"seed", "pem", "exposed"}, key : {Old}]
  /\ pc = [p \in Procs |-> "start"] /\ key = [p \in Procs |-> None]
  /\ temps = {} /\ partial = {} /\ crashes = [p \in Procs |-> 0]

Goto(p, place) == pc' = [pc EXCEPT ![p] = place]

-----------------------------------------------------------------------------
\* exists() and stat(), or the stat() of _read_identity.
Stat(p) ==
  /\ pc[p] = "start"
  /\ Goto(p, CASE file.format = "absent"  -> "generate"
               [] file.format = "exposed" -> "failed"
               [] OTHER                   -> "read")
  /\ UNCHANGED <<file, key, temps, partial, crashes>>

\* read_bytes: a key, or a PEM to migrate.
Read(p) ==
  /\ pc[p] = "read"
  /\ key' = [key EXCEPT ![p] = file.key]
  /\ Goto(p, IF file.format = "pem" THEN "migrate" ELSE "done")
  /\ UNCHANGED <<file, temps, partial, crashes>>

\* A temporary file of its own, for a new key or for the migrated one.
CreateTemp(p) ==
  /\ pc[p] \in {"generate", "migrate"}
  /\ key' = IF pc[p] = "generate" THEN [key EXCEPT ![p] = Mine(p)] ELSE key
  /\ temps' = temps \cup {Mine(p)} /\ partial' = partial \cup {Mine(p)}
  /\ Goto(p, "write")
  /\ UNCHANGED <<file, crashes>>

NextPlace(p) == IF key[p] = Mine(p) THEN "publish" ELSE "replace"

\* Mutant: what was written is not flushed.
WriteUnflushed(p) ==
  /\ pc[p] = "write" /\ Goto(p, NextPlace(p))
  /\ UNCHANGED <<file, key, temps, partial, crashes>>

\* write, flush, fsync.
WriteTemp(p) ==
  /\ pc[p] = "write" /\ Goto(p, NextPlace(p))
  /\ partial' = partial \ {Mine(p)}
  /\ UNCHANGED <<file, key, temps, crashes>>

\* No space: the temporary file is removed and the error raised.
WriteFails(p) ==
  /\ pc[p] = "write" /\ Goto(p, "failed")
  /\ temps' = temps \ {Mine(p)} /\ partial' = partial \ {Mine(p)}
  /\ UNCHANGED <<file, key, crashes>>

Published(p) == [format |-> IF Mine(p) \in partial THEN "torn" ELSE "seed",
                 key |-> key[p]]

\* os.replace of _atomic_write_secret: the temporary file takes the name.
Replaces(p) ==
  /\ file' = Published(p)
  /\ temps' = temps \ {Mine(p)}
  /\ Goto(p, "done")
  /\ UNCHANGED <<key, partial, crashes>>

ReplaceMigrated(p) == pc[p] = "replace" /\ Replaces(p)

\* First creation in the CLI's copy.
PublishByReplacing(p) == pc[p] = "publish" /\ p \notin Linking /\ Replaces(p)

\* Mutant: the destination is not looked at.
LinkOver(p) ==
  /\ pc[p] = "publish" /\ p \in Linking
  /\ file' = Published(p)
  /\ Goto(p, "unlink")
  /\ UNCHANGED <<key, temps, partial, crashes>>

\* os.link of _publish_new_secret.
PublishByLinking(p) ==
  /\ pc[p] = "publish" /\ p \in Linking
  /\ IF file.format = "absent"
     THEN file' = Published(p) /\ Goto(p, "unlink")
     ELSE Goto(p, "lost") /\ UNCHANGED file
  /\ UNCHANGED <<key, temps, partial, crashes>>

\* Mutants: a loser goes on with its key; the temporary file is left.
LoserKeepsKey(p) ==
  /\ pc[p] \in {"unlink", "lost"}
  /\ temps' = temps \ {Mine(p)} /\ Goto(p, "done")
  /\ UNCHANGED <<file, key, partial, crashes>>

LeavesTemp(p) ==
  /\ pc[p] \in {"unlink", "lost"}
  /\ Goto(p, IF pc[p] = "lost" THEN "reread" ELSE "done")
  /\ UNCHANGED <<file, key, temps, partial, crashes>>

\* Its finally clause; a loser then reads the winner.
Unlink(p) ==
  /\ pc[p] \in {"unlink", "lost"}
  /\ temps' = temps \ {Mine(p)}
  /\ Goto(p, IF pc[p] = "lost" THEN "reread" ELSE "done")
  /\ UNCHANGED <<file, key, partial, crashes>>

ReStat(p) ==
  /\ pc[p] = "reread"
  /\ Goto(p, IF file.format = "exposed" THEN "failed" ELSE "read")
  /\ UNCHANGED <<file, key, temps, partial, crashes>>

\* Killed, and started again: what it held in memory is lost.
Crash(p) ==
  /\ pc[p] # "failed" /\ crashes[p] < MaxCrashes
  /\ crashes' = [crashes EXCEPT ![p] = @ + 1]
  /\ key' = [key EXCEPT ![p] = None] /\ Goto(p, "start")
  /\ UNCHANGED <<file, temps, partial>>

Step(p) == Stat(p) \/ Read(p) \/ CreateTemp(p) \/ WriteTemp(p) \/ WriteFails(p)
           \/ ReplaceMigrated(p) \/ PublishByReplacing(p) \/ PublishByLinking(p)
           \/ Unlink(p) \/ ReStat(p)

Next == \E p \in Procs : Step(p) \/ Crash(p)
Spec == Init /\ [][Next]_vars
-----------------------------------------------------------------------------
Keys == (Procs \X (0..MaxCrashes)) \cup {Old, None}

TypeOK ==
  /\ file \in [format : Formats, key : Keys]
  /\ file.format = "absent" <=> file.key = None
  /\ pc \in [Procs -> Places]
  /\ key \in [Procs -> Keys]
  /\ temps \subseteq Procs \X (0..MaxCrashes) /\ partial \subseteq temps
  /\ crashes \in [Procs -> 0..MaxCrashes]

\* "Never return our discarded candidate: both Desktop and CLI must bind Iroh to
\* the persisted winner": the key a process goes on with is the one on disk.
ReturnsPersisted == \A p \in Procs : pc[p] = "done" => key[p] = file.key

\* A process of the CLI's copy has put the key it generated on disk.
Replaced == \E p \in Procs \ Linking : file.key \in {<<p, n>> : n \in 0..MaxCrashes}

\* The same, whatever the transport's processes do, as long as none of the CLI's
\* has put a key of its own there.
WinnerIsReturned == \A p \in Procs : pc[p] = "done" => key[p] = file.key \/ Replaced

\* Whatever was ever published stays the identity of this machine, or a process
\* of the CLI's copy has replaced it by its own.
IdentityIsPermanent ==
  [][file.key # None => file'.key = file.key \/ Replaced']_file

\* "A crash mid-rename leaves either the old file intact or no file at all, never
\* a half-written key".
NeverHalfWritten == file.format # "torn"

\* A process that has finished leaves no temporary file: "assert not
\* tuple(tmp_path.glob('.identity-*'))".  Those of killed attempts stay.
NoTempLeft == \A p \in Procs : pc[p] \in {"start", "done", "failed"} =>
                  Mine(p) \notin temps
=============================================================================
