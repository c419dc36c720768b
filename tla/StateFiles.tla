------------------------------ MODULE StateFiles ------------------------------
(***************************************************************************)
(* The state files of the running instances (src/internal/state/manager.go,*)
(* cleanup.go), written by `hydra run` (cli/run.go) and listed by          *)
(* `hydra ps` (cli/ps.go).                                                 *)
(*                                                                         *)
(* The mutex of a Manager guards one process, and every command makes a    *)
(* Manager of its own: between processes only single operations of the     *)
(* file system are atomic.  os.WriteFile is two of them: it opens the file *)
(* and truncates it, then writes.  A file that is removed while an         *)
(* instance has it open takes the write with it.                           *)
(*                                                                         *)
(* A file is abstracted to the instance whose State it holds.  Errors of   *)
(* the file system and the reuse of process ids are left out.              *)
(***************************************************************************)
EXTENDS Integers, FiniteSets

CONSTANTS
    Instances,      \* processes of `hydra run`; each runs once
    Lists,          \* processes of `hydra ps`; each runs once
    NumServers,     \* servers are numbered in the order in which ReadDir lists their files
    ServerOf,       \* ServerOf[i]: the --name of instance i
    Overlapping     \* whether two instances may run under one name at a time

Servers == 1 .. NumServers
NoFile == "none"
Empty == "empty"            \* created or truncated, and not written
Garbled == "garbled"        \* two States over each other
NotAState == {NoFile, Empty, Garbled}

ASSUME StateFilesConstants ==
    /\ NumServers \in Nat
    /\ ServerOf \in [Instances -> Servers]
    /\ Overlapping \in BOOLEAN
    /\ Instances \cap NotAState = {}

VARIABLES
    file,           \* file[s]: what <s>.json holds
    life,           \* the instances, as the operating system sees them
    save,           \* where each instance is in SaveState
    unlinked,       \* instances whose open file has been removed
    at,             \* where each hydra ps is
    todo,           \* entries of the directory that its ListAll has yet to read
    found,          \* the states that its ListAll has read
    present         \* history: the instances alive at some time since it began

runVars == <<life, save, unlinked>>
psVars == <<at, todo, found, present>>
vars == <<file, runVars, psVars>>

Alive(i) == life[i] = "alive"
LiveInstances == {i \in Instances : Alive(i)}
Namesakes(i) == {j \in Instances \ {i} : ServerOf[j] = ServerOf[i]}

Init ==
    /\ file = [s \in Servers |-> NoFile]
    /\ life = [i \in Instances |-> "unborn"]
    /\ save = [i \in Instances |-> "idle"]
    /\ unlinked = {}
    /\ at = [l \in Lists |-> "idle"]
    /\ todo = [l \in Lists |-> {}]
    /\ found = [l \in Lists |-> {}]
    /\ present = [l \in Lists |-> {}]

(***************************************************************************)
(* hydra run                                                               *)
(***************************************************************************)
Start(i) ==
    /\ life[i] = "unborn"
    /\ Overlapping \/ \A j \in Namesakes(i) : ~Alive(j)
    /\ life' = [life EXCEPT ![i] = "alive"]
    /\ present' = [l \in Lists |-> IF at[l] = "idle" THEN {} ELSE present[l] \cup {i}]
    /\ UNCHANGED <<file, save, unlinked, at, todo, found>>

Die(i) ==
    /\ Alive(i)
    /\ life' = [life EXCEPT ![i] = "dead"]
    /\ save' = [save EXCEPT ![i] = "idle"]
    /\ unlinked' = unlinked \ {i}
    /\ UNCHANGED <<file, psVars>>

\* SaveState, of the main goroutine first and of the ticker's ever after.
OpensFile(i) ==
    /\ Alive(i) /\ save[i] = "idle"
    /\ save' = [save EXCEPT ![i] = "opened"]
    /\ file' = [file EXCEPT ![ServerOf[i]] = Empty]
    /\ UNCHANGED <<life, unlinked, psVars>>

OpensNewFile(i) == file[ServerOf[i]] = NoFile /\ OpensFile(i)

SaveOpens(i) == OpensFile(i)

SaveWrites(i) ==
    LET s == ServerOf[i]
    IN  /\ Alive(i) /\ save[i] = "opened"
        /\ save' = [save EXCEPT ![i] = "idle"]
        /\ unlinked' = unlinked \ {i}
        /\ IF i \in unlinked
           THEN UNCHANGED file
           ELSE \E content \in IF file[s] = Empty THEN {i} ELSE {i, Garbled} :
                    file' = [file EXCEPT ![s] = content]
        /\ UNCHANGED <<life, psVars>>

(***************************************************************************)
(* hydra ps: CleanupStale, then ListAll                                    *)
(***************************************************************************)
Entries == {s \in Servers : file[s] # NoFile}
FirstEntry(l) == {s \in todo[l] : \A t \in todo[l] : s <= t}
FirstFound(l) == {i \in found[l] : \A j \in found[l] : ServerOf[i] <= ServerOf[j]}

\* ReadDir of ListAll.
ReadsDir(l, next) ==
    /\ at' = [at EXCEPT ![l] = next]
    /\ todo' = [todo EXCEPT ![l] = Entries]
    /\ found' = [found EXCEPT ![l] = {}]
    /\ UNCHANGED <<file, runVars>>

CleanupBegins(l) ==
    /\ at[l] = "idle"
    /\ ReadsDir(l, "cleanup")
    /\ present' = [present EXCEPT ![l] = LiveInstances]

\* loadStateNoLock: a file that is gone or does not parse is skipped.
ReadsEntry(l) ==
    /\ at[l] \in {"cleanup", "listing"}
    /\ \E s \in FirstEntry(l) :
        /\ todo' = [todo EXCEPT ![l] = @ \ {s}]
        /\ found' = [found EXCEPT ![l] = @ \cup ({file[s]} \ NotAState)]
    /\ UNCHANGED <<file, runVars, at, present>>

AllIsRead(l) ==
    /\ at[l] = "cleanup" /\ todo[l] = {}
    /\ at' = [at EXCEPT ![l] = "checking"]
    /\ UNCHANGED <<file, runVars, todo, found, present>>

\* isProcessAlive of the next state read.
FindsAlive(l) ==
    /\ at[l] = "checking"
    /\ \E i \in FirstFound(l) : Alive(i) /\ found' = [found EXCEPT ![l] = @ \ {i}]
    /\ UNCHANGED <<file, runVars, at, todo, present>>

FindsDead(l) ==
    /\ at[l] = "checking"
    /\ \E i \in FirstFound(l) : ~Alive(i)
    /\ at' = [at EXCEPT ![l] = "deleting"]
    /\ UNCHANGED <<file, runVars, todo, found, present>>

\* DeleteState, by name, whatever the file holds by now.
KeepsFile(l) ==
    /\ at[l] = "deleting"
    /\ at' = [at EXCEPT ![l] = "checking"]
    /\ \E i \in FirstFound(l) : found' = [found EXCEPT ![l] = @ \ {i}]
    /\ UNCHANGED <<file, runVars, todo, present>>

Unlinks(s) ==
    /\ file' = [file EXCEPT ![s] = NoFile]
    /\ unlinked' = unlinked \cup {j \in Instances : ServerOf[j] = s /\ save[j] = "opened"}

Deletes(l) ==
    /\ at[l] = "deleting"
    /\ at' = [at EXCEPT ![l] = "checking"]
    /\ \E i \in FirstFound(l) :
        /\ found' = [found EXCEPT ![l] = @ \ {i}]
        /\ Unlinks(ServerOf[i])
    /\ UNCHANGED <<life, save, todo, present>>

ListBegins(l) ==
    /\ at[l] = "checking" /\ found[l] = {}
    /\ ReadsDir(l, "listing")
    /\ UNCHANGED present

Prints(l) ==
    /\ at[l] = "listing" /\ todo[l] = {}
    /\ at' = [at EXCEPT ![l] = "printed"]
    /\ UNCHANGED <<file, runVars, todo, found, present>>

-------------------------------------------------------------------------------
InstanceStep(i) == Start(i) \/ Die(i) \/ SaveOpens(i) \/ SaveWrites(i)
Cleans(l) ==
    CleanupBegins(l) \/ AllIsRead(l) \/ FindsAlive(l) \/ FindsDead(l) \/ Deletes(l)
ListStep(l) == Cleans(l) \/ ReadsEntry(l) \/ ListBegins(l) \/ Prints(l)

\* Every instance has ended and nobody runs hydra ps any more.
Rest ==
    /\ \A i \in Instances : life[i] = "dead"
    /\ \A l \in Lists : at[l] = "printed"
    /\ UNCHANGED vars

Next ==
    \/ \E i \in Instances : InstanceStep(i)
    \/ \E l \in Lists : ListStep(l)
    \/ Rest

Spec == Init /\ [][Next]_vars

\* The ticker of a live instance keeps firing, and a hydra ps that runs goes on.
Fairness ==
    /\ \A i \in Instances : WF_vars(SaveOpens(i)) /\ WF_vars(SaveWrites(i))
    /\ \A l \in Lists : WF_vars(at[l] # "idle" /\ ListStep(l))

FairSpec == Spec /\ Fairness

-------------------------------------------------------------------------------
\* Every variable has its type; only a live instance is in SaveState, and a file is
\* only ever written by instances of its server (manager.go:36-62).
TypeOK ==
    /\ file \in [Servers -> NotAState \cup Instances]
    /\ life \in [Instances -> {"unborn", "alive", "dead"}]
    /\ save \in [Instances -> {"idle", "opened"}]
    /\ unlinked \subseteq {i \in Instances : save[i] = "opened"}
    /\ at \in [Lists -> {"idle", "cleanup", "checking", "deleting", "listing", "printed"}]
    /\ todo \in [Lists -> SUBSET Servers]
    /\ found \in [Lists -> SUBSET Instances]
    /\ present \in [Lists -> SUBSET Instances]
    /\ \A i \in Instances : save[i] = "opened" => Alive(i)
    /\ \A s \in Servers : file[s] \in Instances => ServerOf[file[s]] = s

\* hydra ps shows no instance that had ended before it began, although instances
\* start, save and end while it cleans up, reads and lists (ps.go:27-50).
NoGhosts == \A l \in Lists : at[l] \in {"listing", "printed"} => found[l] \subseteq present[l]

\* Once hydra ps has cleaned up, no file holds the state of an instance that had
\* ended before, and none ever will again (cleanup.go:11-29).
StaleFilesGo ==
    \A l \in Lists : at[l] \in {"listing", "printed"} =>
        \A s \in Servers : file[s] \in Instances => file[s] \in present[l]

\* A live instance's state gets to its file, and back to it, even when a hydra ps
\* deletes the file under it or between two saves; two instances under one name
\* may spoil each other's (run.go:276-296).
StateIsSaved ==
    \A i \in Instances : Alive(i) ~>
        \/ file[ServerOf[i]] = i \/ ~Alive(i)
        \/ \E j \in Namesakes(i) : Alive(j)

(***************************************************************************)
(* What the comments say and the code does not do                          *)
(***************************************************************************)
\* cleanup.go:9: CleanupStale "removes state files for processes that are no longer
\* running", and no others.
LiveFileStays ==
    [][\A s \in Servers : file[s] \in LiveInstances => file'[s] # NoFile]_vars

\* run.go:298: state files "are cleaned up by hydra ps (CleanupStale)", all of them.
TornFilesAreCleaned ==
    \A l \in Lists : at[l] = "printed" =>
        \A s \in Servers : file[s] \in NotAState \ {NoFile} =>
            \E i \in present[l] : ServerOf[i] = s
===============================================================================
