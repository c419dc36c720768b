------------------------------ MODULE WatchTree ------------------------------
(***************************************************************************)
(* The directories of the watcher (addPathRecursive and shouldIgnore of    *)
(* src/internal/watcher/fswatch_paths.go), under the loop and the timers   *)
(* of Watcher.                                                             *)
(*                                                                         *)
(* The kernel reports changes of the directories that have been added.     *)
(* Start adds a tree, and the loop adds that of a directory whose creation *)
(* is reported, before it goes on with the event as with any other.        *)
(* filepath.Walk reads the names in a directory first and then calls the   *)
(* function that adds it; others make directories meanwhile.               *)
(*                                                                         *)
(* Directories that are removed or moved are left out.                     *)
(***************************************************************************)
EXTENDS Watcher

CONSTANTS
    Top,            \* the one of w.paths
    Dirs,           \* directories under it that may be made; they are paths of events
    DirOf,          \* the directory of each path
    Ignored         \* the paths that the ignore list matches

\* d and the directories above it: what is in every set that has with d, and with each of
\* its directories but Top, the one that this is in.
Upwards(d) ==
    {u \in Dirs \cup {Top} :
        \A S \in SUBSET (Dirs \cup {Top}) :
            d \in S /\ (\A x \in S \ {Top} : DirOf[x] \in S) => u \in S}

\* The directories are those of a tree.
ASSUME TreeConstants ==
    /\ Top \notin Paths /\ Dirs \subseteq Paths /\ Ignored \subseteq Paths
    /\ Dirs \cap Watched = {} /\ IsFiniteSet(Dirs)
    /\ DirOf \in [Paths -> Dirs \cup {Top}]
    /\ \A d \in Dirs : Top \in Upwards(d)

VARIABLES
    present,        \* the directories there are
    added,          \* those that the kernel reports the changes of
    walk,           \* why the watcher walks, if it does: "start", "event", "no"; or "done"
                    \* until the event is taken
    todo,           \* the paths that the walk has still to visit
    names,          \* the names in Head(todo), once they have been read
    late            \* history: made after the names in their directory had been read, and
                    \* before it was added

treeVars == <<present, added, walk, todo, names, late>>
allVars == <<vars, treeVars>>

Unread == <<NoPath>>

TreeInit ==
    /\ Init
    /\ present = {Top} /\ added = {}
    /\ walk = "start" /\ todo = <<Top>> /\ names = Unread
    /\ late = {}

Walking == walk \in {"start", "event"}

(***************************************************************************)
(* The environment                                                         *)
(***************************************************************************)
\* Of a directory that was not added, nothing is reported.
ChangeFile(p) ==
    /\ p \notin Dirs
    /\ DirOf[p] \in added
    /\ Change(p)
    /\ UNCHANGED treeVars

MakeDir(d) ==
    /\ d \notin present /\ DirOf[d] \in present
    /\ present' = present \cup {d}
    /\ IF DirOf[d] \in added
       THEN Change(d) /\ UNCHANGED late
       ELSE /\ late' = IF names # Unread /\ Head(todo) = DirOf[d] THEN late \cup {d} ELSE late
            /\ UNCHANGED vars
    /\ UNCHANGED <<added, walk, todo, names>>

(***************************************************************************)
(* addPathRecursive                                                        *)
(***************************************************************************)
\* Mutated form: only the directory itself is added.
NamesOfNone(d) == {<<>>}

\* The names are in the order of the alphabet, which here is any order.
NamesIn(d) ==
    LET inside == {e \in present \ {Top} : DirOf[e] = d}
    IN  {s \in [1 .. Cardinality(inside) -> inside] : \A e \in inside : \E i \in DOMAIN s : s[i] = e}

WalkReads ==
    /\ Walking /\ todo # <<>> /\ names = Unread
    /\ names' \in NamesIn(Head(todo))
    /\ UNCHANGED <<vars, present, added, walk, todo, late>>

\* A directory that is ignored is skipped with all that is in it.  Once Stop is under way
\* the kernel's side may refuse the directory: the walk goes on.
WalkAdds ==
    /\ Walking /\ todo # <<>> /\ names # Unread
    /\ IF Head(todo) \in Ignored
       THEN todo' = Tail(todo) /\ UNCHANGED added
       ELSE /\ todo' = names \o Tail(todo)
            /\ \/ added' = added \cup {Head(todo)}
               \/ done /\ UNCHANGED added
    /\ names' = Unread
    /\ UNCHANGED <<vars, present, walk, late>>

WalkEnds ==
    /\ Walking /\ todo = <<>>
    /\ walk' = IF walk = "start" THEN "no" ELSE "done"
    /\ UNCHANGED <<vars, present, added, todo, names, late>>

(***************************************************************************)
(* The loop                                                                *)
(***************************************************************************)
Selects == At(Loop, "select") /\ inbox # <<>> /\ walk = "no"

LoopIgnores ==
    /\ Selects
    /\ Head(inbox) \in Ignored
    /\ inbox' = Tail(inbox)
    /\ UNCHANGED <<pending, lastEvent, batchTimer, at, due, holding, armed, chanVars, histVars,
                   now, changes, stale, treeVars>>

LoopWalks ==
    /\ Selects
    /\ Head(inbox) \in Dirs \ Ignored
    /\ walk' = "event" /\ todo' = <<Head(inbox)>>
    /\ UNCHANGED <<vars, present, added, names, late>>

TakesEvent ==
    /\ walk = "done" \/ (Selects /\ Head(inbox) \notin Dirs \cup Ignored)
    /\ FirstOfBatch \/ KeepDebouncing \/ FlushNow
    /\ walk' = "no"
    /\ UNCHANGED <<present, added, todo, names, late>>

TreeLoopStep ==
    \/ WalkReads \/ WalkAdds \/ WalkEnds
    \/ LoopIgnores \/ LoopWalks \/ TakesEvent
    \/ walk = "no" /\ LoopReturns /\ UNCHANGED treeVars

StopsWatcher == walk # "start" /\ Stop /\ UNCHANGED treeVars

TreeNext ==
    \/ \E p \in Paths : ChangeFile(p)
    \/ \E d \in Dirs : MakeDir(d)
    \/ TreeLoopStep
    \/ StopsWatcher
    \/ /\ \/ Tick
          \/ \E t \in Timers : TimerStep(t)
          \/ \E f \in Flushers : FlushStep(f)
          \/ ConsumerStep
       /\ UNCHANGED treeVars
    \/ walk = "no" /\ Rest /\ UNCHANGED treeVars

TreeSpec == TreeInit /\ [][TreeNext]_allVars

\* As in Watcher, and a walk goes on.
FairTreeSpec ==
    /\ TreeSpec
    /\ WF_allVars(Tick /\ UNCHANGED treeVars)
    /\ WF_allVars(TreeLoopStep)
    /\ \A t \in Timers : WF_allVars(TimerStep(t) /\ UNCHANGED treeVars)
    /\ \A f \in Flushers : WF_allVars(FlushStep(f) /\ UNCHANGED treeVars)
    /\ WF_allVars(ConsumerStep /\ UNCHANGED treeVars)

-------------------------------------------------------------------------------
\* Every variable has its type.
TreeTypeOK ==
    /\ TypeOK
    /\ present \subseteq Dirs \cup {Top} /\ added \subseteq present /\ late \subseteq present
    /\ walk \in {"start", "event", "done", "no"}
    /\ todo \in Seq(Dirs \cup {Top})
    /\ names = Unread \/ names \in Seq(Dirs)

Quiet == walk = "no" /\ inbox = <<>> /\ ~done

\* When all events are handled, every directory is watched that is not ignored, nor below
\* one that is, however directories are made in directories while others are being added:
\* unless it, or one above it, was made just between the reading of the names and the
\* adding (fswatch.go:104-113, fswatch_paths.go:28-75).
SeenUnlessLate ==
    Quiet => \A d \in present : d \in added \/ Upwards(d) \cap (late \cup Ignored) # {}

\* fswatch.go:59: "Add paths recursively (including all subdirectories)"; fswatch.go:104:
\* "Handle directory creation - add new directories to watcher".
EveryDirIsWatched ==
    Quiet => \A d \in present : d \in added \/ Upwards(d) \cap Ignored # {}
===============================================================================
