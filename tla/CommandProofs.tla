----------------------------- MODULE CommandProofs -----------------------------
(***************************************************************************)
(* What the commands beside hydra run rely on.                             *)
(*                                                                         *)
(* hydra ps shows no instance that had ended before it began.  hydra run   *)
(* works with its own options, a dry run changes nothing, and uninit finds *)
(* what init backed up.  A merge of what was discovered adds what is       *)
(* missing and takes nothing away.  Percentiles split the requests, the    *)
(* scores follow the events, and a limit that hydra tune lowers is final.  *)
(* All of it for any number of instances, servers, files, events and       *)
(* commands.                                                               *)
(***************************************************************************)
EXTENDS StateFiles, Tuning, CommandLine, SelectionProofs, FiniteSetTheorems

\* File s holds the state of an instance that had ended before l began.
Ghost(l, s) == file[s] \in Instances /\ file[s] \notin present[l]

\* A ghost is still ahead of l's clean-up: not yet read, or read and not yet checked.
\* After the clean-up there is none.
PsInv(l) ==
    /\ at[l] # "idle" => LiveInstances \subseteq present[l]
    /\ at[l] = "cleanup" =>
        \A s \in Servers : Ghost(l, s) => s \in todo[l] \/ file[s] \in found[l]
    /\ at[l] \in {"checking", "deleting"} =>
        \A s \in Servers : Ghost(l, s) => file[s] \in found[l]
    /\ at[l] \in {"listing", "printed"} =>
        /\ \A s \in Servers : ~Ghost(l, s)
        /\ found[l] \subseteq present[l]

CleanInv == TypeOK /\ \A l \in Lists : PsInv(l)

-------------------------------------------------------------------------------
\* Every step keeps the types.
LEMMA TypingStep == TypeOK /\ [Next]_vars => TypeOK'
<1> SUFFICES ASSUME TypeOK, [Next]_vars PROVE TypeOK'
    OBVIOUS
<1> USE StateFilesConstants DEF TypeOK, NotAState, NoFile, Empty, Garbled
<1>1. ASSUME NEW i \in Instances, Start(i) PROVE TypeOK'
    BY <1>1 DEF Start, Alive
<1>2. ASSUME NEW i \in Instances, Die(i) PROVE TypeOK'
    BY <1>2 DEF Die, Alive, psVars
<1>3. ASSUME NEW i \in Instances, SaveOpens(i) PROVE TypeOK'
    BY <1>3 DEF SaveOpens, OpensFile, Alive, psVars
<1>4. ASSUME NEW i \in Instances, SaveWrites(i) PROVE TypeOK'
  <2> DEFINE s == ServerOf[i]
  <2>1. /\ save' = [save EXCEPT ![i] = "idle"] /\ unlinked' = unlinked \ {i}
        /\ UNCHANGED <<life, at, todo, found, present>>
    BY <1>4 DEF SaveWrites, psVars
  <2>2. \/ UNCHANGED file
        \/ file' = [file EXCEPT ![s] = i]
        \/ file' = [file EXCEPT ![s] = Garbled]
    BY <1>4 DEF SaveWrites
  <2>3. /\ file' \in [Servers -> NotAState \cup Instances]
        /\ \A t \in Servers : file'[t] \in Instances => ServerOf[file'[t]] = t
    BY <2>2
  <2> QED
    BY <2>1, <2>3 DEF Alive
<1>5. ASSUME NEW l \in Lists, CleanupBegins(l) \/ ListBegins(l) PROVE TypeOK'
    BY <1>5 DEF CleanupBegins, ListBegins, ReadsDir, Entries, LiveInstances, Alive, runVars
<1>6. ASSUME NEW l \in Lists, ReadsEntry(l) PROVE TypeOK'
  <2>1. PICK s \in FirstEntry(l) :
            /\ todo' = [todo EXCEPT ![l] = @ \ {s}]
            /\ found' = [found EXCEPT ![l] = @ \cup ({file[s]} \ NotAState)]
    BY <1>6 DEF ReadsEntry
  <2>2. s \in Servers
    BY DEF FirstEntry
  <2> QED
    BY <1>6, <2>1, <2>2 DEF ReadsEntry, runVars, Alive
<1>7. ASSUME NEW l \in Lists, AllIsRead(l) \/ FindsDead(l) \/ Prints(l) PROVE TypeOK'
    BY <1>7 DEF AllIsRead, FindsDead, Prints, runVars, Alive
<1>8. ASSUME NEW l \in Lists, FindsAlive(l) PROVE TypeOK'
    BY <1>8 DEF FindsAlive, runVars, Alive
<1>9. ASSUME NEW l \in Lists, Deletes(l) PROVE TypeOK'
    BY <1>9 DEF Deletes, Unlinks, FirstFound, Alive
<1>10. CASE Rest
    BY <1>10 DEF Rest, vars, runVars, psVars, Alive
<1>11. CASE UNCHANGED vars
    BY <1>11 DEF vars, runVars, psVars, Alive
<1> QED
    BY <1>1, <1>2, <1>3, <1>4, <1>5, <1>6, <1>7, <1>8, <1>9, <1>10, <1>11
    DEF Next, InstanceStep, ListStep, Cleans

\* Initially there is no file and nobody cleans up.
LEMMA CleanInvAtInit == Init => CleanInv
    BY StateFilesConstants DEF Init, CleanInv, TypeOK, PsInv, NotAState, NoFile, Alive

\* A step that adds no ghost and takes nothing from m's work keeps m's invariant.
LEMMA OthersKeepPsInv ==
    ASSUME TypeOK, TypeOK', NEW m \in Lists, PsInv(m),
           UNCHANGED <<at[m], todo[m], found[m]>>,
           present[m] \subseteq present'[m],
           at[m] # "idle" => LiveInstances' \subseteq present'[m],
           \A s \in Servers : file'[s] \in Instances =>
                file'[s] = file[s] \/ (at[m] # "idle" => file'[s] \in present'[m])
    PROVE  PsInv(m)'
    BY DEF PsInv, Ghost

\* No step lets a hydra ps find an instance that had ended before it began.
LEMMA CleanInvStep == CleanInv /\ [Next]_vars => CleanInv'
<1> SUFFICES ASSUME CleanInv, [Next]_vars PROVE \A m \in Lists : PsInv(m)'
    BY TypingStep DEF CleanInv
<1> TAKE m \in Lists
<1>0. TypeOK /\ TypeOK' /\ PsInv(m)
    BY TypingStep DEF CleanInv
<1>1. ASSUME NEW i \in Instances, Start(i) PROVE PsInv(m)'
  <2>1. UNCHANGED <<at, todo, found, file>> /\ LiveInstances' \subseteq LiveInstances \cup {i}
    BY <1>1, <1>0 DEF Start, LiveInstances, Alive, TypeOK
  <2>2. present'[m] = IF at[m] = "idle" THEN {} ELSE present[m] \cup {i}
    BY <1>1 DEF Start
  <2> QED
    BY <1>0, <2>1, <2>2 DEF PsInv, Ghost
<1>2. ASSUME NEW i \in Instances, Die(i) PROVE PsInv(m)'
    BY <1>2, <1>0, OthersKeepPsInv DEF Die, psVars, PsInv, LiveInstances, Alive, TypeOK
<1>3. ASSUME NEW i \in Instances, SaveOpens(i) PROVE PsInv(m)'
  <2>1. \A s \in Servers : file'[s] \in Instances => file'[s] = file[s]
    BY <1>3, <1>0, StateFilesConstants DEF SaveOpens, OpensFile, TypeOK, NotAState
  <2> QED
    BY <1>3, <1>0, <2>1, OthersKeepPsInv
    DEF SaveOpens, OpensFile, psVars, PsInv, LiveInstances, Alive
<1>4. ASSUME NEW i \in Instances, SaveWrites(i) PROVE PsInv(m)'
  <2>1. UNCHANGED <<life, at, todo, found, present>> /\ i \in LiveInstances
    BY <1>4 DEF SaveWrites, psVars, LiveInstances
  <2>2. \/ UNCHANGED file
        \/ file' = [file EXCEPT ![ServerOf[i]] = i]
        \/ file' = [file EXCEPT ![ServerOf[i]] = Garbled]
    BY <1>4 DEF SaveWrites
  <2>3. \A s \in Servers : file'[s] \in Instances => file'[s] = file[s] \/ file'[s] = i
    BY <1>0, <2>2, StateFilesConstants DEF TypeOK, NotAState
  <2>4. at[m] # "idle" => i \in present'[m] /\ LiveInstances' \subseteq present'[m]
    BY <1>0, <2>1 DEF PsInv, LiveInstances, Alive
  <2> QED
    BY <1>0, <2>1, <2>3, <2>4, OthersKeepPsInv
<1>5. ASSUME NEW l \in Lists, CleanupBegins(l) PROVE PsInv(m)'
  <2>1. /\ UNCHANGED <<file, life>>
        /\ at' = [at EXCEPT ![l] = "cleanup"] /\ todo' = [todo EXCEPT ![l] = Entries]
        /\ found' = [found EXCEPT ![l] = {}]
        /\ present' = [present EXCEPT ![l] = LiveInstances]
    BY <1>5 DEF CleanupBegins, ReadsDir, runVars
  <2>2. CASE m = l
    BY <1>0, <2>1, <2>2, StateFilesConstants
    DEF PsInv, Ghost, TypeOK, Entries, LiveInstances, Alive, NotAState
  <2>3. CASE m # l
    BY <1>0, <2>1, <2>3 DEF PsInv, Ghost, TypeOK, LiveInstances, Alive
  <2> QED
    BY <2>2, <2>3
<1>6. ASSUME NEW l \in Lists, ReadsEntry(l) PROVE PsInv(m)'
  <2>1. PICK s \in FirstEntry(l) :
            /\ todo' = [todo EXCEPT ![l] = @ \ {s}]
            /\ found' = [found EXCEPT ![l] = @ \cup ({file[s]} \ NotAState)]
    BY <1>6 DEF ReadsEntry
  <2>2. /\ s \in Servers /\ UNCHANGED <<file, life, at, present>>
        /\ at[l] \in {"cleanup", "listing"}
    BY <1>0, <1>6 DEF ReadsEntry, FirstEntry, TypeOK, runVars
  <2>3. CASE m = l
    BY <1>0, <2>1, <2>2, <2>3, StateFilesConstants DEF PsInv, Ghost, TypeOK, LiveInstances, Alive
  <2>4. CASE m # l
    BY <1>0, <2>1, <2>2, <2>4 DEF PsInv, Ghost, TypeOK, LiveInstances, Alive
  <2> QED
    BY <2>3, <2>4
<1>7. ASSUME NEW l \in Lists, AllIsRead(l) \/ FindsDead(l) \/ Prints(l) PROVE PsInv(m)'
    BY <1>0, <1>7
    DEF AllIsRead, FindsDead, Prints, runVars, PsInv, Ghost, TypeOK, LiveInstances, Alive
<1>8. ASSUME NEW l \in Lists, FindsAlive(l) PROVE PsInv(m)'
  <2>1. PICK i \in FirstFound(l) : Alive(i) /\ found' = [found EXCEPT ![l] = @ \ {i}]
    BY <1>8 DEF FindsAlive
  <2>2. UNCHANGED <<file, life, at, todo, present>> /\ at[l] = "checking"
    BY <1>8 DEF FindsAlive, runVars
  <2>3. i \in LiveInstances
    BY <1>0, <2>1 DEF FirstFound, LiveInstances, TypeOK
  <2> QED
    BY <1>0, <2>1, <2>2, <2>3 DEF PsInv, Ghost, TypeOK, LiveInstances, Alive
<1>9. ASSUME NEW l \in Lists, Deletes(l) PROVE PsInv(m)'
  <2>1. PICK i \in FirstFound(l) :
            /\ found' = [found EXCEPT ![l] = @ \ {i}]
            /\ file' = [file EXCEPT ![ServerOf[i]] = NoFile]
    BY <1>9 DEF Deletes, Unlinks
  <2>2. /\ UNCHANGED <<life, todo, present>> /\ at[l] = "deleting"
        /\ at' = [at EXCEPT ![l] = "checking"]
    BY <1>9 DEF Deletes
  <2>3. \A s \in Servers : file'[s] \in Instances => file'[s] = file[s] /\ file[s] # i
    BY <1>0, <2>1, StateFilesConstants DEF TypeOK, NotAState
  <2>4. LiveInstances' = LiveInstances
    BY <2>2 DEF LiveInstances, Alive
  <2>5. CASE m = l
    BY <1>0, <2>1, <2>2, <2>3, <2>4, <2>5 DEF PsInv, Ghost, TypeOK
  <2>6. CASE m # l
    BY <1>0, <2>1, <2>2, <2>3, <2>4, <2>6 DEF PsInv, Ghost, TypeOK
  <2> QED
    BY <2>5, <2>6
<1>10. ASSUME NEW l \in Lists, ListBegins(l) PROVE PsInv(m)'
    BY <1>0, <1>10
    DEF ListBegins, ReadsDir, runVars, PsInv, Ghost, TypeOK, LiveInstances, Alive
<1>11. CASE UNCHANGED vars
    BY <1>0, <1>11 DEF vars, runVars, psVars, PsInv, Ghost, LiveInstances, Alive
<1> QED
    BY <1>1, <1>2, <1>3, <1>4, <1>5, <1>6, <1>7, <1>8, <1>9, <1>10, <1>11
    DEF Next, InstanceStep, ListStep, Cleans, Rest

-------------------------------------------------------------------------------
\* The invariant holds throughout (manager.go:36-145, cleanup.go:11-54).
THEOREM CleanInvariant == Spec => []CleanInv
    BY CleanInvAtInit, CleanInvStep, PTL DEF Spec

\* Every variable has its type, and no file holds another server's state.
THEOREM StateFilesTyping == Spec => []TypeOK
<1>1. CleanInv => TypeOK
    BY DEF CleanInv
<1> QED
    BY <1>1, CleanInvariant, PTL

\* Once hydra ps has cleaned up, no file holds the state of an instance that had
\* ended before it began, whatever instances and other lists do meanwhile.
THEOREM StaleFilesAreGone == Spec => []StaleFilesGo
<1>1. CleanInv => StaleFilesGo
    BY DEF CleanInv, PsInv, StaleFilesGo, Ghost
<1> QED
    BY <1>1, CleanInvariant, PTL

\* hydra ps shows only instances that were alive at some time while it ran.
THEOREM PsShowsNoGhosts == Spec => []NoGhosts
<1>1. CleanInv => NoGhosts
    BY DEF CleanInv, PsInv, NoGhosts
<1> QED
    BY <1>1, CleanInvariant, PTL

(***************************************************************************)
(* The options                                                             *)
(***************************************************************************)
\* Uninit is the last command to bind the options of a client.
UninitBindsLast == LastToBind("client") = "uninit" /\ LastToBind("config") = "uninit"

\* Among the commands that bind a key there is a last one, and viper has its flag.
LEMMA LastToBindDoes ==
    ASSUME NEW key, NEW i \in DOMAIN Subcommands, key \in Binds(Subcommands[i])
    PROVE  key \in Binds(LastToBind(key))
<1> DEFINE n == Len(Subcommands)
           B == {j \in DOMAIN Subcommands : key \in Binds(Subcommands[j])}
           D == {n - j : j \in B}
<1>1. n \in Nat /\ DOMAIN Subcommands = 1 .. n
    BY CommandLineConstants
<1>2. i \in B /\ B \subseteq 1 .. n
    BY <1>1
<1> HIDE DEF B, n
<1>3. D \subseteq Nat /\ D # {}
    BY <1>1, <1>2
<1> HIDE DEF D
<1>4. PICK d \in D : \A e \in D : d <= e
    BY <1>3, LeastElement
<1>5. PICK latest \in B : d = n - latest
    BY <1>4 DEF D
<1>6. ASSUME NEW j \in B PROVE j <= latest
    <2>1. n - latest <= n - j
        BY <1>4, <1>5 DEF D
    <2> QED
        BY <2>1, <1>1, <1>2
<1>7. \E k \in DOMAIN Subcommands :
        /\ key \in Binds(Subcommands[k])
        /\ \A j \in DOMAIN Subcommands : key \in Binds(Subcommands[j]) => j <= k
    BY <1>5, <1>6 DEF B
<1> QED
    BY <1>7 DEF LastToBind

\* With the order of NewRoot it is so.
LEMMA UninitBindsLastInRoot ==
    ASSUME Subcommands = RootOrder
    PROVE  UninitBindsLast
<1>1. Subcommands = <<"run", "init", "uninit", "add", "list", "remove", "edit", "validate",
                      "logs", "status", "export", "tune">>
    BY DEF RootOrder
<1>2. DOMAIN Subcommands = 1 .. 12
    BY <1>1
<1>3. ASSUME NEW key \in {"client", "config"}, NEW i \in 1 .. 12, key \in Binds(Subcommands[i])
      PROVE  i <= 3
    <2>1. i \in 4 .. 12 => Subcommands[i] \in {"add", "list", "remove", "edit", "validate",
                      "logs", "status", "export", "tune"}
        BY <1>1
    <2> QED
        BY <1>3, <2>1 DEF Binds
<1>4. Subcommands[3] = "uninit"
    BY <1>1
<1>5. ASSUME NEW key \in {"client", "config"} PROVE LastToBind(key) = "uninit"
    <2>1. key \in Binds(Subcommands[3])
        BY <1>4 DEF Binds
    <2>2. \A i \in DOMAIN Subcommands :
            /\ key \in Binds(Subcommands[i])
            /\ \A j \in DOMAIN Subcommands : key \in Binds(Subcommands[j]) => j <= i
            => i = 3
        BY <1>2, <1>3, <2>1
    <2>3. \A j \in DOMAIN Subcommands : key \in Binds(Subcommands[j]) => j <= 3
        BY <1>2, <1>3
    <2> QED
        BY <1>2, <1>4, <2>1, <2>2, <2>3 DEF LastToBind
<1> QED
    BY <1>5 DEF UninitBindsLast

\* Only init binds dry-run.
LEMMA InitBindsDryRun == LastToBind("dry-run") = "init"
<1>1. PICK i \in DOMAIN Subcommands : Subcommands[i] = "init"
    BY CommandLineConstants DEF ToSet
<1>2. "dry-run" \in Binds(Subcommands[i])
    BY <1>1 DEF Binds
<1>3. "dry-run" \in Binds(LastToBind("dry-run"))
    BY <1>2, LastToBindDoes
<1> QED
    BY <1>3 DEF Binds

(***************************************************************************)
(* What the commands do                                                    *)
(***************************************************************************)
\* hydra run hears its own options, or their defaults.
LEMMA RunHearsIt ==
    ASSUME NEW typed, NEW key \in DOMAIN typed
    PROVE  RunHears(typed, key) = IF typed[key] = NotTyped THEN Default("run", key) ELSE typed[key]
    BY DEF RunHears, IsSet

\* Every command leaves hydra run with its own options.
LEMMA RunHearsStep == RunHearsItsOptions /\ [CommandNext]_commandVars => RunHearsItsOptions'
<1> SUFFICES ASSUME RunHearsItsOptions, [CommandNext]_commandVars, last'.command = "run"
             PROVE  RunHearsItsOptions'
    BY DEF RunHearsItsOptions
<1>1. ASSUME NEW command, NEW typed, Executes(command, typed)
      PROVE  RunHearsItsOptions'
    <2>1. command = "run" /\ last'.typed = typed
          /\ last'.heard = [key \in DOMAIN typed |-> RunHears(typed, key)]
        BY <1>1 DEF Executes, Hears
    <2> QED
        BY <2>1, RunHearsIt DEF RunHearsItsOptions
<1>2. CASE UNCHANGED last
    BY <1>2 DEF RunHearsItsOptions
<1>3. last' = NoLine => FALSE
    BY DEF NoLine
<1>4. last' = [NoLine EXCEPT !.command = "merge"] => FALSE
    BY DEF NoLine
<1>5. CASE CommandNext
    BY <1>1, <1>3, <1>4, <1>5 DEF CommandNext, EditsFile, InitFails, InitCommand, UninitCommand,
        DiscoverCommand, Merge, ReadsRegistry
<1> QED
    BY <1>2, <1>5 DEF commandVars

\* It hears them whatever the order in which the commands have bound their flags.
THEOREM RunHearsItsOwn == CommandSpec => []RunHearsItsOptions
<1>1. CommandInit => RunHearsItsOptions
    BY DEF CommandInit, NoLine, RunHearsItsOptions
<1> QED
    BY <1>1, RunHearsStep, PTL DEF CommandSpec

\* What init makes of a dry run.
LEMMA DryRunIsHeard ==
    ASSUME NEW typed, "dry-run" \in DOMAIN typed, typed["dry-run"] = "true"
    PROVE  GetString("init", typed, "dry-run") = "true"
    BY InitBindsDryRun DEF GetString, IsSet, NotTyped

\* A dry run changes no file, whatever the order in which the commands have bound
\* their flags: no other command binds dry-run (init.go:32-39, generic.go:48).
THEOREM DryRunIsHarmless == CommandSpec => DryRunChangesNothing
<1>1. ASSUME [CommandNext]_commandVars, last'.command = "init", last'.typed["dry-run"] = "true"
      PROVE  UNCHANGED files \/ UNCHANGED commandVars
    <2>1. ASSUME NEW typed \in InitOptions, InitCommand(typed)
          PROVE  UNCHANGED files
        <3>1. last'.typed = typed
            BY <2>1 DEF InitCommand, Executes
        <3>2. "dry-run" \in DOMAIN typed
            BY <2>1 DEF InitOptions
        <3>3. GetString("init", typed, "dry-run") = "true"
            BY <1>1, <3>1, <3>2, DryRunIsHeard
        <3> QED
            BY <2>1, <3>3 DEF InitCommand, Saves, files
    <2>2. ASSUME NEW command, NEW typed, Executes(command, typed)
          PROVE  command = "init"
        BY <1>1, <2>2 DEF Executes
    <2>3. last' # NoLine /\ last' # [NoLine EXCEPT !.command = "merge"]
        BY <1>1 DEF NoLine
    <2>4. CASE CommandNext
        BY <2>1, <2>2, <2>3, <2>4 DEF CommandNext, EditsFile, InitFails, UninitCommand,
            DiscoverCommand, Merge, ReadsRegistry
    <2> QED
        BY <1>1, <2>4
<1> QED
    BY <1>1, PTL DEF CommandSpec, DryRunChangesNothing

\* Only the file of claude ever has a backup.
OnlyClaudeHasBackup ==
    /\ DOMAIN bak = Paths
    /\ \A p \in Paths : bak[p] # Missing => p = "claude"

\* Without --client and --config, init and uninit are at the same file.
LEMMA OneFile ==
    ASSUME UninitBindsLast, NEW typed
    PROVE  PathsOf(typed) = {"claude"}
<1>1. GetString("init", typed, "client") = "claude" /\ GetString("init", typed, "config") = ""
    BY DEF UninitBindsLast, GetString, IsSet, Default
<1> QED
    BY <1>1 DEF PathsOf, ClientsOf, InitPath

\* No command backs up another file.
LEMMA BackupStep ==
    ASSUME UninitBindsLast, OnlyClaudeHasBackup, [CommandNext]_commandVars
    PROVE  OnlyClaudeHasBackup'
<1>1. ASSUME NEW typed, InitCommand(typed) PROVE OnlyClaudeHasBackup'
    <2>1. UNCHANGED bak \/ \E c : bak' = [bak EXCEPT !["claude"] = c]
        BY <1>1, OneFile DEF InitCommand
    <2> QED
        BY <2>1 DEF OnlyClaudeHasBackup
<1>2. ASSUME NEW typed, UninitCommand(typed) PROVE OnlyClaudeHasBackup'
    BY <1>2 DEF UninitCommand, OnlyClaudeHasBackup
<1>3. CASE UNCHANGED bak
    BY <1>3 DEF OnlyClaudeHasBackup
<1> QED
    BY <1>1, <1>2, <1>3 DEF CommandNext, commandVars, files, EditsFile, InitFails, DiscoverCommand,
        Merge, ReadsRegistry

\* Whatever init has backed up, a plain uninit finds, if uninit is the last to bind
\* the options client and config.
THEOREM UninitFindsBackup ==
    ASSUME UninitBindsLast
    PROVE  CommandSpec => []PlainUninitFindsBackup
<1>1. CommandInit => OnlyClaudeHasBackup
    BY DEF CommandInit, OnlyClaudeHasBackup
<1>2. OnlyClaudeHasBackup /\ [CommandNext]_commandVars => OnlyClaudeHasBackup'
    BY BackupStep
<1>3. UninitPath(GetString("uninit", <<>>, "client"), GetString("uninit", <<>>, "config")) = "claude"
    BY DEF UninitBindsLast, GetString, IsSet, Default, UninitPath
<1>4. OnlyClaudeHasBackup => PlainUninitFindsBackup
    BY <1>3 DEF OnlyClaudeHasBackup, PlainUninitFindsBackup
<1> QED
    BY <1>1, <1>2, <1>4, PTL DEF CommandSpec

\* As it is in the program, with its subcommands in the order of NewRoot (root.go:12-31).
THEOREM UninitFindsBackupInRoot ==
    ASSUME Subcommands = RootOrder
    PROVE  CommandSpec => []PlainUninitFindsBackup
    BY UninitBindsLastInRoot, UninitFindsBackup

(***************************************************************************)
(* The merge                                                               *)
(***************************************************************************)
MergesUpTo(f, n, scan, disk, r) ==
    f = [i \in 0 .. n |->
            IF i = 0 THEN r
            ELSE IF Usable(scan[i], disk) THEN AddsMissing(f[i - 1], disk[scan[i].path])
            ELSE f[i - 1]]

\* There is a function that merges, so that the definition by CHOOSE finds one.
LEMMA MergeExists ==
    ASSUME NEW scan, NEW disk, NEW r, Len(scan) \in Nat
    PROVE  MergesUpTo(MergedUpTo(scan, disk, r), Len(scan), scan, disk, r)
<1> DEFINE T == {n \in Nat : \E f : MergesUpTo(f, n, scan, disk, r)}
<1>1. 0 \in T
    <2>1. MergesUpTo([i \in 0 .. 0 |-> r], 0, scan, disk, r)
        BY DEF MergesUpTo
    <2> QED
        BY <2>1
<1>2. ASSUME NEW n \in T \cap Nat
      PROVE  n + 1 \in T
    <2>1. PICK f : MergesUpTo(f, n, scan, disk, r)
        OBVIOUS
    <2> DEFINE g == [i \in 0 .. n + 1 |->
                        IF i <= n THEN f[i]
                        ELSE IF Usable(scan[i], disk) THEN AddsMissing(f[n], disk[scan[i].path])
                        ELSE f[n]]
    <2>2. ASSUME NEW i \in 0 .. n + 1
          PROVE  g[i] = IF i = 0 THEN r
                        ELSE IF Usable(scan[i], disk) THEN AddsMissing(g[i - 1], disk[scan[i].path])
                        ELSE g[i - 1]
        <3>1. CASE i = 0
            BY <3>1, <2>1 DEF MergesUpTo
        <3>2. CASE i \in 1 .. n
            <4>1. i \in 0 .. n /\ i # 0 /\ i - 1 \in 0 .. n /\ i - 1 \in 0 .. n + 1 /\ i <= n /\ i - 1 <= n
                BY <3>2
            <4>2. f[i] = IF Usable(scan[i], disk) THEN AddsMissing(f[i - 1], disk[scan[i].path])
                         ELSE f[i - 1]
                BY <4>1, <2>1 DEF MergesUpTo
            <4>3. g[i] = f[i] /\ g[i - 1] = f[i - 1]
                BY <4>1
            <4> QED
                BY <4>1, <4>2, <4>3
        <3>3. CASE i = n + 1
            <4>1. i - 1 = n /\ ~ (i <= n) /\ i # 0 /\ n \in 0 .. n + 1
                BY <3>3
            <4>2. g[n] = f[n]
                BY <4>1
            <4> QED
                BY <4>1, <4>2
        <3> QED
            BY <3>1, <3>2, <3>3
    <2>3. MergesUpTo(g, n + 1, scan, disk, r)
        BY <2>2 DEF MergesUpTo
    <2> QED
        BY <2>3
<1>3. Len(scan) \in T
    <2> HIDE DEF T
    <2> QED
        BY <1>1, <1>2, SetInduction
<1>4. \E f : MergesUpTo(f, Len(scan), scan, disk, r)
    BY <1>3
<1> QED
    BY <1>4, Zenon DEF MergedUpTo, MergesUpTo

\* Discovery i offers a server that the registry could take.
Offers(i, s) ==
    Usable(discovered[i], conf) /\ conf[discovered[i].path].entries[s] \notin {"none", "odd"}
Offer(i, s) == Taken(conf[discovered[i].path].entries[s])

\* What is taken is an entry.
LEMMA OfferIsEntry ==
    ASSUME NEW i, NEW s, Offers(i, s)
    PROVE  Offer(i, s) # "none"
    BY DEF Offers, Offer, Taken

\* After the first n discoveries the registry has, of each server, its own entry or that
\* of the first among them that offers one.
MergedSoFar(now, n, s) ==
    /\ registry[s] # "none" => now = registry[s]
    /\ registry[s] = "none" =>
        \/ now = "none" /\ \A i \in 1 .. n : ~Offers(i, s)
        \/ \E i \in 1 .. n : Offers(i, s) /\ now = Offer(i, s) /\ \A j \in 1 .. n : Offers(j, s) => i <= j

\* One more discovery.
LEMMA MergedStep ==
    ASSUME NEW now, NEW then, NEW n \in Nat, NEW s, MergedSoFar(now, n, s),
           then = IF now # "none" \/ ~Offers(n + 1, s) THEN now ELSE Offer(n + 1, s)
    PROVE  MergedSoFar(then, n + 1, s)
<1>1. CASE registry[s] # "none"
    BY <1>1 DEF MergedSoFar
<1>2. CASE registry[s] = "none" /\ now = "none" /\ \A i \in 1 .. n : ~Offers(i, s)
    <2>1. \A i \in 1 .. n + 1 : Offers(i, s) => i = n + 1
        BY <1>2
    <2>2. n + 1 \in 1 .. n + 1
        OBVIOUS
    <2> QED
        BY <1>2, <2>1, <2>2 DEF MergedSoFar
<1>3. CASE /\ registry[s] = "none"
           /\ \E i \in 1 .. n : Offers(i, s) /\ now = Offer(i, s) /\ \A j \in 1 .. n : Offers(j, s) => i <= j
    <2>1. PICK i \in 1 .. n : Offers(i, s) /\ now = Offer(i, s) /\ \A j \in 1 .. n : Offers(j, s) => i <= j
        BY <1>3
    <2>2. then = now
        BY <2>1, OfferIsEntry
    <2>3. i \in 1 .. n + 1 /\ \A j \in 1 .. n + 1 : Offers(j, s) => i <= j
        BY <2>1
    <2> QED
        BY <1>3, <2>1, <2>2, <2>3 DEF MergedSoFar
<1> QED
    BY <1>1, <1>2, <1>3 DEF MergedSoFar

\* What the whole merge makes of the registry.
LEMMA MergeIsFirst ==
    ASSUME Len(discovered) \in Nat, NEW s \in ServerNames
    PROVE  MergedSoFar(MergeIntoRegistry(discovered, conf, registry)[s], Len(discovered), s)
<1> DEFINE f == MergedUpTo(discovered, conf, registry)
           n == Len(discovered)
           T == {i \in Nat : i <= n => MergedSoFar(f[i][s], i, s)}
<1>1. MergesUpTo(f, n, discovered, conf, registry)
    BY MergeExists
<1> HIDE DEF f
<1>2. 0 \in T
    <2>1. f[0] = registry
        BY <1>1 DEF MergesUpTo
    <2> QED
        BY <2>1 DEF MergedSoFar
<1>3. ASSUME NEW i \in T \cap Nat
      PROVE  i + 1 \in T
    <2> SUFFICES ASSUME i + 1 <= n PROVE MergedSoFar(f[i + 1][s], i + 1, s)
        OBVIOUS
    <2>1. i + 1 \in 0 .. n /\ i + 1 # 0 /\ (i + 1) - 1 = i
        OBVIOUS
    <2>2. f[i + 1] = IF Usable(discovered[i + 1], conf)
                     THEN AddsMissing(f[i], conf[discovered[i + 1].path]) ELSE f[i]
        BY <1>1, <2>1 DEF MergesUpTo
    <2>3. f[i + 1][s] = IF f[i][s] # "none" \/ ~Offers(i + 1, s) THEN f[i][s] ELSE Offer(i + 1, s)
        BY <2>2 DEF AddsMissing, Offers, Offer
    <2> QED
        BY <2>3, MergedStep
<1>4. n \in T
    <2> HIDE DEF T
    <2> QED
        BY <1>2, <1>3, SetInduction
<1> QED
    BY <1>4 DEF MergeIntoRegistry, f

\* What a scan has found, or nothing yet, is a sequence.
ScanIsSequence == Len(discovered) \in Nat /\ DOMAIN discovered = 1 .. Len(discovered)

\* A sequence of six.
LEMMA SixNames ==
    ASSUME NEW S, NEW a \in S, NEW b \in S, NEW c \in S, NEW d \in S, NEW e \in S, NEW f \in S
    PROVE  <<a, b, c, d, e, f>> \in Seq(S)
    OBVIOUS

\* The clients by name are those that are known.
LEMMA NamesAreKnown == ByName \in Seq(ToSet(KnownClients))
<1> DEFINE S == ToSet(KnownClients)
<1>1. /\ "claude" \in S /\ "claude-cli" \in S /\ "cline" \in S
      /\ "continue" \in S /\ "cursor" \in S /\ "cursor-composer" \in S
    BY DEF ToSet, KnownClients
<1> HIDE DEF S
<1>2. ByName \in Seq(S)
    BY <1>1, SixNames DEF ByName
<1> QED
    BY <1>2 DEF S

\* What is left of the discoveries is one for each client.
LEMMA ResolvedIsSequence ==
    ASSUME NEW scan
    PROVE  /\ Len(ResolveConflicts(scan)) \in Nat
           /\ DOMAIN ResolveConflicts(scan) = 1 .. Len(ResolveConflicts(scan))
<1> DEFINE c == Selected(ByName, {scan[i].client : i \in DOMAIN scan})
           r == ResolveConflicts(scan)
<1>1. ByName \in Seq(ToSet(KnownClients))
    BY NamesAreKnown
<1>2. c \in Seq(ToSet(KnownClients) \cap {scan[i].client : i \in DOMAIN scan})
    BY <1>1, SelectedType
<1>3. Len(c) \in Nat /\ DOMAIN c = 1 .. Len(c)
    BY <1>2
<1>4. r = [i \in DOMAIN c |-> Best(scan, c[i])]
    BY DEF ResolveConflicts
<1> HIDE DEF c, r
<1>5. r \in Seq({Best(scan, c[i]) : i \in DOMAIN c})
    BY <1>3, <1>4
<1> QED
    BY <1>5 DEF r

\* Every command keeps the results of the scan a sequence.
LEMMA ScanStep == ScanIsSequence /\ [CommandNext]_commandVars => ScanIsSequence'
<1> SUFFICES ASSUME ScanIsSequence, [CommandNext]_commandVars PROVE ScanIsSequence'
    OBVIOUS
<1>1. CASE DiscoverCommand
    BY <1>1, ResolvedIsSequence DEF DiscoverCommand, ScanIsSequence
<1>2. CASE UNCHANGED discovered
    BY <1>2 DEF ScanIsSequence
<1> QED
    BY <1>1, <1>2 DEF CommandNext, commandVars, EditsFile, InitFails, InitCommand, UninitCommand,
        Merge, ReadsRegistry

\* The first client that offers a server is the one that FirstWith chooses.
LEMMA FirstIsChosen ==
    ASSUME ScanIsSequence, NEW s, NEW now, MergedSoFar(now, Len(discovered), s)
    PROVE  now = IF registry[s] # "none" THEN registry[s] ELSE FirstWith(s)
<1> DEFINE n == Len(discovered)
           H == {i \in DOMAIN discovered : Offers(i, s)}
<1>1. FirstWith(s) = IF H = {} THEN "none" ELSE Offer(CHOOSE i \in H : \A j \in H : i <= j, s)
    BY DEF FirstWith, Offers, Offer
<1>2. \A i : i \in H <=> i \in 1 .. n /\ Offers(i, s)
    BY DEF ScanIsSequence
<1> HIDE DEF H
<1>3. ASSUME NEW i \in H, \A j \in H : i <= j
      PROVE  i = CHOOSE k \in H : \A j \in H : k <= j
    <2>1. \A k \in H : (\A j \in H : k <= j) => k = i
        BY <1>2, <1>3
    <2> QED
        BY <1>3, <2>1
<1>4. CASE registry[s] = "none"
    <2>1. CASE now = "none" /\ \A i \in 1 .. n : ~Offers(i, s)
        BY <1>1, <1>2, <1>4, <2>1
    <2>2. CASE \E i \in 1 .. n : Offers(i, s) /\ now = Offer(i, s) /\ \A j \in 1 .. n : Offers(j, s) => i <= j
        BY <1>1, <1>2, <1>3, <1>4, <2>2
    <2> QED
        BY <1>4, <2>1, <2>2 DEF MergedSoFar
<1> QED
    BY <1>4 DEF MergedSoFar

\* A merge takes what is missing from the first client that has it, and nothing else,
\* for any scan and any files (merger.go:51-150).
THEOREM MergeTakesTheFirst == CommandSpec => MergeAddsWhatIsMissing
<1>1. CommandInit => ScanIsSequence
    BY DEF CommandInit, ScanIsSequence
<1>2. ASSUME ScanIsSequence, [CommandNext]_commandVars, last'.command = "merge"
      PROVE  \/ UNCHANGED commandVars
             \/ \A s \in ServerNames :
                    registry'[s] = IF registry[s] # "none" THEN registry[s] ELSE FirstWith(s)
    <2>1. ASSUME Merge, NEW s \in ServerNames
          PROVE  registry'[s] = IF registry[s] # "none" THEN registry[s] ELSE FirstWith(s)
        <3>1. registry'[s] = MergeIntoRegistry(discovered, conf, registry)[s]
            BY <2>1 DEF Merge
        <3>2. MergedSoFar(registry'[s], Len(discovered), s)
            BY <1>2, <3>1, MergeIsFirst DEF ScanIsSequence
        <3> QED
            BY <1>2, <3>2, FirstIsChosen
    <2>2. ASSUME NEW command, NEW typed, Executes(command, typed)
          PROVE  command = "merge"
        BY <1>2, <2>2 DEF Executes
    <2>3. last' # NoLine
        BY <1>2 DEF NoLine
    <2>4. CASE CommandNext
        BY <2>1, <2>2, <2>3, <2>4 DEF CommandNext, EditsFile, InitFails, InitCommand, UninitCommand,
            DiscoverCommand, ReadsRegistry
    <2> QED
        BY <1>2, <2>4
<1> QED
    BY <1>1, <1>2, ScanStep, PTL DEF CommandSpec, MergeAddsWhatIsMissing

(***************************************************************************)
(* Arithmetic                                                              *)
(***************************************************************************)
\* What a quotient is.
LEMMA Quotient ==
    ASSUME NEW a \in Int, NEW c \in Nat \ {0}
    PROVE  /\ a \div c \in Int
           /\ (a \div c) * c <= a
           /\ a < (a \div c) * c + c
    BY Z3

\* A product of a number that is not negative.
LEMMA ProductMonotone ==
    ASSUME NEW a \in Int, NEW b \in Int, NEW c \in Nat, a <= b
    PROVE  a * c <= b * c
    BY Z3

\* And it cancels.
LEMMA ProductCancels ==
    ASSUME NEW a \in Int, NEW b \in Int, NEW c \in Nat \ {0}, a * c <= b * c
    PROVE  a <= b
    BY Z3

\* A number whose product is no more than another is no more than its quotient.
LEMMA BelowQuotient ==
    ASSUME NEW q \in Int, NEW b \in Int, NEW d \in Nat \ {0}, q * d <= b
    PROVE  q <= b \div d
<1> DEFINE p == b \div d
<1>1. p \in Int /\ b < p * d + d
    BY Quotient
<1> HIDE DEF p
<1>2. p * d + d = (p + 1) * d
    BY <1>1, Z3
<1>3. q * d <= (p + 1) * d
    BY <1>1, <1>2, Z3
<1>4. q <= p + 1
    BY <1>1, <1>3, ProductCancels
<1>5. q # p + 1
    BY <1>1, <1>2
<1>6. q <= p
    BY <1>1, <1>4, <1>5
<1> QED
    BY <1>6 DEF p

\* The larger fraction has the larger quotient.
LEMMA QuotientMonotone ==
    ASSUME NEW a \in Int, NEW b \in Int, NEW c \in Nat \ {0}, NEW d \in Nat \ {0},
           a * d <= b * c
    PROVE  a \div c <= b \div d
<1> DEFINE q == a \div c
<1>1. q \in Int /\ q * c <= a
    BY Quotient
<1> HIDE DEF q
<1>2. q * c \in Int /\ q * d \in Int
    BY <1>1
<1>3. (q * c) * d <= a * d
    BY <1>1, <1>2, ProductMonotone
<1>4. (q * c) * d = (q * d) * c
    BY <1>1, Z3
<1>5. (q * d) * c <= b * c
    BY <1>2, <1>3, <1>4, Z3
<1>6. q * d <= b
    BY <1>2, <1>5, ProductCancels
<1>7. q <= b \div d
    BY <1>1, <1>6, BelowQuotient
<1> QED
    BY <1>7 DEF q

\* A score is within its range.
LEMMA ClampInRange ==
    ASSUME NEW a \in Int
    PROVE  clamp(a) \in 0 .. 100
    BY DEF clamp

\* The higher the larger what is clamped.
LEMMA ClampMonotone ==
    ASSUME NEW a \in Int, NEW b \in Int, a <= b
    PROVE  clamp(a) <= clamp(b)
    BY DEF clamp

\* One hundred less a quotient, as most scores are.
LEMMA ScoreFalls ==
    ASSUME NEW a \in Int, NEW b \in Int, NEW c \in Nat \ {0}, NEW d \in Nat \ {0},
           a * d <= b * c
    PROVE  clamp(100 - b \div d) <= clamp(100 - a \div c)
<1> DEFINE p == a \div c
           q == b \div d
<1>1. p \in Int /\ q \in Int /\ p <= q
    BY Quotient, QuotientMonotone
<1> HIDE DEF p, q
<1>2. 100 - q \in Int /\ 100 - p \in Int /\ 100 - q <= 100 - p
    BY <1>1
<1>3. clamp(100 - q) <= clamp(100 - p)
    BY <1>2, ClampMonotone
<1> QED
    BY <1>3 DEF p, q

(***************************************************************************)
(* Sums                                                                    *)
(***************************************************************************)
Sums(f, n, s) == f = [i \in 0 .. n |-> IF i = 0 THEN 0 ELSE f[i - 1] + s[i]]

\* There is a function that sums, so that the definition by CHOOSE finds one.
LEMMA SumExists ==
    ASSUME NEW s, Len(s) \in Nat
    PROVE  Sums(totalUpTo(s), Len(s), s)
<1> DEFINE T == {n \in Nat : \E f : Sums(f, n, s)}
<1>1. 0 \in T
    <2>1. Sums([i \in 0 .. 0 |-> 0], 0, s)
        BY DEF Sums
    <2> QED
        BY <2>1
<1>2. ASSUME NEW n \in T \cap Nat
      PROVE  n + 1 \in T
    <2>1. PICK f : Sums(f, n, s)
        OBVIOUS
    <2> DEFINE g == [i \in 0 .. n + 1 |-> IF i <= n THEN f[i] ELSE f[n] + s[i]]
    <2>2. ASSUME NEW i \in 0 .. n + 1
          PROVE  g[i] = IF i = 0 THEN 0 ELSE g[i - 1] + s[i]
        <3>1. CASE i = 0
            BY <3>1, <2>1 DEF Sums
        <3>2. CASE i \in 1 .. n
            <4>1. i \in 0 .. n /\ i # 0 /\ i - 1 \in 0 .. n /\ i - 1 \in 0 .. n + 1 /\ i <= n /\ i - 1 <= n
                BY <3>2
            <4>2. f[i] = f[i - 1] + s[i]
                BY <4>1, <2>1 DEF Sums
            <4>3. g[i] = f[i] /\ g[i - 1] = f[i - 1]
                BY <4>1
            <4> QED
                BY <4>1, <4>2, <4>3
        <3>3. CASE i = n + 1
            <4>1. i - 1 = n /\ ~ (i <= n) /\ i # 0 /\ n \in 0 .. n + 1
                BY <3>3
            <4>2. g[n] = f[n]
                BY <4>1
            <4> QED
                BY <4>1, <4>2
        <3> QED
            BY <3>1, <3>2, <3>3
    <2>3. Sums(g, n + 1, s)
        BY <2>2 DEF Sums
    <2> QED
        BY <2>3
<1>3. Len(s) \in T
    <2> HIDE DEF T
    <2> QED
        BY <1>1, <1>2, SetInduction
<1>4. \E f : Sums(f, Len(s), s)
    BY <1>3
<1> QED
    BY <1>4, Zenon DEF totalUpTo, Sums

\* The sum of nothing.
LEMMA TotalOfNone == total(<<>>) = 0
<1>1. Len(<<>>) = 0 /\ 0 \in Nat
    OBVIOUS
<1>2. Sums(totalUpTo(<<>>), Len(<<>>), <<>>)
    BY <1>1, SumExists
<1> QED
    BY <1>1, <1>2 DEF Sums, total

\* The sum with one element more.
LEMMA TotalAppend ==
    ASSUME NEW S, NEW s \in Seq(S), NEW x \in S
    PROVE  total(Append(s, x)) = total(s) + x
<1> DEFINE t == Append(s, x)
           f == totalUpTo(s)
           g == totalUpTo(t)
           T == {n \in Nat : n <= Len(s) => f[n] = g[n]}
<1>1. /\ Len(s) \in Nat /\ Len(t) = Len(s) + 1 /\ t[Len(t)] = x
      /\ \A i \in 1 .. Len(s) : t[i] = s[i]
    OBVIOUS
<1> HIDE DEF t
<1>2. Sums(f, Len(s), s) /\ Sums(g, Len(t), t)
    <2>1. Len(s) \in Nat /\ Len(t) \in Nat
        BY <1>1
    <2>2. Sums(f, Len(s), s)
        BY <2>1, SumExists
    <2>3. Sums(g, Len(t), t)
        BY <2>1, SumExists
    <2> QED
        BY <2>2, <2>3
<1> HIDE DEF f, g
<1>3. 0 \in T
    <2>1. 0 \in 0 .. Len(s) /\ 0 \in 0 .. Len(t)
        BY <1>1
    <2>2. f[0] = 0
        BY <1>2, <2>1 DEF Sums
    <2>3. g[0] = 0
        BY <1>2, <2>1 DEF Sums
    <2> QED
        BY <2>2, <2>3
<1>4. ASSUME NEW n \in T \cap Nat
      PROVE  n + 1 \in T
    <2> SUFFICES ASSUME n + 1 <= Len(s)
                 PROVE  f[n + 1] = g[n + 1]
        OBVIOUS
    <2>1. n + 1 \in 0 .. Len(s) /\ n + 1 \in 0 .. Len(t) /\ (n + 1) - 1 = n /\ n + 1 # 0
        BY <1>1
    <2>2. f[n] = g[n] /\ s[n + 1] = t[n + 1]
        BY <1>1, <2>1
    <2>3. f[n + 1] = f[n] + s[n + 1]
        BY <1>2, <2>1 DEF Sums
    <2>4. g[n + 1] = g[n] + t[n + 1]
        BY <1>2, <2>1 DEF Sums
    <2> QED
        BY <2>2, <2>3, <2>4
<1>5. Len(s) \in T
    <2> HIDE DEF T
    <2> QED
        BY <1>1, <1>3, <1>4, SetInduction
<1>6. g[Len(t)] = g[Len(s)] + x
    <2>1. Len(t) \in 0 .. Len(t) /\ Len(t) - 1 = Len(s) /\ Len(t) # 0
        BY <1>1
    <2> QED
        BY <1>1, <1>2, <2>1 DEF Sums
<1> QED
    BY <1>5, <1>6 DEF total, f, g, t

\* A sum of numbers is one.
LEMMA TotalType ==
    ASSUME NEW s \in Seq(Nat)
    PROVE  total(s) \in Nat
<1> DEFINE T == {t \in Seq(Nat) : total(t) \in Nat}
<1>1. <<>> \in T
    BY TotalOfNone
<1>2. ASSUME NEW t \in T \cap Seq(Nat), NEW x \in Nat PROVE Append(t, x) \in T
    <2>1. total(Append(t, x)) = total(t) + x
        BY TotalAppend
    <2> QED
        BY <2>1
<1> HIDE DEF T
<1>3. s \in T
    BY <1>1, <1>2, SequenceInduction
<1> QED
    BY <1>3 DEF T

\* No element is more than x: the sum is no more than as many times x.
LEMMA TotalBound ==
    ASSUME NEW s \in Seq(Nat), NEW x \in Nat, \A i \in DOMAIN s : s[i] <= x
    PROVE  total(s) <= x * Len(s)
<1> DEFINE T == {t \in Seq(Nat) : (\A i \in DOMAIN t : t[i] <= x) => total(t) <= x * Len(t)}
<1>1. <<>> \in T
    BY TotalOfNone
<1>2. ASSUME NEW t \in T \cap Seq(Nat), NEW y \in Nat PROVE Append(t, y) \in T
    <2>1. Append(t, y) \in Seq(Nat)
        OBVIOUS
    <2> SUFFICES ASSUME \A i \in DOMAIN Append(t, y) : Append(t, y)[i] <= x
                 PROVE  total(Append(t, y)) <= x * Len(Append(t, y))
        BY <2>1
    <2>2. /\ Len(t) \in Nat /\ Len(Append(t, y)) = Len(t) + 1 /\ DOMAIN t = 1 .. Len(t)
          /\ DOMAIN Append(t, y) = 1 .. Len(t) + 1
          /\ \A i \in 1 .. Len(t) : Append(t, y)[i] = t[i]
          /\ Append(t, y)[Len(t) + 1] = y
        OBVIOUS
    <2>3. y <= x /\ \A i \in DOMAIN t : t[i] <= x
        BY <2>2
    <2>4. total(t) <= x * Len(t) /\ total(t) \in Nat
        BY <2>3, TotalType
    <2>5. total(Append(t, y)) = total(t) + y
        BY TotalAppend
    <2>6. x * (Len(t) + 1) = x * Len(t) + x /\ x * Len(t) \in Int
        BY <2>2, Z3
    <2> QED
        BY <2>2, <2>3, <2>4, <2>5, <2>6
<1> HIDE DEF T
<1>3. s \in T
    BY <1>1, <1>2, SequenceInduction
<1> QED
    BY <1>3 DEF T

(***************************************************************************)
(* Sorted sequences                                                        *)
(***************************************************************************)
NoGreater(s, x) == {i \in DOMAIN s : s[i] <= x}
AtLeast(s, k) == {x \in Range(s) : Cardinality(NoGreater(s, x)) >= k}

\* The sets of places in a sequence are finite.
LEMMA Places ==
    ASSUME NEW S, NEW s \in Seq(S)
    PROVE  /\ Len(s) \in Nat /\ DOMAIN s = 1 .. Len(s)
           /\ IsFiniteSet(DOMAIN s) /\ Cardinality(DOMAIN s) = Len(s)
           /\ \A P \in SUBSET DOMAIN s : IsFiniteSet(P) /\ Cardinality(P) \in Nat
<1>1. Len(s) \in Nat /\ DOMAIN s = 1 .. Len(s)
    OBVIOUS
<1>2. 1 \in Int /\ Len(s) \in Int
    BY <1>1
<1>3. IsFiniteSet(1 .. Len(s)) /\ Cardinality(1 .. Len(s)) = IF 1 > Len(s) THEN 0 ELSE Len(s) - 1 + 1
    BY <1>2, FS_Interval
<1>4. IsFiniteSet(DOMAIN s) /\ Cardinality(DOMAIN s) = Len(s)
    BY <1>1, <1>3
<1>5. ASSUME NEW P \in SUBSET DOMAIN s PROVE IsFiniteSet(P) /\ Cardinality(P) \in Nat
    BY <1>4, FS_Subset, FS_CardinalityType
<1> QED
    BY <1>1, <1>4, <1>5

\* There are no more places in a set of them than in a larger one.
LEMMA FewerPlaces ==
    ASSUME NEW S, NEW s \in Seq(S), NEW P \in SUBSET DOMAIN s, NEW Q \in SUBSET P
    PROVE  Cardinality(Q) <= Cardinality(P)
<1>1. IsFiniteSet(P)
    BY Places
<1> QED
    BY <1>1, FS_Subset

\* Some number is greater than all of a sequence.
LEMMA Exceeded ==
    ASSUME NEW s \in Seq(Nat)
    PROVE  \E b \in Nat : \A i \in DOMAIN s : s[i] < b
<1> DEFINE T == {t \in Seq(Nat) : \E b \in Nat : \A i \in DOMAIN t : t[i] < b}
<1>1. <<>> \in T
    <2>1. <<>> \in Seq(Nat) /\ DOMAIN <<>> = {} /\ 0 \in Nat
        OBVIOUS
    <2> QED
        BY <2>1
<1>2. ASSUME NEW t \in T \cap Seq(Nat), NEW y \in Nat PROVE Append(t, y) \in T
    <2>1. PICK b \in Nat : \A i \in DOMAIN t : t[i] < b
        OBVIOUS
    <2>2. /\ Append(t, y) \in Seq(Nat)
          /\ \A i \in DOMAIN Append(t, y) : Append(t, y)[i] = y \/ (i \in DOMAIN t /\ Append(t, y)[i] = t[i])
        OBVIOUS
    <2>3. \A i \in DOMAIN Append(t, y) : Append(t, y)[i] < b + y + 1
        <3> SUFFICES ASSUME NEW i \in DOMAIN Append(t, y) PROVE Append(t, y)[i] < b + y + 1
            OBVIOUS
        <3>1. CASE Append(t, y)[i] = y
            BY <3>1
        <3>2. CASE i \in DOMAIN t /\ Append(t, y)[i] = t[i]
            <4>1. t[i] < b /\ t[i] \in Nat
                BY <2>1, <3>2
            <4> QED
                BY <3>2, <4>1
        <3> QED
            BY <2>2, <3>1, <3>2
    <2>4. b + y + 1 \in Nat
        OBVIOUS
    <2> QED
        BY <2>2, <2>3, <2>4
<1> HIDE DEF T
<1>3. s \in T
    BY <1>1, <1>2, SequenceInduction
<1> QED
    BY <1>3 DEF T

\* Of the elements below a bound, if there are any, one is the greatest.
LEMMA GreatestBelow ==
    ASSUME NEW s \in Seq(Nat), NEW b \in Nat, NEW j \in DOMAIN s, s[j] < b
    PROVE  \E i \in DOMAIN s : s[i] < b /\ \A k \in DOMAIN s : s[k] < b => s[k] <= s[i]
<1> DEFINE D == {b - s[k] : k \in {k \in DOMAIN s : s[k] < b}}
<1>0. \A k \in DOMAIN s : s[k] \in Nat
    OBVIOUS
<1>1. D \subseteq Nat /\ D # {}
    BY <1>0
<1> HIDE DEF D
<1>2. PICK d \in D : \A e \in D : d <= e
    BY <1>1, LeastElement
<1>3. PICK i \in DOMAIN s : s[i] < b /\ d = b - s[i]
    BY <1>2 DEF D
<1>4. ASSUME NEW k \in DOMAIN s, s[k] < b PROVE s[k] <= s[i]
    <2>1. b - s[i] <= b - s[k]
        BY <1>2, <1>3, <1>4 DEF D
    <2> QED
        BY <1>0, <2>1
<1> QED
    BY <1>3, <1>4

\* The k-th element of the sorted sequence is the least with k that are no greater.
LEMMA SortedElement ==
    ASSUME NEW s \in Seq(Nat), NEW k \in 1 .. Len(s)
    PROVE  /\ sorted(s)[k] \in Nat
           /\ sorted(s)[k] \in AtLeast(s, k)
           /\ \A x \in AtLeast(s, k) : sorted(s)[k] <= x
<1>1. Len(s) \in Nat /\ DOMAIN s = 1 .. Len(s) /\ Cardinality(DOMAIN s) = Len(s)
    BY Places
<1>2. PICK b \in Nat : \A i \in DOMAIN s : s[i] < b
    BY Exceeded
<1>3. PICK i \in DOMAIN s : \A j \in DOMAIN s : s[j] <= s[i]
    <2>1. k \in DOMAIN s /\ s[k] < b
        BY <1>1, <1>2
    <2> QED
        BY <1>2, <2>1, GreatestBelow
<1>4. NoGreater(s, s[i]) = DOMAIN s
    BY <1>3 DEF NoGreater
<1>5. s[i] \in AtLeast(s, k)
    BY <1>1, <1>4 DEF AtLeast, Range
<1>6. AtLeast(s, k) \subseteq Nat
    BY DEF AtLeast, Range
<1>7. PICK x \in AtLeast(s, k) : \A y \in AtLeast(s, k) : x <= y
    BY <1>5, <1>6, LeastElement
<1>8. sorted(s)[k] = Min(AtLeast(s, k))
    BY <1>1 DEF sorted, AtLeast, NoGreater
<1>9. /\ Min(AtLeast(s, k)) \in AtLeast(s, k)
      /\ \A y \in AtLeast(s, k) : Min(AtLeast(s, k)) <= y
    BY <1>7 DEF Min
<1> QED
    BY <1>6, <1>8, <1>9

\* The sorted sequence is as long, and none of its elements is less than an earlier one.
LEMMA SortedAscends ==
    ASSUME NEW s \in Seq(Nat)
    PROVE  /\ sorted(s) \in Seq(Nat) /\ Len(sorted(s)) = Len(s)
           /\ \A k, l \in 1 .. Len(s) : k <= l => sorted(s)[k] <= sorted(s)[l]
<1>1. Len(s) \in Nat /\ DOMAIN s = 1 .. Len(s)
    BY Places
<1> DEFINE f == sorted(s)
<1>2. DOMAIN f = 1 .. Len(s) /\ f = [k \in 1 .. Len(s) |-> f[k]]
    BY <1>1 DEF sorted
<1>3. \A k \in 1 .. Len(s) : f[k] \in Nat
    BY SortedElement
<1>4. ASSUME NEW k \in 1 .. Len(s), NEW l \in 1 .. Len(s), k <= l
      PROVE  f[k] <= f[l]
    <2>1. f[l] \in AtLeast(s, l)
        BY SortedElement
    <2>2. Cardinality(NoGreater(s, f[l])) \in Nat
        BY Places DEF NoGreater
    <2>3. f[l] \in AtLeast(s, k)
        BY <1>4, <2>1, <2>2 DEF AtLeast
    <2> QED
        BY <2>3, SortedElement
<1> HIDE DEF f
<1>5. f \in [1 .. Len(s) -> Nat]
    BY <1>2, <1>3
<1>6. f \in Seq(Nat) /\ Len(f) = Len(s)
    BY <1>1, <1>5
<1> QED
    BY <1>4, <1>6 DEF f

\* At least k elements are no greater than the k-th, and all but k - 1 are no less.
LEMMA SortedCounts ==
    ASSUME NEW s \in Seq(Nat), NEW k \in 1 .. Len(s)
    PROVE  /\ Cardinality(NoGreater(s, sorted(s)[k])) >= k
           /\ Cardinality({i \in DOMAIN s : s[i] >= sorted(s)[k]}) >= Len(s) - k + 1
<1> DEFINE v == sorted(s)[k]
           low == {i \in DOMAIN s : s[i] < v}
           high == {i \in DOMAIN s : s[i] >= v}
<1>1. v \in Nat /\ v \in AtLeast(s, k) /\ \A x \in AtLeast(s, k) : v <= x
    BY SortedElement
<1> HIDE DEF v
<1>2. Cardinality(NoGreater(s, v)) >= k
    BY <1>1 DEF AtLeast
<1>3. /\ Cardinality(DOMAIN s) = Len(s) /\ Len(s) \in Nat
      /\ IsFiniteSet(low) /\ IsFiniteSet(high)
      /\ Cardinality(low) \in Nat /\ Cardinality(high) \in Nat
    BY Places
<1>4. Cardinality(low) < k
    <2> SUFFICES ASSUME Cardinality(low) >= k PROVE FALSE
        BY <1>3
    <2>1. low # {}
        <3>1. Cardinality({}) = 0
            BY FS_EmptySet
        <3>2. k > 0
            BY <1>3
        <3> HIDE DEF low
        <3>3. low = {} => Cardinality(low) = 0
            BY <3>1
        <3> QED
            BY <3>2, <3>3
    <2>2. PICK j \in DOMAIN s : s[j] < v
        BY <2>1
    <2>3. PICK i \in DOMAIN s : s[i] < v /\ \A l \in DOMAIN s : s[l] < v => s[l] <= s[i]
        BY <1>1, <2>2, GreatestBelow
    <2>4. \A l \in DOMAIN s : s[l] \in Nat
        OBVIOUS
    <2>5. NoGreater(s, s[i]) = low
        BY <1>1, <2>3, <2>4 DEF NoGreater
    <2>6. s[i] \in AtLeast(s, k)
        BY <2>5 DEF AtLeast, Range
    <2> QED
        BY <1>1, <2>3, <2>4, <2>6
<1>5. low \cup high = DOMAIN s /\ low \cap high = {}
    <2>1. \A l \in DOMAIN s : s[l] \in Nat
        OBVIOUS
    <2>2. \A l \in DOMAIN s : (s[l] >= v) <=> ~ (s[l] < v)
        BY <1>1, <2>1
    <2> QED
        BY <2>2
<1> HIDE DEF low, high
<1>6. Cardinality(low \cup high) = Cardinality(low) + Cardinality(high) - Cardinality(low \cap high)
    BY <1>3, FS_Union
<1>7. Cardinality({}) = 0
    BY FS_EmptySet
<1>8. Len(s) = Cardinality(low) + Cardinality(high) - 0
    BY <1>3, <1>5, <1>6, <1>7
<1>9. Cardinality(high) >= Len(s) - k + 1
    BY <1>3, <1>4, <1>8
<1> QED
    BY <1>2, <1>9 DEF v, high

(***************************************************************************)
(* Percentiles                                                             *)
(***************************************************************************)
\* The value at a rank, in hundredths of both.
ValueAt(of, rank) ==
    IF rank % 100 = 0 THEN 100 * of[(rank \div 100) + 1]
    ELSE interpolate(of[(rank \div 100) + 1], of[(rank \div 100) + 2], rank % 100)

\* Between two neighbours the value grows with the weight of the higher one ...
LEMMA WeightRaises ==
    ASSUME NEW x \in Nat, NEW y \in Nat, x <= y, NEW w \in 0 .. 100, NEW v \in 0 .. 100, w <= v
    PROVE  interpolate(x, y, w) <= interpolate(x, y, v)
<1>1. interpolate(x, y, w) = 100 * x + w * (y - x) /\ interpolate(x, y, v) = 100 * x + v * (y - x)
    BY Z3 DEF interpolate
<1>2. w * (y - x) <= v * (y - x)
    BY Z3
<1>3. w * (y - x) \in Int /\ v * (y - x) \in Int
    OBVIOUS
<1> QED
    BY <1>1, <1>2, <1>3

\* ... and with each of them.
LEMMA NeighboursRaise ==
    ASSUME NEW x \in Nat, NEW y \in Nat, NEW u \in Nat, NEW v \in Nat, x <= u, y <= v, NEW w \in 0 .. 100
    PROVE  interpolate(x, y, w) <= interpolate(u, v, w)
<1>1. x * (100 - w) <= u * (100 - w) /\ y * w <= v * w
    BY Z3
<1>2. x * (100 - w) \in Int /\ u * (100 - w) \in Int /\ y * w \in Int /\ v * w \in Int
    OBVIOUS
<1> QED
    BY <1>1, <1>2 DEF interpolate

\* It is between the two.
LEMMA InterpolateBetween ==
    ASSUME NEW x \in Nat, NEW y \in Nat, x <= y, NEW w \in 0 .. 100
    PROVE  /\ interpolate(x, y, w) \in Int
           /\ 100 * x <= interpolate(x, y, w) /\ interpolate(x, y, w) <= 100 * y
<1>1. interpolate(x, y, 0) = 100 * x /\ interpolate(x, y, 100) = 100 * y
    BY DEF interpolate
<1>2. interpolate(x, y, 0) <= interpolate(x, y, w) /\ interpolate(x, y, w) <= interpolate(x, y, 100)
    <2>1. 0 \in 0 .. 100 /\ 100 \in 0 .. 100 /\ 0 <= w /\ w <= 100
        OBVIOUS
    <2>2. interpolate(x, y, 0) <= interpolate(x, y, w)
        BY <2>1, WeightRaises
    <2>3. interpolate(x, y, w) <= interpolate(x, y, 100)
        BY <2>1, WeightRaises
    <2> QED
        BY <2>2, <2>3
<1>3. x * (100 - w) \in Int /\ y * w \in Int
    OBVIOUS
<1>4. interpolate(x, y, w) \in Int
    BY <1>3 DEF interpolate
<1> QED
    BY <1>1, <1>2, <1>4

\* A sequence of numbers that ascends.
Ascends(of) ==
    /\ of \in Seq(Nat) /\ of # <<>>
    /\ \A k, l \in 1 .. Len(of) : k <= l => of[k] <= of[l]

\* The places of a rank in a sequence.
LEMMA RankPlaces ==
    ASSUME NEW n \in Nat \ {0}, NEW rank \in Nat, rank <= 100 * (n - 1)
    PROVE  /\ rank \div 100 \in Nat /\ rank % 100 \in 0 .. 99
           /\ rank = 100 * (rank \div 100) + (rank % 100)
           /\ (rank \div 100) + 1 \in 1 .. n
           /\ rank % 100 # 0 => (rank \div 100) + 2 \in 1 .. n
<1> DEFINE a == rank \div 100
           w == rank % 100
<1>1. a \in Int /\ w \in 0 .. 99 /\ rank = 100 * a + w
    BY Z3
<1> HIDE DEF a, w
<1>2. a \in Nat /\ a + 1 \in 1 .. n /\ (w # 0 => a + 2 \in 1 .. n)
    BY <1>1, Z3
<1> QED
    BY <1>1, <1>2 DEF a, w

\* The value at a rank is between the two elements next to it.
LEMMA ValueBetween ==
    ASSUME NEW of, Ascends(of), NEW rank \in Nat, rank <= 100 * (Len(of) - 1)
    PROVE  /\ ValueAt(of, rank) \in Int
           /\ 100 * of[(rank \div 100) + 1] <= ValueAt(of, rank)
           /\ rank % 100 # 0 => ValueAt(of, rank) <= 100 * of[(rank \div 100) + 2]
<1> DEFINE a == rank \div 100
           w == rank % 100
           x == of[a + 1]
           y == of[a + 2]
<1>1. Len(of) \in Nat \ {0} /\ DOMAIN of = 1 .. Len(of) /\ \A k \in 1 .. Len(of) : of[k] \in Nat
    BY DEF Ascends
<1>2. a \in Nat /\ w \in 0 .. 99 /\ a + 1 \in 1 .. Len(of) /\ (w # 0 => a + 2 \in 1 .. Len(of))
    BY <1>1, RankPlaces
<1>3. ValueAt(of, rank) = IF w = 0 THEN 100 * x ELSE interpolate(x, y, w)
    BY DEF ValueAt
<1>4. x \in Nat /\ (w # 0 => y \in Nat /\ x <= y)
    BY <1>1, <1>2 DEF Ascends
<1> HIDE DEF a, w, x, y
<1>5. CASE w = 0
    BY <1>3, <1>4, <1>5 DEF x, y, a, w
<1>6. CASE w # 0
    <2>1. w \in 0 .. 100
        BY <1>2
    <2>2. /\ interpolate(x, y, w) \in Int
          /\ 100 * x <= interpolate(x, y, w) /\ interpolate(x, y, w) <= 100 * y
        BY <1>4, <1>6, <2>1, InterpolateBetween
    <2> QED
        BY <1>3, <1>6, <2>2 DEF x, y, a, w
<1> QED
    BY <1>5, <1>6

\* The value at a higher rank is no less.
LEMMA HigherRank ==
    ASSUME NEW of, Ascends(of), NEW r \in Nat, NEW t \in Nat, r <= t, t <= 100 * (Len(of) - 1)
    PROVE  ValueAt(of, r) <= ValueAt(of, t)
<1> DEFINE a == r \div 100
           b == t \div 100
           w == r % 100
           v == t % 100
<1>1. Len(of) \in Nat \ {0} /\ \A k \in 1 .. Len(of) : of[k] \in Nat
    BY DEF Ascends
<1>2. r <= 100 * (Len(of) - 1)
    BY <1>1
<1>3. /\ a \in Nat /\ w \in 0 .. 99 /\ r = 100 * a + w /\ a + 1 \in 1 .. Len(of)
      /\ w # 0 => a + 2 \in 1 .. Len(of)
    BY <1>1, <1>2, RankPlaces
<1>4. /\ b \in Nat /\ v \in 0 .. 99 /\ t = 100 * b + v /\ b + 1 \in 1 .. Len(of)
      /\ v # 0 => b + 2 \in 1 .. Len(of)
    BY <1>1, RankPlaces
<1>5. /\ ValueAt(of, r) \in Int /\ 100 * of[a + 1] <= ValueAt(of, r)
      /\ w # 0 => ValueAt(of, r) <= 100 * of[a + 2]
    BY <1>2, ValueBetween
<1>6. ValueAt(of, t) \in Int /\ 100 * of[b + 1] <= ValueAt(of, t)
    BY ValueBetween
<1>7. /\ ValueAt(of, r) = IF w = 0 THEN 100 * of[a + 1] ELSE interpolate(of[a + 1], of[a + 2], w)
      /\ ValueAt(of, t) = IF v = 0 THEN 100 * of[b + 1] ELSE interpolate(of[b + 1], of[b + 2], v)
    BY DEF ValueAt
<1> HIDE DEF a, b, w, v
<1>8. a < b \/ (a = b /\ w <= v)
    BY <1>3, <1>4
<1>9. CASE a < b
    <2>1. CASE w = 0
        <3>1. of[a + 1] <= of[b + 1] /\ of[a + 1] \in Nat /\ of[b + 1] \in Nat
            BY <1>1, <1>3, <1>4, <1>9 DEF Ascends
        <3> QED
            BY <1>5, <1>6, <1>7, <2>1, <3>1
    <2>2. CASE w # 0
        <3>1. a + 2 \in 1 .. Len(of) /\ a + 2 <= b + 1
            BY <1>3, <1>4, <1>9, <2>2
        <3>2. of[a + 2] <= of[b + 1] /\ of[a + 2] \in Nat /\ of[b + 1] \in Nat
            BY <1>1, <1>4, <3>1 DEF Ascends
        <3> QED
            BY <1>5, <1>6, <2>2, <3>2
    <2> QED
        BY <2>1, <2>2
<1>10. CASE a = b /\ w <= v
    <2>1. CASE w = 0
        BY <1>5, <1>6, <1>7, <1>10, <2>1
    <2>2. CASE w # 0
        <3>1. v # 0 /\ w \in 0 .. 100 /\ v \in 0 .. 100 /\ a + 2 \in 1 .. Len(of)
            BY <1>3, <1>4, <1>10, <2>2
        <3>2. of[a + 1] \in Nat /\ of[a + 2] \in Nat /\ of[a + 1] <= of[a + 2]
            BY <1>1, <1>3, <3>1 DEF Ascends
        <3>3. interpolate(of[a + 1], of[a + 2], w) <= interpolate(of[a + 1], of[a + 2], v)
            BY <1>10, <3>1, <3>2, WeightRaises
        <3> QED
            BY <1>7, <1>10, <2>2, <3>1, <3>3
    <2> QED
        BY <2>1, <2>2
<1> QED
    BY <1>8, <1>9, <1>10

\* The same rank in a sequence of larger elements has a larger value.
LEMMA LargerElements ==
    ASSUME NEW of, Ascends(of), NEW to, Ascends(to), Len(of) <= Len(to),
           \A k \in 1 .. Len(of) : of[k] <= to[k],
           NEW r \in Nat, r <= 100 * (Len(of) - 1)
    PROVE  ValueAt(of, r) <= ValueAt(to, r)
<1> DEFINE a == r \div 100
           w == r % 100
<1>1. /\ Len(of) \in Nat \ {0} /\ \A k \in 1 .. Len(of) : of[k] \in Nat
      /\ Len(to) \in Nat \ {0} /\ \A k \in 1 .. Len(to) : to[k] \in Nat
    BY DEF Ascends
<1>2. a \in Nat /\ w \in 0 .. 99 /\ a + 1 \in 1 .. Len(of) /\ (w # 0 => a + 2 \in 1 .. Len(of))
    BY <1>1, RankPlaces
<1>3. 1 .. Len(of) \subseteq 1 .. Len(to)
    BY <1>1
<1>4. /\ ValueAt(of, r) = IF w = 0 THEN 100 * of[a + 1] ELSE interpolate(of[a + 1], of[a + 2], w)
      /\ ValueAt(to, r) = IF w = 0 THEN 100 * to[a + 1] ELSE interpolate(to[a + 1], to[a + 2], w)
    BY DEF ValueAt
<1> HIDE DEF a, w
<1>5. of[a + 1] <= to[a + 1] /\ of[a + 1] \in Nat /\ to[a + 1] \in Nat
    BY <1>1, <1>2, <1>3
<1>6. CASE w = 0
    BY <1>4, <1>5, <1>6
<1>7. CASE w # 0
    <2>1. of[a + 2] <= to[a + 2] /\ of[a + 2] \in Nat /\ to[a + 2] \in Nat
        BY <1>1, <1>2, <1>3, <1>7
    <2>2. w \in 0 .. 100
        BY <1>2
    <2>3. interpolate(of[a + 1], of[a + 2], w) <= interpolate(to[a + 1], to[a + 2], w)
        BY <1>5, <2>1, <2>2, NeighboursRaise
    <2> QED
        BY <1>4, <1>7, <2>3
<1> QED
    BY <1>6, <1>7

\* The sorted sequence of requests ascends.
LEMMA SortedIsAscending ==
    ASSUME NEW s \in Seq(Nat), s # <<>>
    PROVE  Ascends(sorted(s)) /\ Len(sorted(s)) = Len(s) /\ Len(s) \in Nat \ {0}
<1>1. Len(s) \in Nat \ {0}
    OBVIOUS
<1>2. /\ sorted(s) \in Seq(Nat) /\ Len(sorted(s)) = Len(s)
      /\ \A k, l \in 1 .. Len(s) : k <= l => sorted(s)[k] <= sorted(s)[l]
    BY SortedAscends
<1>3. ASSUME NEW f \in Seq(Nat), Len(f) = Len(s) PROVE f # <<>>
    BY <1>1, <1>3
<1>4. sorted(s) # <<>>
    BY <1>2, <1>3
<1> QED
    BY <1>1, <1>2, <1>4 DEF Ascends

\* The rank of a percentile.
LEMMA PercentileRank ==
    ASSUME NEW p \in 0 .. 100, NEW n \in Nat \ {0}
    PROVE  /\ p * (n - 1) \in Nat /\ p * (n - 1) <= 100 * (n - 1)
           /\ (100 - p) * (n - 1) = 100 * (n - 1) - p * (n - 1)
<1>1. p * (n - 1) \in Nat
    BY Z3
<1>2. p * (n - 1) <= 100 * (n - 1)
    BY Z3
<1>3. (100 - p) * (n - 1) = 100 * (n - 1) - p * (n - 1)
    BY Z3
<1> QED
    BY <1>1, <1>2, <1>3

\* A percentile is the value at its rank.
LEMMA PercentileIsValue ==
    ASSUME NEW of, NEW p
    PROVE  percentile(of, p) = ValueAt(of, p * (Len(of) - 1))
    BY DEF percentile, ValueAt

\* A higher percentile is no less.
LEMMA HigherPercentile ==
    ASSUME NEW s \in Seq(Nat), s # <<>>, NEW p \in 0 .. 100, NEW q \in 0 .. 100, p <= q
    PROVE  percentile(sorted(s), p) <= percentile(sorted(s), q)
<1> DEFINE of == sorted(s)
           n == Len(s)
<1>1. Ascends(of) /\ Len(of) = n /\ n \in Nat \ {0}
    BY SortedIsAscending
<1> HIDE DEF of, n
<1>2. p * (n - 1) \in Nat /\ q * (n - 1) \in Nat /\ q * (n - 1) <= 100 * (n - 1)
    BY <1>1, PercentileRank
<1>3. p * (n - 1) <= q * (n - 1)
    <2>1. p \in Int /\ q \in Int /\ n - 1 \in Nat
        BY <1>1
    <2> QED
        BY <2>1, ProductMonotone
<1>4. ValueAt(of, p * (n - 1)) <= ValueAt(of, q * (n - 1))
    BY <1>1, <1>2, <1>3, HigherRank
<1> QED
    BY <1>1, <1>4, PercentileIsValue DEF of

Splits(s, cut, p) ==
    /\ 100 * Cardinality({i \in DOMAIN s : 100 * s[i] <= cut}) >= p * (Len(s) - 1)
    /\ 100 * Cardinality({i \in DOMAIN s : 100 * s[i] >= cut}) >= (100 - p) * (Len(s) - 1)

\* As many elements as a percentile says are no greater than it, and the rest no less.
LEMMA PercentileSplits ==
    ASSUME NEW s \in Seq(Nat), s # <<>>, NEW p \in 0 .. 100, NEW cut, cut = percentile(sorted(s), p)
    PROVE  Splits(s, cut, p)
<1> DEFINE of == sorted(s)
           n == Len(s)
           r == p * (n - 1)
           a == r \div 100
           w == r % 100
           low == {i \in DOMAIN s : 100 * s[i] <= cut}
           high == {i \in DOMAIN s : 100 * s[i] >= cut}
           after(k) == {i \in DOMAIN s : s[i] >= of[k]}
<1>1. Ascends(of) /\ Len(of) = n /\ n \in Nat \ {0}
    BY SortedIsAscending
<1>2. r \in Nat /\ r <= 100 * (n - 1) /\ (100 - p) * (n - 1) = 100 * (n - 1) - r
    BY <1>1, PercentileRank
<1>3. cut = ValueAt(of, r)
    BY <1>1, PercentileIsValue
<1>4. \A k \in 1 .. n : /\ of[k] \in Nat /\ Cardinality(NoGreater(s, of[k])) >= k
                        /\ Cardinality(after(k)) >= n - k + 1
    BY SortedCounts, SortedElement
<1>5. \A i \in DOMAIN s : s[i] \in Nat
    OBVIOUS
<1>6. /\ low \in SUBSET DOMAIN s /\ high \in SUBSET DOMAIN s
      /\ \A k \in 1 .. n : NoGreater(s, of[k]) \in SUBSET DOMAIN s /\ after(k) \in SUBSET DOMAIN s
    BY DEF NoGreater
<1>7. \A P \in SUBSET DOMAIN s : Cardinality(P) \in Nat
    BY Places
<1>8. \A P \in SUBSET DOMAIN s : \A Q \in SUBSET P : Cardinality(Q) <= Cardinality(P)
    BY FewerPlaces
<1>9. \A i : /\ i \in low <=> i \in DOMAIN s /\ 100 * s[i] <= cut
             /\ i \in high <=> i \in DOMAIN s /\ 100 * s[i] >= cut
    OBVIOUS
<1>10. \A k : \A i : i \in after(k) <=> i \in DOMAIN s /\ s[i] >= of[k]
    OBVIOUS
<1> HIDE DEF of, n, low, high, after, r
<1>11. a \in Nat /\ w \in 0 .. 99 /\ r = 100 * a + w /\ a + 1 \in 1 .. n /\ (w # 0 => a + 2 \in 1 .. n)
    BY <1>1, <1>2, RankPlaces
<1>12. /\ cut \in Int /\ 100 * of[a + 1] <= cut
       /\ w # 0 => cut <= 100 * of[a + 2]
    BY <1>1, <1>2, <1>3, ValueBetween
<1>13. w = 0 => cut = 100 * of[a + 1]
    BY <1>3 DEF ValueAt
<1> HIDE DEF a, w
<1>14. 100 * Cardinality(low) >= r
    <2>1. NoGreater(s, of[a + 1]) \in SUBSET low
        <3>1. of[a + 1] \in Nat /\ cut \in Int
            BY <1>4, <1>11, <1>12
        <3>2. ASSUME NEW i \in NoGreater(s, of[a + 1]) PROVE i \in low
            <4>1. i \in DOMAIN s /\ s[i] \in Nat /\ s[i] <= of[a + 1]
                BY <1>5, <3>2 DEF NoGreater
            <4>2. 100 * s[i] <= cut
                BY <1>12, <3>1, <4>1
            <4> QED
                BY <1>9, <4>1, <4>2
        <3> QED
            BY <3>2
    <2>2. Cardinality(low) >= a + 1
        <3>1. Cardinality(NoGreater(s, of[a + 1])) >= a + 1 /\ Cardinality(NoGreater(s, of[a + 1])) <= Cardinality(low)
            BY <1>4, <1>6, <1>8, <1>11, <2>1
        <3>2. Cardinality(NoGreater(s, of[a + 1])) \in Nat /\ Cardinality(low) \in Nat
            BY <1>6, <1>7, <1>11
        <3> QED
            BY <1>11, <3>1, <3>2
    <2>3. Cardinality(low) \in Nat
        BY <1>6, <1>7
    <2> QED
        BY <1>11, <2>2, <2>3
<1>15. ASSUME NEW k \in 1 .. n, cut <= 100 * of[k]
       PROVE  Cardinality(high) \in Nat /\ Cardinality(high) >= n - k + 1
    <2>1. after(k) \in SUBSET high
        <3>1. of[k] \in Nat /\ cut \in Int /\ after(k) \in SUBSET DOMAIN s
            BY <1>4, <1>6, <1>12, <1>15
        <3>2. ASSUME NEW i \in after(k) PROVE i \in high
            <4>1. i \in DOMAIN s /\ s[i] \in Nat /\ s[i] >= of[k]
                BY <1>5, <1>10, <3>2
            <4>2. 100 * s[i] >= cut
                BY <1>15, <3>1, <4>1
            <4> QED
                BY <1>9, <4>1, <4>2
        <3> QED
            BY <3>2
    <2>2. Cardinality(after(k)) >= n - k + 1 /\ Cardinality(after(k)) <= Cardinality(high)
        BY <1>4, <1>6, <1>8, <2>1
    <2>3. Cardinality(after(k)) \in Nat /\ Cardinality(high) \in Nat
        BY <1>6, <1>7
    <2> QED
        BY <1>1, <2>2, <2>3
<1>16. 100 * Cardinality(high) >= 100 * (n - 1) - r
    <2>1. CASE w = 0
        <3>1. cut <= 100 * of[a + 1]
            BY <1>12, <1>13, <2>1
        <3>2. Cardinality(high) \in Nat /\ Cardinality(high) >= n - (a + 1) + 1
            BY <1>11, <1>15, <3>1
        <3> QED
            BY <1>1, <1>11, <3>2
    <2>2. CASE w # 0
        <3>1. Cardinality(high) \in Nat /\ Cardinality(high) >= n - (a + 2) + 1
            BY <1>11, <1>12, <1>15, <2>2
        <3> QED
            BY <1>1, <1>11, <3>1
    <2> QED
        BY <2>1, <2>2
<1> QED
    BY <1>2, <1>14, <1>16 DEF r, n, low, high, Splits

(***************************************************************************)
(* The collector                                                           *)
(***************************************************************************)
\* A sequence of some numbers is one of numbers.
LEMMA SeqOfNumbers ==
    ASSUME NEW S, NEW R, S \subseteq R, NEW s \in Seq(S)
    PROVE  s \in Seq(R)
    OBVIOUS

\* Every step of the collector keeps its types.
LEMMA CollectorStep ==
    ASSUME CollectorTypeOK, [TuneNext]_tuneVars
    PROVE  CollectorTypeOK'
<1> USE DEF CollectorTypeOK, requestsTotal
<1>0. Len(latencies) \in Nat /\ Len(Instants) \in Nat /\ DOMAIN Instants = 1 .. Len(Instants) /\ Instants # <<>>
    BY MetricsConstants
<1>1. ASSUME NEW ms \in Latencies, NEW success \in BOOLEAN, RecordRequest(ms, success)
      PROVE  CollectorTypeOK'
    <2>1. /\ latencies' = Append(latencies, ms) /\ requestsFailed' \in {requestsFailed, requestsFailed + 1}
          /\ UNCHANGED <<queueWaits, restartTimes, clock>>
        BY <1>1 DEF RecordRequest
    <2>2. latencies' \in Seq(Latencies) /\ Len(latencies') = Len(latencies) + 1
        BY <2>1
    <2>3. requestsFailed' \in 0 .. Len(latencies')
        BY <1>0, <2>1, <2>2
    <2> QED
        BY <2>1, <2>2, <2>3
<1>2. ASSUME NEW ms \in Waits, RecordQueueWait(ms)
      PROVE  CollectorTypeOK'
    BY <1>2 DEF RecordQueueWait
<1>3. CASE RecordRestart
    <2>1. uptime \in Range(Instants)
        BY DEF uptime, Range
    <2> QED
        BY <1>3, <2>1 DEF RecordRestart
<1>4. CASE Tick
    BY <1>0, <1>4 DEF Tick, collector
<1>5. CASE RunAgain
    <2>1. 1 \in DOMAIN Instants
        BY <1>0, MetricsConstants
    <2>2. \A S : <<>> \in Seq(S) /\ Len(<<>>) = 0
        OBVIOUS
    <2> QED
        BY <1>5, <2>1, <2>2 DEF RunAgain
<1>6. CASE UNCHANGED metricsVars
    BY <1>6 DEF metricsVars, collector
<1> QED
    BY <1>1, <1>2, <1>3, <1>4, <1>5, <1>6 DEF TuneNext, Collect, tuneVars, SaveState, NewData, Tune

\* At first nothing is recorded.
LEMMA CollectorInit ==
    ASSUME TuneInit
    PROVE  CollectorTypeOK
<1>1. 1 \in DOMAIN Instants
    BY MetricsConstants
<1>2. \A S : <<>> \in Seq(S) /\ Len(<<>>) = 0
    OBVIOUS
<1> QED
    BY <1>1, <1>2 DEF TuneInit, NewCollector, CollectorTypeOK, requestsTotal

\* The collector's types hold throughout.
LEMMA CollectorTyping == TuneSpec => []CollectorTypeOK
    BY CollectorInit, CollectorStep, PTL DEF TuneSpec

\* What is recorded are numbers.
LEMMA Recorded ==
    ASSUME CollectorTypeOK
    PROVE  /\ latencies \in Seq(Nat) /\ Len(latencies) \in Nat /\ requestsFailed \in 0 .. Len(latencies)
           /\ queueWaits \in Seq(Nat) /\ Len(queueWaits) \in Nat
           /\ restartTimes \in Seq(Nat) /\ Len(restartTimes) \in Nat
           /\ uptime \in Nat \ {0}
<1>1. Latencies \subseteq Nat /\ Waits \subseteq Nat /\ Range(Instants) \subseteq Nat \ {0}
    BY MetricsConstants DEF Range
<1>2. latencies \in Seq(Nat) /\ queueWaits \in Seq(Nat) /\ restartTimes \in Seq(Nat)
    BY <1>1, SeqOfNumbers DEF CollectorTypeOK
<1>3. uptime \in Nat \ {0}
    BY <1>1 DEF CollectorTypeOK, uptime, Range
<1> QED
    BY <1>2, <1>3 DEF CollectorTypeOK, requestsTotal

\* Percentiles are ordered, and split the requests as their names say, for any number
\* of requests (collector.go:263-279).
THEOREM PercentilesSplit == TuneSpec => []PercentilesAreOrdered
<1>1. ASSUME CollectorTypeOK PROVE PercentilesAreOrdered
    <2> SUFFICES ASSUME latencies # <<>>
                 PROVE  /\ percentile(sorted(latencies), 50) <= percentile(sorted(latencies), 95)
                        /\ percentile(sorted(latencies), 95) <= percentile(sorted(latencies), 99)
                        /\ \A p \in {50, 95, 99} : Between(percentile(sorted(latencies), p), p)
        BY DEF PercentilesAreOrdered
    <2>1. latencies \in Seq(Nat)
        BY <1>1, Recorded
    <2>2. 50 \in 0 .. 100 /\ 95 \in 0 .. 100 /\ 99 \in 0 .. 100 /\ 50 <= 95 /\ 95 <= 99
        OBVIOUS
    <2>3. /\ percentile(sorted(latencies), 50) <= percentile(sorted(latencies), 95)
          /\ percentile(sorted(latencies), 95) <= percentile(sorted(latencies), 99)
        BY <2>1, <2>2, HigherPercentile
    <2>4. ASSUME NEW p \in {50, 95, 99} PROVE Between(percentile(sorted(latencies), p), p)
        <3>1. p \in 0 .. 100
            BY <2>2
        <3>2. Splits(latencies, percentile(sorted(latencies), p), p)
            BY <2>1, <3>1, PercentileSplits
        <3> QED
            BY <3>2 DEF Splits, Between, requestsTotal
    <2> QED
        BY <2>3, <2>4
<1> QED
    BY <1>1, CollectorTyping, PTL

(***************************************************************************)
(* hydra tune                                                              *)
(***************************************************************************)
Suggestions == [parameter : {"max_restarts", "queue_size", "debounce_ms"}, suggested : Nat]

\* A rule makes one suggestion or none.
LEMMA OneOrNone ==
    ASSUME NEW r \in Suggestions, NEW a, a = <<>> \/ a = <<r>>
    PROVE  a \in Seq(Suggestions) /\ \A i \in DOMAIN a : a # <<>> /\ a[i] = r
<1>1. <<r>> \in Seq(Suggestions) /\ DOMAIN <<r>> = {1} /\ <<r>>[1] = r /\ <<r>> # <<>>
    OBVIOUS
<1>2. <<>> \in Seq(Suggestions) /\ DOMAIN <<>> = {}
    OBVIOUS
<1> QED
    BY <1>1, <1>2

\* There is reason to lower the limit of restarts.
LimitIsTooHigh ==
    saved > 0 /\ 2 * saved < behavior["max_restarts"] /\ NewMax(saved) < behavior["max_restarts"]

LowersLimit(s) ==
    \A i \in DOMAIN s :
        s[i].parameter = "max_restarts" => LimitIsTooHigh /\ s[i].suggested = NewMax(saved)

\* A suggestion for another parameter lowers no limit.
LEMMA OtherParameter ==
    ASSUME NEW p \in {"queue_size", "debounce_ms"}, NEW n \in Nat, NEW a,
           a = <<>> \/ a = <<[parameter |-> p, suggested |-> n]>>
    PROVE  a \in Seq(Suggestions) /\ LowersLimit(a)
<1> DEFINE r == [parameter |-> p, suggested |-> n]
<1>1. r \in Suggestions /\ r.parameter # "max_restarts"
    BY DEF Suggestions
<1>2. a = <<>> \/ a = <<r>>
    OBVIOUS
<1> HIDE DEF r
<1> QED
    BY <1>1, <1>2, OneOrNone DEF LowersLimit

\* An element of two sequences, one after the other, is one of the first or the second.
LEMMA CatElement ==
    ASSUME NEW S, NEW s \in Seq(S), NEW t \in Seq(S), NEW i \in DOMAIN Cat(s, t)
    PROVE  \/ \E j \in DOMAIN s : Cat(s, t)[i] = s[j]
           \/ \E j \in DOMAIN t : Cat(s, t)[i] = t[j]
<1>1. /\ Len(s) \in Nat /\ Len(t) \in Nat /\ DOMAIN s = 1 .. Len(s) /\ DOMAIN t = 1 .. Len(t)
      /\ DOMAIN Cat(s, t) = 1 .. Len(s) + Len(t)
      /\ \A k \in 1 .. Len(s) + Len(t) : Cat(s, t)[k] = IF k <= Len(s) THEN s[k] ELSE t[k - Len(s)]
    BY DEF Cat
<1>2. CASE i <= Len(s)
    BY <1>1, <1>2
<1>3. CASE ~ (i <= Len(s))
    <2>1. i - Len(s) \in 1 .. Len(t)
        BY <1>1, <1>3
    <2> QED
        BY <1>1, <1>3, <2>1
<1> QED
    BY <1>2, <1>3

\* What two rules suggest lowers the limit only with reason if each does.
LEMMA BothLowerLimit ==
    ASSUME NEW s \in Seq(Suggestions), NEW t \in Seq(Suggestions), LowersLimit(s), LowersLimit(t)
    PROVE  Cat(s, t) \in Seq(Suggestions) /\ LowersLimit(Cat(s, t))
<1>1. Cat(s, t) \in Seq(Suggestions)
    BY CatType
<1>2. ASSUME NEW i \in DOMAIN Cat(s, t), Cat(s, t)[i].parameter = "max_restarts"
      PROVE  LimitIsTooHigh /\ Cat(s, t)[i].suggested = NewMax(saved)
    BY <1>2, CatElement DEF LowersLimit
<1> QED
    BY <1>1, <1>2 DEF LowersLimit

\* A limit for a number of restarts is a number, no less than it, and three at least.
LEMMA NewMaxHasRoom ==
    ASSUME NEW n \in Nat
    PROVE  NewMax(n) \in Nat /\ NewMax(n) >= n /\ NewMax(n) >= 3
    BY Z3 DEF NewMax

\* Only the first rule suggests a limit of restarts, and only to lower it.
LEMMA AnalyzeLowersLimit ==
    ASSUME FilesTypeOK, saved # Nothing
    PROVE  Analyze \in Seq(Suggestions) /\ LowersLimit(Analyze)
<1>1. saved \in Nat /\ behavior["debounce_ms"] \in Nat
    BY DEF FilesTypeOK, Parameters
<1>2. NewMax(saved) \in Nat /\ 2 * behavior["debounce_ms"] \in Nat /\ 3 * behavior["debounce_ms"] \in Nat
    BY <1>1, NewMaxHasRoom
<1>3. analyzeRestartThreshold \in Seq(Suggestions) /\ LowersLimit(analyzeRestartThreshold)
    <2> DEFINE r == [parameter |-> "max_restarts", suggested |-> NewMax(saved)]
    <2>1. \/ analyzeRestartThreshold = <<>>
          \/ analyzeRestartThreshold = <<r>> /\ LimitIsTooHigh
        BY Zenon DEF analyzeRestartThreshold, Suggest, LimitIsTooHigh
    <2>2. r \in Suggestions /\ r.suggested = NewMax(saved)
        BY <1>2 DEF Suggestions
    <2> HIDE DEF r
    <2>3. /\ analyzeRestartThreshold \in Seq(Suggestions)
          /\ \A i \in DOMAIN analyzeRestartThreshold :
                analyzeRestartThreshold # <<>> /\ analyzeRestartThreshold[i] = r
        BY <2>1, <2>2, OneOrNone
    <2> QED
        BY <2>1, <2>2, <2>3 DEF LowersLimit
<1>4. analyzeQueueCapacity \in Seq(Suggestions) /\ LowersLimit(analyzeQueueCapacity)
    <2>1. \/ analyzeQueueCapacity = <<>>
          \/ analyzeQueueCapacity = <<[parameter |-> "queue_size", suggested |-> 150]>>
        BY Zenon DEF analyzeQueueCapacity, Suggest
    <2> QED
        BY <2>1, OtherParameter
<1>5. analyzeLatencySpikes \in Seq(Suggestions) /\ LowersLimit(analyzeLatencySpikes)
    <2>1. \/ analyzeLatencySpikes = <<>>
          \/ analyzeLatencySpikes = <<[parameter |-> "debounce_ms", suggested |-> 2 * behavior["debounce_ms"]]>>
        BY Zenon DEF analyzeLatencySpikes, Suggest
    <2> QED
        BY <1>2, <2>1, OtherParameter
<1>6. analyzeCrashLoops \in Seq(Suggestions) /\ LowersLimit(analyzeCrashLoops)
    <2>1. \/ analyzeCrashLoops = <<>>
          \/ analyzeCrashLoops = <<[parameter |-> "debounce_ms", suggested |-> 3 * behavior["debounce_ms"]]>>
        BY Zenon DEF analyzeCrashLoops, Suggest
    <2> QED
        BY <1>2, <2>1, OtherParameter
<1>7. Analyze = Cat(Cat(Cat(analyzeRestartThreshold, analyzeQueueCapacity), analyzeLatencySpikes), analyzeCrashLoops)
    BY DEF Analyze, Cat
<1> QED
    BY <1>3, <1>4, <1>5, <1>6, <1>7, BothLowerLimit

\* The last of some places.
LEMMA LastPlace ==
    ASSUME NEW n \in Nat, NEW M, M \subseteq 1 .. n, M # {}
    PROVE  Max(M) \in M
<1> DEFINE D == {n - i : i \in M}
<1>1. D \subseteq Nat /\ D # {}
    <2>1. \A i \in M : n - i \in Nat
        OBVIOUS
    <2> QED
        BY <2>1
<1> HIDE DEF D
<1>2. PICK d \in D : \A e \in D : d <= e
    BY <1>1, LeastElement
<1>3. PICK m \in M : d = n - m
    BY <1>2 DEF D
<1>4. ASSUME NEW i \in M PROVE m >= i
    <2>1. n - m <= n - i
        BY <1>2, <1>3 DEF D
    <2> QED
        BY <2>1
<1>5. m \in M /\ \A i \in M : m >= i
    BY <1>4
<1> QED
    BY <1>5 DEF Max

\* What a parameter takes: a suggestion made for it, or what it had.
LEMMA AppliedIsSuggested ==
    ASSUME NEW s \in Seq(Suggestions), NEW p \in Parameters
    PROVE  \/ Applied(s)[p] = behavior[p]
           \/ \E i \in DOMAIN s : s[i].parameter = p /\ Applied(s)[p] = s[i].suggested
<1> DEFINE made == {i \in DOMAIN s : s[i].parameter = p}
<1>1. Applied(s)[p] = IF made = {} THEN behavior[p] ELSE s[Max(made)].suggested
    BY DEF Applied
<1>2. Len(s) \in Nat /\ made \subseteq 1 .. Len(s)
    OBVIOUS
<1>3. \A i \in made : i \in DOMAIN s /\ s[i].parameter = p
    OBVIOUS
<1> HIDE DEF made
<1>4. made # {} => Max(made) \in made
    BY <1>2, LastPlace
<1> QED
    BY <1>1, <1>3, <1>4

\* Every step keeps the types of the files.
LEMMA FilesStep ==
    ASSUME CollectorTypeOK, FilesTypeOK, [TuneNext]_tuneVars
    PROVE  FilesTypeOK'
<1>1. CASE SaveState
    BY <1>1, Recorded DEF SaveState, FilesTypeOK, restartsTotal
<1>2. CASE NewData
    BY <1>2 DEF NewData, FilesTypeOK
<1>3. CASE Tune
    <2>1. saved # Nothing /\ behavior' = Applied(Analyze) /\ UNCHANGED <<data, saved>>
        BY <1>3 DEF Tune
    <2>2. Analyze \in Seq(Suggestions)
        BY <2>1, AnalyzeLowersLimit
    <2>3. \A i \in DOMAIN Analyze : Analyze[i].suggested \in Nat
        <3>1. \A i \in DOMAIN Analyze : Analyze[i] \in Suggestions
            BY <2>2
        <3> QED
            BY <3>1 DEF Suggestions
    <2>4. \A p \in Parameters : Applied(Analyze)[p] \in Nat
        BY <2>2, <2>3, AppliedIsSuggested DEF FilesTypeOK
    <2>5. behavior' = [p \in Parameters |-> behavior'[p]]
        BY <2>1 DEF Applied
    <2>6. behavior' \in [Parameters -> Nat]
        BY <2>1, <2>4, <2>5
    <2> QED
        BY <2>1, <2>6 DEF FilesTypeOK
<1>4. CASE UNCHANGED fileVars
    BY <1>4 DEF fileVars, FilesTypeOK
<1> QED
    BY <1>1, <1>2, <1>3, <1>4 DEF TuneNext, tuneVars, RunAgain

\* A limit that tune lowers has room for the restarts that were needed, and is final:
\* for any counts, any limit and any number of restarts (learner.go:97-113,
\* tune.go:124-135).
THEOREM TunedLimitIsFinal == TuneSpec => TunedLimitHasRoom
<1> DEFINE Inv == CollectorTypeOK /\ FilesTypeOK
<1>1. TuneInit => Inv
    BY CollectorInit, TuningConstants DEF TuneInit, FilesTypeOK
<1>2. Inv /\ [TuneNext]_tuneVars => Inv'
    BY CollectorStep, FilesStep
<1>3. ASSUME Inv, [TuneNext]_tuneVars, behavior'["max_restarts"] # behavior["max_restarts"]
      PROVE  /\ behavior'["max_restarts"] < behavior["max_restarts"]
             /\ behavior'["max_restarts"] >= saved /\ behavior'["max_restarts"] >= 3
             /\ analyzeRestartThreshold' = <<>>
    <2>1. Tune
        BY <1>3 DEF TuneNext, tuneVars, fileVars, SaveState, RunAgain, NewData
    <2>2. saved # Nothing /\ behavior' = Applied(Analyze) /\ UNCHANGED <<data, saved>>
        BY <2>1 DEF Tune
    <2>3. Analyze \in Seq(Suggestions) /\ LowersLimit(Analyze) /\ saved \in Nat
        BY <1>3, <2>2, AnalyzeLowersLimit DEF FilesTypeOK
    <2>4. LimitIsTooHigh /\ behavior'["max_restarts"] = NewMax(saved)
        BY <1>3, <2>2, <2>3, AppliedIsSuggested DEF LowersLimit, Parameters
    <2>5. NewMax(saved) \in Nat /\ NewMax(saved) >= saved /\ NewMax(saved) >= 3
        BY <2>3, NewMaxHasRoom
    <2>6. NewMax(saved)' = behavior'["max_restarts"] /\ ~ (behavior'["max_restarts"] < behavior'["max_restarts"])
        BY <2>2, <2>4, <2>5 DEF NewMax
    <2>7. analyzeRestartThreshold' = <<>>
        BY <2>6 DEF analyzeRestartThreshold, Suggest
    <2> QED
        BY <2>4, <2>5, <2>7 DEF LimitIsTooHigh
<1> HIDE DEF Inv
<1> QED
    BY <1>1, <1>2, <1>3, PTL DEF TuneSpec, TunedLimitHasRoom

(***************************************************************************)
(* Scores                                                                  *)
(***************************************************************************)
\* The scores of what has been counted.
ErrorScore(f, n) == IF n = 0 THEN 100 ELSE clamp(100 - (f * 200) \div n)
QueueScore(t, n) == IF n = 0 THEN 100 ELSE clamp(100 - (t - 10 * n) \div (10 * n))
UptimeScore(n, u) == IF u < 10 THEN 95 ELSE clamp(100 - (n * 3600 * 20) \div u)
RestartScore(n, u, recent) ==
    IF n = 0 THEN 100 ELSE IF u < 10 THEN clamp(100 - n * 10) ELSE clamp(100 - recent * 10)
Above(s) == percentile(sorted(s), 95) - 10000
Slope == 4900
LatencyScore(s) == IF s = <<>> THEN 100 ELSE clamp(100 - Above(s) \div Slope)

\* What is clamped lies within the range.
LEMMA ScoreInRange ==
    ASSUME NEW a \in Int, NEW c \in Nat \ {0}
    PROVE  clamp(100 - a \div c) \in 0 .. 100
<1>1. a \div c \in Int
    BY Quotient
<1>2. 100 - a \div c \in Int
    BY <1>1
<1> QED
    BY <1>2, ClampInRange

\* A failure does not raise the score of the errors.
LEMMA FailureLowers ==
    ASSUME NEW n \in Nat, NEW f \in 0 .. n
    PROVE  ErrorScore(f + 1, n + 1) <= ErrorScore(f, n)
<1>1. CASE n = 0
    <2>1. (f + 1) * 200 \in Int /\ n + 1 \in Nat \ {0} /\ n + 1 # 0
        OBVIOUS
    <2>2. clamp(100 - ((f + 1) * 200) \div (n + 1)) \in 0 .. 100
        BY <2>1, ScoreInRange
    <2> QED
        BY <1>1, <2>1, <2>2 DEF ErrorScore
<1>2. CASE n # 0
    <2>1. /\ (f + 1) * 200 \in Int /\ f * 200 \in Int /\ n + 1 \in Nat \ {0} /\ n + 1 # 0
          /\ n \in Nat \ {0}
        BY <1>2
    <2>2. (f * 200) * (n + 1) <= ((f + 1) * 200) * n
        BY Z3
    <2>3. clamp(100 - ((f + 1) * 200) \div (n + 1)) <= clamp(100 - (f * 200) \div n)
        BY <2>1, <2>2, ScoreFalls
    <2> QED
        BY <1>2, <2>1, <2>3 DEF ErrorScore
<1> QED
    BY <1>1, <1>2

\* A success does not lower it.
LEMMA SuccessRaises ==
    ASSUME NEW n \in Nat, NEW f \in 0 .. n
    PROVE  ErrorScore(f, n) <= ErrorScore(f, n + 1)
<1>1. CASE n = 0
    <2>1. f = 0 /\ n + 1 = 1 /\ (f * 200) \div (n + 1) = 0
        BY <1>1
    <2> QED
        BY <1>1, <2>1 DEF ErrorScore, clamp
<1>2. CASE n # 0
    <2>1. f * 200 \in Int /\ n + 1 \in Nat \ {0} /\ n + 1 # 0 /\ n \in Nat \ {0}
        BY <1>2
    <2>2. (f * 200) * n <= (f * 200) * (n + 1)
        BY Z3
    <2>3. clamp(100 - (f * 200) \div n) <= clamp(100 - (f * 200) \div (n + 1))
        BY <2>1, <2>2, ScoreFalls
    <2> QED
        BY <1>2, <2>1, <2>3 DEF ErrorScore
<1> QED
    BY <1>1, <1>2

\* A wait of at least the average does not raise the score of the queue.
LEMMA WaitLowers ==
    ASSUME NEW n \in Nat, NEW t \in Nat, NEW w \in Nat, t <= w * n
    PROVE  QueueScore(t + w, n + 1) <= QueueScore(t, n)
<1>0. t + w - 10 * (n + 1) \in Int /\ 10 * (n + 1) \in Nat \ {0} /\ n + 1 # 0
    OBVIOUS
<1>1. CASE n = 0
    <2>1. clamp(100 - (t + w - 10 * (n + 1)) \div (10 * (n + 1))) \in 0 .. 100
        BY <1>0, ScoreInRange
    <2> QED
        BY <1>0, <1>1, <2>1 DEF QueueScore
<1>2. CASE n # 0
    <2>1. t - 10 * n \in Int /\ 10 * n \in Nat \ {0}
        BY <1>2
    <2>2. (t - 10 * n) * (10 * (n + 1)) <= (t + w - 10 * (n + 1)) * (10 * n)
        <3>1. (t - 10 * n) * (10 * (n + 1)) = 10 * (t * n) + 10 * t - 100 * (n * (n + 1))
            BY Z3
        <3>2. (t + w - 10 * (n + 1)) * (10 * n) = 10 * (t * n) + 10 * (w * n) - 100 * (n * (n + 1))
            BY Z3
        <3>3. t * n \in Int /\ w * n \in Int /\ n * (n + 1) \in Int
            OBVIOUS
        <3> QED
            BY <3>1, <3>2, <3>3
    <2>3. clamp(100 - (t + w - 10 * (n + 1)) \div (10 * (n + 1))) <= clamp(100 - (t - 10 * n) \div (10 * n))
        BY <1>0, <2>1, <2>2, ScoreFalls
    <2> QED
        BY <1>0, <1>2, <2>3 DEF QueueScore
<1> QED
    BY <1>1, <1>2

\* A restart does not raise the score of the uptime.
LEMMA RestartLowersUptime ==
    ASSUME NEW n \in Nat, NEW u \in Nat \ {0}
    PROVE  UptimeScore(n + 1, u) <= UptimeScore(n, u)
<1> DEFINE a == n * 3600 * 20
           b == (n + 1) * 3600 * 20
<1>1. a \in Int /\ b \in Int /\ a <= b
    OBVIOUS
<1>2. /\ UptimeScore(n, u) = IF u < 10 THEN 95 ELSE clamp(100 - a \div u)
      /\ UptimeScore(n + 1, u) = IF u < 10 THEN 95 ELSE clamp(100 - b \div u)
    BY Zenon DEF UptimeScore
<1> HIDE DEF a, b
<1>3. a * u <= b * u
    BY <1>1, ProductMonotone
<1>4. clamp(100 - b \div u) <= clamp(100 - a \div u)
    BY <1>1, <1>3, ScoreFalls
<1> QED
    BY <1>2, <1>4

\* Nor does time lower it.
LEMMA TimeRaisesUptime ==
    ASSUME NEW n \in Nat, NEW u \in Nat \ {0}, NEW v \in Nat \ {0}, 10 <= u, u <= v
    PROVE  UptimeScore(n, u) <= UptimeScore(n, v)
<1> DEFINE a == n * 3600 * 20
<1>1. a \in Nat
    OBVIOUS
<1>2. /\ UptimeScore(n, u) = IF u < 10 THEN 95 ELSE clamp(100 - a \div u)
      /\ UptimeScore(n, v) = IF v < 10 THEN 95 ELSE clamp(100 - a \div v)
    BY Zenon DEF UptimeScore
<1> HIDE DEF a
<1>3. a * u <= a * v
    BY <1>1, Z3
<1>4. a \in Int
    BY <1>1
<1>5. clamp(100 - a \div u) <= clamp(100 - a \div v)
    BY <1>3, <1>4, ScoreFalls
<1> QED
    BY <1>2, <1>5

\* More restarts, and more recent ones, do not raise their score.
LEMMA RecentLowers ==
    ASSUME NEW n \in Nat, NEW m \in Nat, n <= m, NEW u \in Nat, NEW r \in Nat, NEW q \in Nat, r <= q
    PROVE  RestartScore(m, u, q) <= RestartScore(n, u, r)
<1>1. /\ 100 - m * 10 \in Int /\ 100 - n * 10 \in Int /\ 100 - m * 10 <= 100 - n * 10
      /\ 100 - q * 10 \in Int /\ 100 - r * 10 \in Int /\ 100 - q * 10 <= 100 - r * 10
    OBVIOUS
<1>2. clamp(100 - m * 10) <= clamp(100 - n * 10) /\ clamp(100 - q * 10) <= clamp(100 - r * 10)
    BY <1>1, ClampMonotone
<1>3. clamp(100 - m * 10) \in 0 .. 100 /\ clamp(100 - q * 10) \in 0 .. 100
    BY <1>1, ClampInRange
<1> QED
    BY <1>2, <1>3 DEF RestartScore

\* After the first ten seconds only the recent restarts matter.
LEMMA OlderRaises ==
    ASSUME NEW n \in Nat, NEW u \in Nat, NEW v \in Nat, 10 <= u, u <= v, NEW r \in Nat, NEW q \in Nat, q <= r
    PROVE  RestartScore(n, u, r) <= RestartScore(n, v, q)
<1>1. 100 - q * 10 \in Int /\ 100 - r * 10 \in Int /\ 100 - r * 10 <= 100 - q * 10
    OBVIOUS
<1>2. clamp(100 - r * 10) <= clamp(100 - q * 10)
    BY <1>1, ClampMonotone
<1>3. ~ (u < 10) /\ ~ (v < 10)
    OBVIOUS
<1> QED
    BY <1>2, <1>3 DEF RestartScore

\* One request more that took at least as long as any is no smaller at any place.
LEMMA LongestComesLast ==
    ASSUME NEW s \in Seq(Nat), NEW x \in Nat, \A i \in DOMAIN s : s[i] <= x,
           NEW t \in Seq(Nat), t = Append(s, x), NEW k \in 1 .. Len(s)
    PROVE  sorted(s)[k] <= sorted(t)[k]
<1> DEFINE v == sorted(s)[k]
           w == sorted(t)[k]
<1>1. /\ Len(s) \in Nat /\ Len(t) = Len(s) + 1 /\ DOMAIN s = 1 .. Len(s) /\ DOMAIN t = 1 .. Len(s) + 1
      /\ t[Len(s) + 1] = x /\ \A i \in 1 .. Len(s) : t[i] = s[i] /\ s[i] \in Nat
    OBVIOUS
<1>2. v \in Nat /\ v \in AtLeast(s, k) /\ \A y \in AtLeast(s, k) : v <= y
    BY SortedElement
<1>3. k \in 1 .. Len(t)
    BY <1>1
<1>4. w \in Nat /\ w \in AtLeast(t, k)
    BY <1>3, SortedElement
<1> HIDE DEF v, w
<1>5. v <= x
    BY <1>1, <1>2 DEF AtLeast, Range
<1>6. CASE w < x
    <2>1. NoGreater(t, w) = NoGreater(s, w)
        <3>1. ASSUME NEW i \in NoGreater(t, w) PROVE i \in NoGreater(s, w)
            BY <1>1, <1>4, <1>6, <3>1 DEF NoGreater
        <3>2. ASSUME NEW i \in NoGreater(s, w) PROVE i \in NoGreater(t, w)
            BY <1>1, <3>2 DEF NoGreater
        <3> QED
            BY <3>1, <3>2
    <2>2. w \in Range(s)
        <3>1. PICK i \in DOMAIN t : t[i] = w
            BY <1>4 DEF AtLeast, Range
        <3>2. i \in 1 .. Len(s)
            BY <1>1, <1>4, <1>6, <3>1
        <3> QED
            BY <1>1, <3>1, <3>2 DEF Range
    <2>3. w \in AtLeast(s, k)
        BY <1>4, <2>1, <2>2 DEF AtLeast
    <2> QED
        BY <1>2, <2>3 DEF v, w
<1>7. CASE ~ (w < x)
    BY <1>2, <1>4, <1>5, <1>7 DEF v, w
<1> QED
    BY <1>6, <1>7

\* The percentile of what is recorded is a number.
LEMMA PercentileIsInt ==
    ASSUME NEW s \in Seq(Nat), s # <<>>
    PROVE  percentile(sorted(s), 95) \in Int
<1> DEFINE to == sorted(s)
           n == Len(s)
<1>1. 95 \in 0 .. 100
    OBVIOUS
<1>2. Ascends(to) /\ Len(to) = n /\ n \in Nat \ {0}
    BY SortedIsAscending
<1>3. percentile(to, 95) = ValueAt(to, 95 * (Len(to) - 1))
    BY <1>1, PercentileIsValue
<1> HIDE DEF to, n
<1>4. 95 * (n - 1) \in Nat /\ 95 * (n - 1) <= 100 * (n - 1)
    BY <1>2
<1>5. percentile(to, 95) \in Int
    BY <1>2, <1>3, <1>4, ValueBetween
<1> QED
    BY <1>5 DEF to

\* A longest request does not lower the percentile.
LEMMA LongestRaisesPercentile ==
    ASSUME NEW s \in Seq(Nat), s # <<>>, NEW x \in Nat, \A i \in DOMAIN s : s[i] <= x,
           NEW t \in Seq(Nat), t = Append(s, x)
    PROVE  percentile(sorted(s), 95) <= percentile(sorted(t), 95)
<1>1. Len(s) \in Nat /\ Len(t) = Len(s) + 1 /\ t # <<>> /\ 95 \in 0 .. 100
    OBVIOUS
<1> DEFINE from == sorted(s)
           to == sorted(t)
           n == Len(s)
           p == percentile(from, 95)
           q == percentile(to, 95)
<1>2. p \in Int /\ q \in Int
    BY <1>1, PercentileIsInt
<1>3. Ascends(to) /\ Len(to) = n + 1 /\ n + 1 \in Nat \ {0}
    BY <1>1, SortedIsAscending
<1>4. Ascends(from) /\ Len(from) = n /\ n \in Nat \ {0}
    BY SortedIsAscending
<1>5. \A k \in 1 .. n : from[k] <= to[k]
    BY LongestComesLast
<1>6. p = ValueAt(from, 95 * (Len(from) - 1)) /\ q = ValueAt(to, 95 * (Len(to) - 1))
    BY <1>1, PercentileIsValue
<1>7. p <= q => percentile(sorted(s), 95) <= percentile(sorted(t), 95)
    OBVIOUS
<1> HIDE DEF from, to, n, p, q
<1>8. 95 * ((n + 1) - 1) \in Nat /\ 95 * ((n + 1) - 1) <= 100 * ((n + 1) - 1)
    BY <1>3
<1>9. /\ 95 * (n - 1) \in Nat /\ 95 * (n - 1) <= 100 * (n - 1)
      /\ 95 * (n - 1) <= 95 * ((n + 1) - 1) /\ n <= n + 1
    BY <1>4
<1>10. ValueAt(from, 95 * (n - 1)) <= ValueAt(to, 95 * (n - 1))
    BY <1>3, <1>5, <1>4, <1>9, LargerElements
<1>11. ValueAt(to, 95 * (n - 1)) <= ValueAt(to, 95 * ((n + 1) - 1))
    BY <1>3, <1>8, <1>9, HigherRank
<1>12. ValueAt(to, 95 * (n - 1)) \in Int
    <2>1. 95 * (n - 1) <= 100 * (Len(to) - 1)
        BY <1>3, <1>4
    <2> QED
        BY <1>3, <1>9, <2>1, ValueBetween
<1> QED
    BY <1>2, <1>3, <1>4, <1>6, <1>7, <1>10, <1>11, <1>12

\* It does not raise the score of the latency.
LEMMA LongRequestLowers ==
    ASSUME NEW s \in Seq(Nat), NEW x \in Nat, \A i \in DOMAIN s : s[i] <= x,
           NEW t \in Seq(Nat), t = Append(s, x)
    PROVE  LatencyScore(t) <= LatencyScore(s)
<1>1. t # <<>> /\ Slope \in Nat \ {0}
    BY DEF Slope
<1>2. Above(t) \in Int
    <2>1. percentile(sorted(t), 95) \in Int
        BY <1>1, PercentileIsInt
    <2>2. \A p \in Int : p - 10000 \in Int
        OBVIOUS
    <2> QED
        BY <2>1, <2>2 DEF Above
<1>3. LatencyScore(t) = clamp(100 - Above(t) \div Slope)
    BY <1>1 DEF LatencyScore
<1>4. CASE s = <<>>
    <2>1. LatencyScore(s) = 100
        BY <1>4 DEF LatencyScore
    <2>2. clamp(100 - Above(t) \div Slope) \in 0 .. 100
        BY <1>1, <1>2, ScoreInRange
    <2>3. LatencyScore(t) \in 0 .. 100
        BY Zenon, <1>3, <2>2
    <2>4. \A y \in 0 .. 100 : y <= 100
        OBVIOUS
    <2>5. LatencyScore(t) <= 100
        BY <2>3, <2>4
    <2> QED
        BY <2>1, <2>5
<1>5. CASE s # <<>>
    <2>1. LatencyScore(s) = clamp(100 - Above(s) \div Slope)
        BY <1>5 DEF LatencyScore
    <2>2. Above(s) \in Int /\ Above(s) <= Above(t)
        <3>1. percentile(sorted(s), 95) \in Int /\ percentile(sorted(t), 95) \in Int
            BY <1>1, <1>5, PercentileIsInt
        <3>2. percentile(sorted(s), 95) <= percentile(sorted(t), 95)
            BY <1>5, LongestRaisesPercentile
        <3>3. \A p, q \in Int : p - 10000 \in Int /\ (p <= q => p - 10000 <= q - 10000)
            OBVIOUS
        <3> QED
            BY <3>1, <3>2, <3>3 DEF Above
    <2>3. Above(s) * Slope <= Above(t) * Slope
        BY <1>1, <1>2, <2>2, ProductMonotone
    <2>4. clamp(100 - Above(t) \div Slope) <= clamp(100 - Above(s) \div Slope)
        BY <1>1, <1>2, <2>2, <2>3, ScoreFalls
    <2> QED
        BY <1>3, <2>1, <2>4
<1> QED
    BY <1>4, <1>5

\* What is recorded, and that the collector's scores are these.
ScoresAre ==
    /\ latencies \in Seq(Nat) /\ Len(latencies) \in Nat /\ requestsFailed \in 0 .. Len(latencies)
    /\ queueWaits \in Seq(Nat) /\ Len(queueWaits) \in Nat
    /\ restartTimes \in Seq(Nat) /\ Len(restartTimes) \in Nat
    /\ uptime \in Nat \ {0}
    /\ calculateErrorScore = ErrorScore(requestsFailed, Len(latencies))
    /\ calculateLatencyScore = LatencyScore(latencies)
    /\ calculateQueueScore = QueueScore(total(queueWaits), Len(queueWaits))
    /\ calculateUptimeScore = UptimeScore(Len(restartTimes), uptime)
    /\ calculateRestartScore = RestartScore(Len(restartTimes), uptime, Cardinality(recentRestarts))

\* They are.
LEMMA ScoresAreThese == CollectorTypeOK => ScoresAre
<1> SUFFICES ASSUME CollectorTypeOK PROVE ScoresAre
    OBVIOUS
<1>0. queueWaits \in Seq(Nat)
    BY Recorded
<1>1. calculateErrorScore = ErrorScore(requestsFailed, Len(latencies))
    BY DEF calculateErrorScore, ErrorScore, requestsTotal
<1>2. calculateLatencyScore = LatencyScore(latencies)
    BY DEF calculateLatencyScore, LatencyScore, Above, Slope
<1>3. calculateQueueScore = QueueScore(total(queueWaits), Len(queueWaits))
    <2>1. (queueWaits = <<>>) = (Len(queueWaits) = 0)
        BY <1>0
    <2> QED
        BY <2>1 DEF calculateQueueScore, QueueScore
<1>4. calculateUptimeScore = UptimeScore(Len(restartTimes), uptime)
    BY DEF calculateUptimeScore, UptimeScore, restartsTotal
<1>5. calculateRestartScore = RestartScore(Len(restartTimes), uptime, Cardinality(recentRestarts))
    BY DEF calculateRestartScore, RestartScore, restartsTotal
<1> QED
    BY <1>1, <1>2, <1>3, <1>4, <1>5, Recorded DEF ScoresAre

\* They are in the next state.
LEMMA NextScoresAreThese == CollectorTypeOK' => ScoresAre'
    BY ScoresAreThese, PTL

\* What the scores are computed from, before and after a step.
LEMMA ScoresNow ==
    ASSUME CollectorTypeOK, CollectorTypeOK'
    PROVE  /\ latencies \in Seq(Nat) /\ Len(latencies) \in Nat /\ requestsFailed \in 0 .. Len(latencies)
           /\ queueWaits \in Seq(Nat) /\ Len(queueWaits) \in Nat
           /\ restartTimes \in Seq(Nat) /\ Len(restartTimes) \in Nat
           /\ uptime \in Nat \ {0} /\ uptime' \in Nat \ {0}
           /\ calculateErrorScore = ErrorScore(requestsFailed, Len(latencies))
           /\ calculateErrorScore' = ErrorScore(requestsFailed', Len(latencies'))
           /\ calculateLatencyScore = LatencyScore(latencies)
           /\ calculateLatencyScore' = LatencyScore(latencies')
           /\ calculateQueueScore = QueueScore(total(queueWaits), Len(queueWaits))
           /\ calculateQueueScore' = QueueScore(total(queueWaits'), Len(queueWaits'))
           /\ calculateUptimeScore = UptimeScore(Len(restartTimes), uptime)
           /\ calculateUptimeScore' = UptimeScore(Len(restartTimes'), uptime')
           /\ calculateRestartScore = RestartScore(Len(restartTimes), uptime, Cardinality(recentRestarts))
           /\ calculateRestartScore' = RestartScore(Len(restartTimes'), uptime', Cardinality(recentRestarts'))
    BY ScoresAreThese, NextScoresAreThese DEF ScoresAre

\* Every score lies within its range.
LEMMA ErrorInRange ==
    ASSUME NEW f \in Nat, NEW n \in Nat
    PROVE  ErrorScore(f, n) \in 0 .. 100
<1>1. CASE n = 0
    BY <1>1 DEF ErrorScore
<1>2. CASE n # 0
    <2>1. f * 200 \in Int /\ n \in Nat \ {0}
        BY <1>2
    <2>2. clamp(100 - (f * 200) \div n) \in 0 .. 100
        BY <2>1, ScoreInRange
    <2> QED
        BY <1>2, <2>2 DEF ErrorScore
<1> QED
    BY <1>1, <1>2

\* The score of the queue.
LEMMA QueueInRange ==
    ASSUME NEW t \in Nat, NEW n \in Nat
    PROVE  QueueScore(t, n) \in 0 .. 100
<1>1. CASE n = 0
    BY <1>1 DEF QueueScore
<1>2. CASE n # 0
    <2>1. t - 10 * n \in Int /\ 10 * n \in Nat \ {0}
        BY <1>2
    <2>2. clamp(100 - (t - 10 * n) \div (10 * n)) \in 0 .. 100
        BY <2>1, ScoreInRange
    <2> QED
        BY <1>2, <2>2 DEF QueueScore
<1> QED
    BY <1>1, <1>2

\* The score of the uptime.
LEMMA UptimeInRange ==
    ASSUME NEW n \in Nat, NEW u \in Nat \ {0}
    PROVE  UptimeScore(n, u) \in 0 .. 100
<1> DEFINE a == n * 3600 * 20
<1>1. a \in Int
    OBVIOUS
<1>2. UptimeScore(n, u) = IF u < 10 THEN 95 ELSE clamp(100 - a \div u)
    BY Zenon DEF UptimeScore
<1> HIDE DEF a
<1>3. clamp(100 - a \div u) \in 0 .. 100
    BY <1>1, ScoreInRange
<1> QED
    BY <1>2, <1>3

\* The score of the restarts.
LEMMA RestartInRange ==
    ASSUME NEW n \in Nat, NEW u \in Nat, NEW r \in Nat
    PROVE  RestartScore(n, u, r) \in 0 .. 100
<1>1. 100 - n * 10 \in Int /\ 100 - r * 10 \in Int
    OBVIOUS
<1>2. clamp(100 - n * 10) \in 0 .. 100 /\ clamp(100 - r * 10) \in 0 .. 100
    BY <1>1, ClampInRange
<1> QED
    BY <1>2 DEF RestartScore

\* The score of the latency.
LEMMA LatencyInRange ==
    ASSUME NEW s \in Seq(Nat)
    PROVE  LatencyScore(s) \in 0 .. 100
<1>1. CASE s = <<>>
    BY <1>1 DEF LatencyScore
<1>2. CASE s # <<>>
    <2>1. percentile(sorted(s), 95) \in Int
        BY <1>2, PercentileIsInt
    <2>2. \A p \in Int : p - 10000 \in Int
        OBVIOUS
    <2>3. Above(s) \in Int /\ Slope \in Nat \ {0}
        BY <2>1, <2>2 DEF Above, Slope
    <2>4. clamp(100 - Above(s) \div Slope) \in 0 .. 100
        BY <2>3, ScoreInRange
    <2> QED
        BY Zenon, <1>2, <2>4 DEF LatencyScore
<1> QED
    BY <1>1, <1>2

\* The recent restarts are a number of them.
LEMMA RecentIsNumber ==
    ASSUME CollectorTypeOK
    PROVE  Cardinality(recentRestarts) \in Nat
<1>1. restartTimes \in Seq(Nat) /\ recentRestarts \in SUBSET DOMAIN restartTimes
    BY Recorded DEF recentRestarts
<1>2. IsFiniteSet(recentRestarts)
    BY <1>1, Places
<1> QED
    BY <1>2, FS_CardinalityType

\* They are in the next state.
LEMMA NextRecentIsNumber == CollectorTypeOK' => (Cardinality(recentRestarts) \in Nat)'
<1>1. CollectorTypeOK => Cardinality(recentRestarts) \in Nat
    BY RecentIsNumber
<1> QED
    BY <1>1, PTL

\* All scores are in range.
InRange ==
    /\ calculateErrorScore \in 0 .. 100 /\ calculateLatencyScore \in 0 .. 100
    /\ calculateQueueScore \in 0 .. 100 /\ calculateUptimeScore \in 0 .. 100
    /\ calculateRestartScore \in 0 .. 100

\* They always are.
LEMMA ScoresInRange == CollectorTypeOK => InRange
<1> SUFFICES ASSUME CollectorTypeOK PROVE InRange
    OBVIOUS
<1>1. ScoresAre
    BY ScoresAreThese
<1>2. requestsFailed \in Nat /\ total(queueWaits) \in Nat /\ Cardinality(recentRestarts) \in Nat
    BY <1>1, TotalType, RecentIsNumber DEF ScoresAre
<1>3. calculateErrorScore \in 0 .. 100
    BY <1>1, <1>2, ErrorInRange DEF ScoresAre
<1>4. calculateLatencyScore \in 0 .. 100
    BY <1>1, LatencyInRange DEF ScoresAre
<1>5. calculateQueueScore \in 0 .. 100
    BY <1>1, <1>2, QueueInRange DEF ScoresAre
<1>6. calculateUptimeScore \in 0 .. 100
    BY <1>1, UptimeInRange DEF ScoresAre
<1>7. calculateRestartScore \in 0 .. 100
    BY <1>1, <1>2, RestartInRange DEF ScoresAre
<1> QED
    BY <1>3, <1>4, <1>5, <1>6, <1>7 DEF InRange

\* A request moves the scores its way.
LEMMA RequestFollows ==
    ASSUME CollectorTypeOK, CollectorTypeOK', NEW ms \in Latencies, NEW success \in BOOLEAN,
           RecordRequest(ms, success)
    PROVE  ScoresFollow
<1>1. /\ ms \in Nat /\ latencies' = Append(latencies, ms) /\ Len(latencies') = Len(latencies) + 1
      /\ latencies' \in Seq(Nat) /\ Last(latencies') = ms
      /\ UNCHANGED <<queueWaits, restartTimes, clock>> /\ uptime' = uptime
    <2>1. ms \in Nat
        BY MetricsConstants
    <2>2. latencies \in Seq(Nat) /\ Len(latencies) \in Nat
        BY ScoresNow
    <2>3. latencies' = Append(latencies, ms) /\ UNCHANGED <<queueWaits, restartTimes, clock>>
        BY DEF RecordRequest
    <2>4. /\ Len(latencies') = Len(latencies) + 1 /\ latencies' \in Seq(Nat)
          /\ latencies'[Len(latencies) + 1] = ms
        BY <2>1, <2>2, <2>3
    <2> QED
        BY <2>1, <2>3, <2>4 DEF Last, uptime
<1>2. requestsFailed' = IF success THEN requestsFailed ELSE requestsFailed + 1
    BY DEF RecordRequest
<1>3. ASSUME ~success PROVE calculateErrorScore' <= calculateErrorScore
    BY <1>1, <1>2, <1>3, ScoresNow, FailureLowers
<1>4. ASSUME success PROVE calculateErrorScore' >= calculateErrorScore
    <2>1. ErrorScore(requestsFailed, Len(latencies)) <= ErrorScore(requestsFailed, Len(latencies) + 1)
        BY ScoresNow, SuccessRaises
    <2> QED
        BY <1>1, <1>2, <1>4, <2>1, ScoresNow
<1>5. ASSUME \A i \in DOMAIN latencies : latencies[i] <= ms
      PROVE  calculateLatencyScore' <= calculateLatencyScore
    BY <1>1, <1>5, ScoresNow, LongRequestLowers
<1>6. /\ requestsFailed' > requestsFailed => ~success
      /\ ~ (requestsFailed' > requestsFailed) => success
      /\ ~ (restartsTotal' > restartsTotal) /\ ~ (uptime' > uptime)
    BY <1>1, <1>2, ScoresNow DEF restartsTotal
<1> QED
    BY <1>1, <1>3, <1>4, <1>5, <1>6 DEF ScoresFollow

\* A wait moves that of the queue.
LEMMA WaitFollows ==
    ASSUME CollectorTypeOK, CollectorTypeOK', NEW ms \in Waits, RecordQueueWait(ms)
    PROVE  ScoresFollow
<1>1. /\ ms \in Nat /\ queueWaits' = Append(queueWaits, ms) /\ Len(queueWaits') = Len(queueWaits) + 1
      /\ Last(queueWaits') = ms
      /\ UNCHANGED <<latencies, requestsFailed, restartTimes, clock>> /\ uptime' = uptime
    <2>1. ms \in Nat
        BY MetricsConstants
    <2>2. queueWaits \in Seq(Nat) /\ Len(queueWaits) \in Nat
        BY ScoresNow
    <2>3. queueWaits' = Append(queueWaits, ms) /\ UNCHANGED <<latencies, requestsFailed, restartTimes, clock>>
        BY DEF RecordQueueWait
    <2>4. Len(queueWaits') = Len(queueWaits) + 1 /\ queueWaits'[Len(queueWaits) + 1] = ms
        BY <2>1, <2>2, <2>3
    <2> QED
        BY <2>1, <2>3, <2>4 DEF Last, uptime
<1>2. ASSUME \A i \in DOMAIN queueWaits : queueWaits[i] <= ms
      PROVE  calculateQueueScore' <= calculateQueueScore
    <2>1. queueWaits \in Seq(Nat) /\ total(queueWaits) \in Nat /\ total(queueWaits) <= ms * Len(queueWaits)
        BY <1>1, <1>2, ScoresNow, TotalType, TotalBound
    <2>2. total(queueWaits') = total(queueWaits) + ms
        BY <1>1, <2>1, TotalAppend
    <2>3. QueueScore(total(queueWaits) + ms, Len(queueWaits) + 1) <= QueueScore(total(queueWaits), Len(queueWaits))
        BY <1>1, <2>1, ScoresNow, WaitLowers
    <2> QED
        BY <1>1, <2>2, <2>3, ScoresNow
<1>3. /\ ~ (requestsFailed' > requestsFailed) /\ ~ (requestsTotal' > requestsTotal)
      /\ ~ (restartsTotal' > restartsTotal) /\ ~ (uptime' > uptime)
    BY <1>1, ScoresNow DEF restartsTotal, requestsTotal
<1> QED
    BY <1>1, <1>2, <1>3 DEF ScoresFollow

\* A restart moves those of the restarts and of the uptime.
LEMMA RestartFollows ==
    ASSUME CollectorTypeOK, CollectorTypeOK', RecordRestart
    PROVE  ScoresFollow
<1>1. /\ restartTimes' = Append(restartTimes, uptime) /\ Len(restartTimes') = Len(restartTimes) + 1
      /\ UNCHANGED <<latencies, requestsFailed, queueWaits, clock>> /\ uptime' = uptime
      /\ restartTimes' \in Seq(Nat)
    <2>1. restartTimes \in Seq(Nat) /\ Len(restartTimes) \in Nat /\ uptime \in Nat
        BY ScoresNow
    <2>2. restartTimes' = Append(restartTimes, uptime) /\ UNCHANGED <<latencies, requestsFailed, queueWaits, clock>>
        BY DEF RecordRestart
    <2> QED
        BY <2>1, <2>2 DEF uptime
<1>2. Cardinality(recentRestarts) <= Cardinality(recentRestarts')
    <2>1. recentRestarts \in SUBSET recentRestarts'
        <3>1. lookback' = lookback
            BY <1>1 DEF lookback
        <3>2. restartTimes \in Seq(Nat) /\ uptime \in Nat
            BY ScoresNow
        <3>3. \A i \in DOMAIN restartTimes : i \in DOMAIN restartTimes' /\ restartTimes'[i] = restartTimes[i]
            BY <1>1, <3>2
        <3> QED
            BY <1>1, <3>1, <3>3 DEF recentRestarts
    <2>2. recentRestarts' \in SUBSET DOMAIN restartTimes'
        BY DEF recentRestarts
    <2> QED
        BY <1>1, <2>1, <2>2, FewerPlaces
<1>3. Cardinality(recentRestarts) \in Nat /\ Cardinality(recentRestarts') \in Nat
    BY RecentIsNumber, NextRecentIsNumber
<1>4. RestartScore(Len(restartTimes) + 1, uptime, Cardinality(recentRestarts'))
          <= RestartScore(Len(restartTimes), uptime, Cardinality(recentRestarts))
    <2>1. Len(restartTimes) \in Nat /\ Len(restartTimes) + 1 \in Nat /\ Len(restartTimes) <= Len(restartTimes) + 1
        BY ScoresNow
    <2>2. uptime \in Nat
        BY ScoresNow
    <2> QED
        BY <1>2, <1>3, <2>1, <2>2, RecentLowers
<1>5. UptimeScore(Len(restartTimes) + 1, uptime) <= UptimeScore(Len(restartTimes), uptime)
    BY ScoresNow, RestartLowersUptime
<1>6. calculateRestartScore' <= calculateRestartScore /\ calculateUptimeScore' <= calculateUptimeScore
    BY <1>1, <1>4, <1>5, ScoresNow
<1>7. /\ ~ (requestsFailed' > requestsFailed) /\ ~ (requestsTotal' > requestsTotal) /\ ~ (uptime' > uptime)
    BY <1>1, ScoresNow DEF requestsTotal
<1> QED
    BY <1>1, <1>6, <1>7 DEF ScoresFollow

\* The window in which restarts are recent.
Window(u) == IF u < 3600 THEN u ELSE 3600

\* Its start does not go back.
LEMMA WindowAdvances ==
    ASSUME NEW u \in Nat, NEW v \in Nat, u <= v
    PROVE  u - Window(u) \in Int /\ v - Window(v) \in Int /\ u - Window(u) <= v - Window(v)
    BY DEF Window

\* After the first ten seconds time lowers no score.
LEMMA TimeFollows ==
    ASSUME CollectorTypeOK, CollectorTypeOK', Tick
    PROVE  ScoresFollow
<1>1. /\ UNCHANGED <<latencies, requestsFailed, queueWaits, restartTimes>>
      /\ uptime \in Nat \ {0} /\ uptime' \in Nat \ {0} /\ uptime <= uptime'
    <2>1. uptime < uptime'
        <3>1. clock \in DOMAIN Instants /\ clock' \in DOMAIN Instants /\ clock' = clock + 1
            BY DEF Tick, CollectorTypeOK
        <3>2. DOMAIN Instants = 1 .. Len(Instants) /\ Len(Instants) \in Nat
            BY MetricsConstants
        <3>3. clock < clock'
            BY <3>1, <3>2
        <3>4. Instants[clock] < Instants[clock']
            BY <3>1, <3>3, MetricsConstants
        <3> QED
            BY <3>4 DEF uptime
    <2> QED
        BY <2>1, ScoresNow DEF Tick, collector
<1>2. ASSUME uptime >= 10
      PROVE  calculateUptimeScore' >= calculateUptimeScore /\ calculateRestartScore' >= calculateRestartScore
    <2>1. UptimeScore(Len(restartTimes), uptime) <= UptimeScore(Len(restartTimes), uptime')
        <3>1. 10 <= uptime
            BY <1>1, <1>2
        <3> QED
            BY <1>1, <3>1, ScoresNow, TimeRaisesUptime
    <2>2. Cardinality(recentRestarts') <= Cardinality(recentRestarts)
        <3>1. recentRestarts' \in SUBSET recentRestarts
            <4>1. uptime - lookback \in Int /\ uptime' - lookback' \in Int /\ uptime - lookback <= uptime' - lookback'
                <5>1. uptime \in Nat /\ uptime' \in Nat /\ uptime <= uptime'
                    BY <1>1
                <5>2. lookback = Window(uptime) /\ lookback' = Window(uptime')
                    BY DEF lookback, Window
                <5> QED
                    BY <5>1, <5>2, WindowAdvances
            <4>2. restartTimes \in Seq(Nat)
                BY ScoresNow
            <4>3. ASSUME NEW a \in Int, NEW b \in Int, a <= b, NEW i \in DOMAIN restartTimes, restartTimes[i] > b
                  PROVE  restartTimes[i] > a
                <5>1. restartTimes[i] \in Nat
                    BY <4>2
                <5> QED
                    BY <4>3, <5>1
            <4> QED
                BY <1>1, <4>1, <4>3 DEF recentRestarts
        <3>2. restartTimes \in Seq(Nat) /\ recentRestarts \in SUBSET DOMAIN restartTimes
            BY ScoresNow DEF recentRestarts
        <3> QED
            BY <3>1, <3>2, FewerPlaces
    <2>3. RestartScore(Len(restartTimes), uptime, Cardinality(recentRestarts))
              <= RestartScore(Len(restartTimes), uptime', Cardinality(recentRestarts'))
        <3>1. 10 <= uptime
            BY <1>1, <1>2
        <3> QED
            BY <1>1, <2>2, <3>1, RecentIsNumber, NextRecentIsNumber, ScoresNow, OlderRaises
    <2> QED
        BY <1>1, <2>1, <2>3, ScoresNow
<1>3. /\ calculateErrorScore' = calculateErrorScore /\ calculateLatencyScore' = calculateLatencyScore
      /\ calculateQueueScore' = calculateQueueScore
    BY <1>1, ScoresNow
<1>4. /\ calculateErrorScore' >= calculateErrorScore /\ calculateLatencyScore' >= calculateLatencyScore
      /\ calculateQueueScore' >= calculateQueueScore
    BY <1>3, ScoresInRange DEF InRange
<1>5. /\ ~ (requestsFailed' > requestsFailed) /\ ~ (requestsTotal' > requestsTotal)
      /\ ~ (restartsTotal' > restartsTotal) /\ queueWaits' = queueWaits
    BY <1>1, ScoresNow DEF requestsTotal, restartsTotal
<1> QED
    BY <1>2, <1>4, <1>5 DEF ScoresFollow

\* A new collector, and a step that is none of the collector's, move no score.
LEMMA NothingFollows ==
    ASSUME CollectorTypeOK, CollectorTypeOK', RunAgain \/ UNCHANGED metricsVars
    PROVE  ScoresFollow
<1>1. CASE RunAgain
    <2>1. latencies' = <<>> /\ requestsFailed' = 0 /\ queueWaits' = <<>> /\ restartTimes' = <<>> /\ clock' = 1
        BY <1>1 DEF RunAgain
    <2>2. Len(<<>>) = 0
        OBVIOUS
    <2>3. uptime' <= uptime
        <3>1. clock \in DOMAIN Instants /\ DOMAIN Instants = 1 .. Len(Instants) /\ Len(Instants) \in Nat /\ 1 \in DOMAIN Instants
            BY MetricsConstants DEF CollectorTypeOK
        <3>2. clock = 1 \/ 1 < clock
            BY <3>1
        <3>3. Instants[1] = Instants[clock] \/ Instants[1] < Instants[clock]
            BY <3>1, <3>2, MetricsConstants
        <3>4. uptime = Instants[clock] /\ uptime' = Instants[1]
            BY <2>1 DEF uptime
        <3> QED
            BY <3>3, <3>4, ScoresNow
    <2>4. /\ ~ (requestsFailed' > requestsFailed) /\ ~ (requestsTotal' > requestsTotal)
          /\ ~ (restartsTotal' > restartsTotal) /\ ~ (uptime' > uptime)
        BY <2>1, <2>2, <2>3, ScoresNow DEF requestsTotal, restartsTotal
    <2> QED
        BY <2>1, <2>4 DEF ScoresFollow
<1>2. CASE UNCHANGED metricsVars
    <2>1. /\ UNCHANGED <<latencies, requestsFailed, queueWaits, restartTimes, clock>>
          /\ uptime' = uptime
        BY <1>2 DEF metricsVars, collector, uptime
    <2>2. /\ ~ (requestsFailed' > requestsFailed) /\ ~ (requestsTotal' > requestsTotal)
          /\ ~ (restartsTotal' > restartsTotal) /\ ~ (uptime' > uptime)
        BY <2>1, ScoresNow DEF requestsTotal, restartsTotal
    <2> QED
        BY <2>1, <2>2 DEF ScoresFollow
<1> QED
    BY <1>1, <1>2

\* A score moves the way of what has happened, whatever the durations and however
\* often it happens (collector.go:164-260).
THEOREM ScoresMoveWithEvents == TuneSpec => ScoresFollowEvents
<1>1. ASSUME CollectorTypeOK, CollectorTypeOK', [TuneNext]_tuneVars PROVE ScoresFollow
    <2>1. CASE \E ms \in Latencies, success \in BOOLEAN : RecordRequest(ms, success)
        BY <1>1, <2>1, RequestFollows
    <2>2. CASE \E ms \in Waits : RecordQueueWait(ms)
        BY <1>1, <2>2, WaitFollows
    <2>3. CASE RecordRestart
        BY <1>1, <2>3, RestartFollows
    <2>4. CASE Tick
        BY <1>1, <2>4, TimeFollows
    <2>5. CASE RunAgain \/ UNCHANGED metricsVars
        BY <1>1, <2>5, NothingFollows
    <2> QED
        BY <1>1, <2>1, <2>2, <2>3, <2>4, <2>5 DEF TuneNext, Collect, tuneVars, SaveState, NewData, Tune
<1> QED
    BY <1>1, CollectorTyping, PTL DEF TuneSpec, ScoresFollowEvents

\* The weighted score of scores in range is in range.
LEMMA WeightedInRange ==
    ASSUME NEW a \in 0 .. 100, NEW b \in 0 .. 100, NEW c \in 0 .. 100, NEW d \in 0 .. 100, NEW e \in 0 .. 100
    PROVE  (30 * a + 25 * b + 20 * c + 15 * d + 10 * e) \div 100 \in 0 .. 100
<1> DEFINE w == 30 * a + 25 * b + 20 * c + 15 * d + 10 * e
<1>1. w \in Nat /\ 0 <= w /\ w <= 10000
    OBVIOUS
<1>2. \A v \in Nat : v <= 10000 => v \div 100 \in 0 .. 100
    OBVIOUS
<1> QED
    BY <1>1, <1>2

\* Types hold throughout, and every score lies within its range, whatever is recorded
\* and however the files are written (collector.go:282-290).
THEOREM TuneTyping == TuneSpec => []TuneTypeOK
<1>1. CollectorTypeOK /\ FilesTypeOK /\ [TuneNext]_tuneVars => FilesTypeOK'
    BY FilesStep
<1>2. TuneInit => FilesTypeOK
    BY TuningConstants DEF TuneInit, FilesTypeOK
<1>3. ASSUME CollectorTypeOK, FilesTypeOK PROVE TuneTypeOK
    <2> DEFINE h == HealthBreakdown
    <2>1. InRange
        BY <1>3, ScoresInRange
    <2>2. /\ DOMAIN h = {"uptime", "errors", "latency", "queue", "restarts"}
          /\ h.uptime = calculateUptimeScore /\ h.errors = calculateErrorScore
          /\ h.latency = calculateLatencyScore /\ h.queue = calculateQueueScore
          /\ h.restarts = calculateRestartScore
        BY DEF HealthBreakdown
    <2> HIDE DEF h
    <2>3. /\ h.uptime \in 0 .. 100 /\ h.errors \in 0 .. 100 /\ h.latency \in 0 .. 100
          /\ h.queue \in 0 .. 100 /\ h.restarts \in 0 .. 100
        BY <2>1, <2>2 DEF InRange
    <2>4. \A c \in DOMAIN h : h[c] \in 0 .. 100
        BY <2>2, <2>3
    <2>5. WeightedScore(h) \in 0 .. 100
        BY <2>3, WeightedInRange DEF WeightedScore
    <2> QED
        BY <1>3, <2>4, <2>5 DEF TuneTypeOK, h
<1> QED
    BY <1>1, <1>2, <1>3, CollectorTyping, PTL DEF TuneSpec
==============================================================================
