-------------------------- MODULE ClientConfigProofs --------------------------
(***************************************************************************)
(* The client's own configuration is never lost: for any number of         *)
(* commands at the same time, dying wherever they are, as long as none     *)
(* dies over the backup and uninit runs alone.                             *)
(***************************************************************************)
EXTENDS ClientConfig, TLAPS

\* What a command relies on that has come this far.
CommandInv(c) ==
    /\ pc[c] \in {"backing", "backupWriting"} => data[c] = "own"
    /\ pc[c] \in {"backupWriting", "rewriting", "confWriting", "fetching", "removing"} =>
        bak # "missing"
    /\ pc[c] = "confWriting" => conf # "own"
    /\ kind[c] = "init" /\ pc[c] # "reading" /\ data[c] = "routed" => bak # "missing"
    /\ kind[c] = "uninit" =>
        /\ \A d \in Commands \ {c} : pc[d] = "idle"
        /\ pc[c] \in {"rewriting", "confWriting", "removing"} => data[c] = "own"
        /\ pc[c] = "confWriting" => conf = "empty"
        /\ pc[c] = "removing" => conf = "own"

\* Without a backup the client's file is its own; a backup that is not whole is being
\* written, by a command that holds the original.
FilesInv ==
    /\ bak \in {"missing", "empty", "own"}
    /\ conf \in {"own", "routed", "empty"}
    /\ unlinked = {}
    /\ bak = "missing" => conf = "own"
    /\ bak = "empty" => \E c \in Commands : At(c, "backupWriting")

KeptInv == ~spoiled /\ ~mixed => FilesInv /\ \A c \in Commands : CommandInv(c)

-------------------------------------------------------------------------------
\* Every step keeps the types of the history variables.
LEMMA HistoryStep ==
    ASSUME TypeOK, [Next]_vars PROVE HistoryTypes'
<1> USE DEF TypeOK, HistoryTypes
<1> DEFINE Marks(c) == spoiled' \in BOOLEAN /\ overlapped' \in BOOLEAN /\ mixed' \in BOOLEAN
<1>1. ASSUME NEW c \in Commands, NEW k, Begins(c, k) PROVE Marks(c)
    BY <1>1, Zenon DEF Begins
<1>2. ASSUME NEW c \in Commands, NEW s \in Servers, AddLoads(c, s) \/ RemoveLoads(c, s)
      PROVE  HistoryTypes'
    BY <1>1, <1>2 DEF AddLoads, RemoveLoads, Loads
<1>3. ASSUME NEW c \in Commands, NEW k, RewriteLoads(c, k) PROVE HistoryTypes'
    BY <1>1, <1>3 DEF RewriteLoads, Loads
<1>4. ASSUME NEW c \in Commands, InitLoads(c) \/ UninitFindsBackup(c) PROVE HistoryTypes'
    BY <1>1, <1>4 DEF InitLoads, UninitFindsBackup, Loads
<1>5. ASSUME NEW c \in Commands, Middle(c) PROVE HistoryTypes'
    BY <1>5 DEF Middle, ReadsClient, ReadFails, InitRefused, InitGoesOn, FetchesBackup,
       FetchFails, history
<1>6. ASSUME NEW c \in Commands, SaveWrites(c) PROVE HistoryTypes'
    BY <1>6 DEF SaveWrites, history
<1>7. ASSUME NEW c \in Commands, Writing(c), ~SaveWrites(c) PROVE HistoryTypes'
    BY <1>7 DEF Writing, SaveOpens, BackupOpens, BackupWrites, ConfOpens, InitWrites,
       UninitWrites, RemovesBackup, history
<1>8. ASSUME NEW c \in Commands, Dies(c) PROVE HistoryTypes'
  <2>1. spoiled' \in BOOLEAN
    BY <1>8, Zenon DEF Dies
  <2> QED
    BY <1>8, <2>1 DEF Dies
<1>9. CASE UNCHANGED vars
    BY <1>9 DEF vars, history
<1> QED
    BY <1>2, <1>3, <1>4, <1>5, <1>6, <1>7, <1>8, <1>9 DEF Next, Beginning, Rest

\* What Begins says of the command and of the files.
LEMMA BeginsOnly ==
    ASSUME NEW c, NEW k, Begins(c, k)
    PROVE  /\ pc[c] = "idle" /\ kind' = [kind EXCEPT ![c] = k]
           /\ UNCHANGED <<regFile, registry, conf, bak, data, unlinked, spoiled>>
    BY DEF Begins, At, files

\* A command begins at a place where its kind may be.
LEMMA BeginsPlaced ==
    ASSUME TypeOK, NEW c \in Commands, NEW k \in Kinds, NEW l, Begins(c, k), Goes(c, l),
           \E e \in Entries : mine' = [mine EXCEPT ![c] = e],
           \/ l = "saving" /\ k \notin {"init", "uninit"}
           \/ l = "reading" /\ k = "init"
           \/ l = "fetching" /\ k = "uninit"
    PROVE  FileTypes' /\ CommandTypes' /\ \A d \in Commands : Placed(d)'
<1>1. FileTypes /\ CommandTypes /\ \A d \in Commands : Placed(d)
    BY DEF TypeOK
<1>2. /\ pc[c] = "idle" /\ kind' = [kind EXCEPT ![c] = k]
      /\ UNCHANGED <<regFile, registry, conf, bak, data, unlinked>>
    BY BeginsOnly
<1>3. FileTypes'
    BY <1>1, <1>2 DEF FileTypes
<1>4. CommandTypes'
  <2>1. pc' \in [Commands -> {"idle", "saving", "writing", "rewriting", "confWriting"}
                            \cup InitAt \cup UninitAt]
    BY <1>1 DEF CommandTypes, Goes, InitAt, UninitAt
  <2>2. kind' \in [Commands -> Kinds \cup {"none"}] /\ data' = data /\ mine' \in [Commands -> Entries]
    BY <1>1, <1>2 DEF CommandTypes
  <2>3. unlinked' \subseteq {d \in Commands : pc'[d] = "backupWriting"}
    BY <1>1, <1>2 DEF CommandTypes, Goes, At
  <2> QED
    BY <1>1, <2>1, <2>2, <2>3 DEF CommandTypes, At
<1>5. ASSUME NEW d \in Commands PROVE Placed(d)'
    BY <1>1, <1>2 DEF Placed, CommandTypes, Goes, InitAt, UninitAt, Kinds
<1> QED
    BY <1>3, <1>4, <1>5

\* A step that ends a command leaves all commands in their places.
LEMMA EndsPlaced ==
    ASSUME TypeOK, NEW c \in Commands, Ends(c), unlinked' \subseteq unlinked \ {c}
    PROVE  CommandTypes' /\ \A d \in Commands : Placed(d)'
    BY DEF TypeOK, CommandTypes, Placed, Ends, Goes, At, Entries, NoEntries, Torn, InitAt, UninitAt,
       Kinds

\* So does one that moves a command to a place where its kind may be.
LEMMA GoesPlaced ==
    ASSUME TypeOK, NEW c \in Commands, NEW l, Goes(c, l), Keeps(c),
           unlinked' \subseteq unlinked \ {c},
           \/ l = "writing" /\ kind[c] # "none" /\ pc[c] # "reading"
           \/ l \in {"checking", "backing", "backupWriting"} /\ kind[c] = "init" /\ pc[c] # "reading"
           \/ l \in {"rewriting", "confWriting"} /\ kind[c] \in {"init", "uninit"}
                /\ data[c] # "missing" /\ pc[c] # "reading"
           \/ l = "removing" /\ kind[c] = "uninit"
    PROVE  CommandTypes' /\ \A d \in Commands : Placed(d)'
    BY DEF TypeOK, CommandTypes, Placed, Goes, Keeps, At, Torn, InitAt, UninitAt, Kinds

\* Every step keeps the types.
LEMMA TypingStep == TypeOK /\ [Next]_vars => TypeOK'
<1> SUFFICES ASSUME TypeOK, [Next]_vars PROVE TypeOK'
    OBVIOUS
<1>h. HistoryTypes'
    BY HistoryStep
<1> SUFFICES FileTypes' /\ CommandTypes' /\ \A d \in Commands : Placed(d)'
    BY <1>h DEF TypeOK
<1>t. FileTypes /\ CommandTypes /\ \A d \in Commands : Placed(d)
    BY DEF TypeOK
<1> USE <1>t DEF At
<1>1. ASSUME NEW c \in Commands, NEW s \in Servers, AddLoads(c, s) \/ RemoveLoads(c, s)
      PROVE  FileTypes' /\ CommandTypes' /\ \A d \in Commands : Placed(d)'
  <2>1. PICK k \in {"add", "remove"} : Begins(c, k) /\ Goes(c, "saving")
    BY <1>1 DEF AddLoads, RemoveLoads, Loads
  <2>2. \E e \in Entries : mine' = [mine EXCEPT ![c] = e]
    BY <1>1 DEF AddLoads, RemoveLoads, FileTypes, Entries
  <2> QED
    BY <2>1, <2>2, BeginsPlaced DEF Kinds
<1>2. ASSUME NEW c \in Commands, NEW k \in {"edit", "tune"}, RewriteLoads(c, k)
      PROVE  FileTypes' /\ CommandTypes' /\ \A d \in Commands : Placed(d)'
    BY <1>2, BeginsPlaced DEF RewriteLoads, Loads, FileTypes, Kinds
<1>3. ASSUME NEW c \in Commands, InitLoads(c) \/ UninitFindsBackup(c)
      PROVE  FileTypes' /\ CommandTypes' /\ \A d \in Commands : Placed(d)'
  <2>1. CASE InitLoads(c)
    BY <2>1, BeginsPlaced DEF InitLoads, Loads, FileTypes, Kinds
  <2>2. CASE UninitFindsBackup(c)
    <3>1. \E e \in Entries : mine' = [mine EXCEPT ![c] = e]
      BY <2>2 DEF UninitFindsBackup, CommandTypes
    <3> QED
      BY <2>2, <3>1, BeginsPlaced DEF UninitFindsBackup, Kinds
  <2> QED
    BY <1>3, <2>1, <2>2
<1>4. ASSUME NEW c \in Commands, ReadsClient(c)
      PROVE  FileTypes' /\ CommandTypes' /\ \A d \in Commands : Placed(d)'
  <2>1. Merged(mine[c]) \in Entries
    BY DEF Merged, Entries, CommandTypes
  <2>2. AfterMerge(mine[c]) \in {"checking", "saving"}
    BY DEF AfterMerge
  <2> QED
    BY <1>4, <2>1, <2>2 DEF ReadsClient, files, FileTypes, CommandTypes, Placed, Torn, InitAt,
       UninitAt, Kinds, Goes
<1>5. ASSUME NEW c \in Commands, ReadFails(c) \/ InitRefused(c) \/ FetchFails(c)
      PROVE  FileTypes' /\ CommandTypes' /\ \A d \in Commands : Placed(d)'
  <2>1. Ends(c) /\ unlinked' \subseteq unlinked \ {c}
    BY <1>5 DEF ReadFails, InitRefused, FetchFails, CommandTypes
  <2>2. FileTypes'
    BY <1>5 DEF ReadFails, InitRefused, FetchFails, files, FileTypes
  <2> QED
    BY <2>1, <2>2, EndsPlaced
<1>6. ASSUME NEW c \in Commands, InitGoesOn(c)
      PROVE  FileTypes' /\ CommandTypes' /\ \A d \in Commands : Placed(d)'
  <2>1. Goes(c, "backing") /\ Keeps(c) /\ unlinked' \subseteq unlinked \ {c}
    BY <1>6 DEF InitGoesOn, CommandTypes
  <2>2. kind[c] = "init" /\ pc[c] # "reading"
    BY <1>6 DEF InitGoesOn, Placed, InitAt
  <2>3. FileTypes'
    BY <1>6 DEF InitGoesOn, files, FileTypes
  <2> QED
    BY <2>1, <2>2, <2>3, GoesPlaced
<1>7. ASSUME NEW c \in Commands, FetchesBackup(c)
      PROVE  FileTypes' /\ CommandTypes' /\ \A d \in Commands : Placed(d)'
    BY <1>7 DEF FetchesBackup, files, FileTypes, CommandTypes, Placed, Torn, InitAt, UninitAt,
       Kinds, Goes
<1>8. ASSUME NEW c \in Commands, SaveOpens(c) \/ BackupOpens(c) \/ ConfOpens(c)
      PROVE  FileTypes' /\ CommandTypes' /\ \A d \in Commands : Placed(d)'
  <2>1. FileTypes'
    BY <1>8 DEF SaveOpens, BackupOpens, ConfOpens, FileTypes, Torn, Entries, NoEntries
  <2>2. unlinked' \subseteq unlinked \ {c}
    BY <1>8 DEF SaveOpens, BackupOpens, ConfOpens, CommandTypes
  <2>3. CASE SaveOpens(c)
    BY <2>3, <2>1, <2>2, GoesPlaced DEF SaveOpens, Placed
  <2>4. CASE BackupOpens(c)
    BY <2>4, <2>1, <2>2, GoesPlaced DEF BackupOpens, Placed, InitAt
  <2>5. CASE ConfOpens(c)
    BY <2>5, <2>1, <2>2, GoesPlaced DEF ConfOpens, Placed
  <2> QED
    BY <1>8, <2>3, <2>4, <2>5
<1>9. ASSUME NEW c \in Commands, SaveWrites(c)
      PROVE  FileTypes' /\ CommandTypes' /\ \A d \in Commands : Placed(d)'
  <2>1. FileTypes'
    BY <1>9 DEF SaveWrites, FileTypes, CommandTypes, Torn, Entries, NoEntries
  <2>2. unlinked' \subseteq unlinked \ {c}
    BY <1>9 DEF SaveWrites, CommandTypes
  <2>3. CASE kind[c] = "init"
    BY <2>3, <1>9, <2>1, <2>2, GoesPlaced DEF SaveWrites, Saved
  <2>4. CASE kind[c] # "init"
    BY <2>4, <1>9, <2>1, <2>2, EndsPlaced DEF SaveWrites, Saved
  <2> QED
    BY <2>3, <2>4
<1>10. ASSUME NEW c \in Commands, BackupWrites(c)
      PROVE  FileTypes' /\ CommandTypes' /\ \A d \in Commands : Placed(d)'
  <2>1. kind[c] = "init" /\ data[c] \in {"own", "routed"} /\ pc[c] # "reading"
    BY <1>10 DEF BackupWrites, Placed, InitAt
  <2>2. FileTypes'
    BY <1>10, <2>1 DEF BackupWrites, FileTypes, Written, Torn
  <2>3. Goes(c, "rewriting") /\ Keeps(c) /\ unlinked' \subseteq unlinked \ {c}
    BY <1>10 DEF BackupWrites
  <2> QED
    BY <2>1, <2>2, <2>3, GoesPlaced
<1>11. ASSUME NEW c \in Commands, InitWrites(c)
      PROVE  FileTypes' /\ CommandTypes' /\ \A d \in Commands : Placed(d)'
  <2>1. FileTypes'
    BY <1>11 DEF InitWrites, FileTypes, Written, Torn
  <2>2. Ends(c) /\ unlinked' \subseteq unlinked \ {c}
    BY <1>11 DEF InitWrites, CommandTypes
  <2> QED
    BY <2>1, <2>2, EndsPlaced
<1>12. ASSUME NEW c \in Commands, UninitWrites(c)
      PROVE  FileTypes' /\ CommandTypes' /\ \A d \in Commands : Placed(d)'
  <2>1. data[c] \in {"own", "routed"} \cup Torn
    BY <1>12 DEF UninitWrites, CommandTypes, Placed
  <2>2. FileTypes'
    BY <1>12, <2>1 DEF UninitWrites, FileTypes, Written, Torn
  <2>3. Goes(c, "removing") /\ Keeps(c) /\ kind[c] = "uninit" /\ unlinked' \subseteq unlinked \ {c}
    BY <1>12 DEF UninitWrites, CommandTypes
  <2> QED
    BY <2>2, <2>3, GoesPlaced
<1>13. ASSUME NEW c \in Commands, RemovesBackup(c)
      PROVE  FileTypes' /\ CommandTypes' /\ \A d \in Commands : Placed(d)'
    BY <1>13 DEF RemovesBackup, Ends, FileTypes, CommandTypes, Placed, Entries, NoEntries, Torn,
       InitAt, UninitAt, Kinds, Goes
<1>14. ASSUME NEW c \in Commands, Dies(c)
      PROVE  FileTypes' /\ CommandTypes' /\ \A d \in Commands : Placed(d)'
  <2>1. Ends(c) /\ unlinked' \subseteq unlinked \ {c}
    BY <1>14 DEF Dies
  <2>2. FileTypes'
    BY <1>14 DEF Dies, files, FileTypes
  <2> QED
    BY <2>1, <2>2, EndsPlaced
<1>15. CASE UNCHANGED vars
    BY <1>15 DEF vars, files, FileTypes, CommandTypes, Placed
<1> QED
    BY <1>1, <1>2, <1>3, <1>4, <1>5, <1>6, <1>7, <1>8, <1>9, <1>10, <1>11, <1>12, <1>13, <1>14, <1>15
    DEF Next, Beginning, Middle, Writing, Rest

\* Nothing is known, nothing runs and the client has its own configuration.
LEMMA KeptInvAtInit == Init => TypeOK /\ KeptInv
<1> SUFFICES ASSUME Init PROVE TypeOK /\ KeptInv
    OBVIOUS
<1>1. FileTypes /\ CommandTypes /\ HistoryTypes
    BY DEF Init, FileTypes, CommandTypes, HistoryTypes, Entries, NoEntries, Torn, Kinds
<1>2. \A c \in Commands : Placed(c)
    BY DEF Init, Placed, InitAt, UninitAt
<1>3. KeptInv
    BY DEF Init, KeptInv, FilesInv, CommandInv
<1> QED
    BY <1>1, <1>2, <1>3 DEF TypeOK

\* The types of every variable, for any number of commands and servers: ClientConfig's
\* type invariant (generic.go:13-92, uninit.go:27-59).
THEOREM ClientTyping == Spec => []TypeOK
<1> QED
    BY KeptInvAtInit, TypingStep, PTL DEF Spec

-------------------------------------------------------------------------------
\* What spoils the guarantee stays.
LEMMA FlagsStay == [Next]_vars => (spoiled => spoiled') /\ (mixed => mixed')
<1> SUFFICES ASSUME [Next]_vars PROVE (spoiled => spoiled') /\ (mixed => mixed')
    OBVIOUS
<1>1. ASSUME NEW c \in Commands, NEW k, Begins(c, k)
      PROVE  (spoiled => spoiled') /\ (mixed => mixed')
    BY <1>1, Zenon DEF Begins
<1>2. ASSUME NEW c \in Commands, Beginning(c) PROVE (spoiled => spoiled') /\ (mixed => mixed')
    BY <1>1, <1>2 DEF Beginning, AddLoads, RemoveLoads, RewriteLoads, InitLoads,
       UninitFindsBackup, Loads
<1>3. ASSUME NEW c \in Commands, Middle(c) PROVE (spoiled => spoiled') /\ (mixed => mixed')
    BY <1>3 DEF Middle, ReadsClient, ReadFails, InitRefused, InitGoesOn, FetchesBackup,
       FetchFails, history
<1>4. ASSUME NEW c \in Commands, Writing(c) PROVE (spoiled => spoiled') /\ (mixed => mixed')
    BY <1>4 DEF Writing, SaveOpens, SaveWrites, BackupOpens, BackupWrites, ConfOpens, InitWrites,
       UninitWrites, RemovesBackup, history
<1>5. ASSUME NEW c \in Commands, Dies(c) PROVE (spoiled => spoiled') /\ (mixed => mixed')
    BY <1>5, Zenon DEF Dies
<1>6. CASE UNCHANGED vars
    BY <1>6 DEF vars, history
<1> QED
    BY <1>2, <1>3, <1>4, <1>5, <1>6 DEF Next, Rest

\* No command that begins finds an uninit at work, and an uninit finds nobody.
LEMMA BeginsAlone ==
    ASSUME NEW c \in Commands, NEW k, Begins(c, k), ~mixed',
           NEW d \in Commands, d # c, pc[d] # "idle"
    PROVE  k # "uninit" /\ kind[d] # "uninit"
<1>1. d \in Others(c)
    BY DEF Others
<1>2. ~ \E e \in Others(c) : "uninit" \in {k, kind[e]}
    BY Zenon DEF Begins
<1> QED
    BY <1>1, <1>2

\* A command that ends where it may, and touches no file.
LEMMA EndsQuietly ==
    ASSUME TypeOK, FilesInv, \A d \in Commands : CommandInv(d),
           NEW c \in Commands, pc[c] # "backupWriting", Ends(c),
           UNCHANGED <<conf, bak>>, unlinked' = unlinked \ {c}
    PROVE  FilesInv' /\ \A d \in Commands : CommandInv(d)'
    BY DEF TypeOK, CommandTypes, FilesInv, CommandInv, Ends, Goes, At

\* Every step keeps the files and the commands in step, as long as nothing spoils it.
LEMMA KeptInvStep == TypeOK /\ KeptInv /\ [Next]_vars => KeptInv'
<1> SUFFICES ASSUME TypeOK, KeptInv, [Next]_vars, ~spoiled', ~mixed'
             PROVE  FilesInv' /\ \A d \in Commands : CommandInv(d)'
    BY DEF KeptInv
<1>f. FilesInv /\ \A d \in Commands : CommandInv(d)
    BY FlagsStay DEF KeptInv
<1>t. /\ CommandTypes /\ FileTypes
      /\ \A d \in Commands : Placed(d)
    BY DEF TypeOK
<1> USE <1>f, <1>t DEF At
<1>1. ASSUME NEW c \in Commands, NEW k, Begins(c, k), k # "uninit",
             \/ Goes(c, "saving") /\ k # "init"
             \/ Goes(c, "reading") /\ k = "init"
      PROVE  FilesInv' /\ \A d \in Commands : CommandInv(d)'
  <2>1. /\ pc[c] = "idle" /\ kind' = [kind EXCEPT ![c] = k]
        /\ UNCHANGED <<conf, bak, data, unlinked>>
    BY <1>1, BeginsOnly
  <2>2. \A d \in Commands : d # c => kind[d] # "uninit"
    BY <1>1, BeginsAlone DEF Placed
  <2>3. FilesInv'
    BY <1>1, <2>1 DEF FilesInv, Goes, CommandTypes
  <2>4. ASSUME NEW d \in Commands PROVE CommandInv(d)'
    BY <1>1, <2>1, <2>2 DEF CommandInv, Goes, CommandTypes
  <2> QED
    BY <2>3, <2>4
<1>2. ASSUME NEW c \in Commands, UninitFindsBackup(c)
      PROVE  FilesInv' /\ \A d \in Commands : CommandInv(d)'
  <2>1. /\ pc[c] = "idle" /\ kind' = [kind EXCEPT ![c] = "uninit"]
        /\ UNCHANGED <<conf, bak, data, unlinked>>
    BY <1>2, BeginsOnly DEF UninitFindsBackup
  <2>2. \A d \in Commands \ {c} : pc[d] = "idle"
    BY <1>2, BeginsAlone DEF UninitFindsBackup
  <2>3. Goes(c, "fetching") /\ bak # "missing"
    BY <1>2 DEF UninitFindsBackup
  <2>4. FilesInv'
    BY <2>1, <2>3 DEF FilesInv, Goes, CommandTypes
  <2>5. ASSUME NEW d \in Commands PROVE CommandInv(d)'
    BY <2>1, <2>2, <2>3 DEF CommandInv, Goes, CommandTypes, Placed
  <2> QED
    BY <2>4, <2>5
<1>3. ASSUME NEW c \in Commands, ReadsClient(c)
      PROVE  FilesInv' /\ \A d \in Commands : CommandInv(d)'
  <2>1. AfterMerge(mine[c]) \in {"checking", "saving"}
    BY DEF AfterMerge
  <2> DEFINE l == AfterMerge(mine[c])
  <2> HIDE DEF l
  <2>2. /\ pc[c] = "reading" /\ kind[c] = "init" /\ pc' = [pc EXCEPT ![c] = l]
        /\ data' = [data EXCEPT ![c] = conf] /\ conf \notin Torn
        /\ UNCHANGED <<conf, bak, kind, unlinked>>
    BY <1>3 DEF ReadsClient, files, Goes, Placed, InitAt, l
  <2>3. l \in {"checking", "saving"}
    BY <2>1 DEF l
  <2>4. FilesInv'
    BY <2>2, <2>3 DEF FilesInv, CommandTypes
  <2>5. ASSUME NEW d \in Commands PROVE CommandInv(d)'
    BY <2>2, <2>3 DEF FilesInv, CommandInv, CommandTypes
  <2> QED
    BY <2>4, <2>5
<1>4. ASSUME NEW c \in Commands, ReadFails(c) \/ InitRefused(c) \/ FetchFails(c)
      PROVE  FilesInv' /\ \A d \in Commands : CommandInv(d)'
    BY <1>4, EndsQuietly DEF ReadFails, InitRefused, FetchFails, files, FilesInv
<1>5. ASSUME NEW c \in Commands, InitGoesOn(c)
      PROVE  FilesInv' /\ \A d \in Commands : CommandInv(d)'
  <2>1. /\ pc[c] = "checking" /\ kind[c] = "init" /\ Goes(c, "backing") /\ bak = "missing"
        /\ UNCHANGED <<conf, bak, kind, data, unlinked>>
    BY <1>5 DEF InitGoesOn, Refuses, Keeps, files, Placed, InitAt
  <2>2. data[c] = "own"
    BY <2>1 DEF CommandInv, Placed
  <2>3. FilesInv'
    BY <2>1 DEF FilesInv, Goes, CommandTypes
  <2>4. ASSUME NEW d \in Commands PROVE CommandInv(d)'
    BY <2>1, <2>2 DEF CommandInv, Goes, CommandTypes
  <2> QED
    BY <2>3, <2>4
<1>6. ASSUME NEW c \in Commands, FetchesBackup(c)
      PROVE  FilesInv' /\ \A d \in Commands : CommandInv(d)'
  <2>1. /\ pc[c] = "fetching" /\ kind[c] = "uninit" /\ Goes(c, "rewriting") /\ bak # "missing"
        /\ data' = [data EXCEPT ![c] = bak]
        /\ UNCHANGED <<conf, bak, kind, unlinked>>
    BY <1>6 DEF FetchesBackup, files, Placed, UninitAt
  <2>2. bak = "own"
    BY <2>1 DEF FilesInv, CommandInv
  <2>3. FilesInv'
    BY <2>1, <2>2 DEF FilesInv
  <2>4. ASSUME NEW d \in Commands PROVE CommandInv(d)'
    BY <2>1, <2>2 DEF CommandInv, Goes, CommandTypes
  <2> QED
    BY <2>3, <2>4
<1>7. ASSUME NEW c \in Commands, SaveOpens(c)
      PROVE  FilesInv' /\ \A d \in Commands : CommandInv(d)'
    BY <1>7 DEF SaveOpens, Keeps, Goes, FilesInv, CommandInv, CommandTypes
<1>8. ASSUME NEW c \in Commands, SaveWrites(c)
      PROVE  FilesInv' /\ \A d \in Commands : CommandInv(d)'
  <2>1. CASE kind[c] = "init"
    BY <1>8, <2>1 DEF SaveWrites, Saved, Keeps, Goes, FilesInv, CommandInv, CommandTypes
  <2>2. CASE kind[c] # "init"
    <3>1. Ends(c) /\ UNCHANGED <<conf, bak>> /\ unlinked' = unlinked \ {c} /\ pc[c] = "writing"
      BY <1>8, <2>2 DEF SaveWrites, Saved, FilesInv
    <3> QED
      BY <3>1, EndsQuietly
  <2> QED
    BY <2>1, <2>2
<1>9. ASSUME NEW c \in Commands, BackupOpens(c)
      PROVE  FilesInv' /\ \A d \in Commands : CommandInv(d)'
  <2>1. /\ pc[c] = "backing" /\ kind[c] = "init" /\ Goes(c, "backupWriting") /\ bak' = "empty"
        /\ UNCHANGED <<conf, kind, data, unlinked>>
    BY <1>9 DEF BackupOpens, Keeps, Placed, InitAt
  <2>2. FilesInv'
    BY <2>1 DEF FilesInv, Goes, CommandTypes
  <2>3. ASSUME NEW d \in Commands PROVE CommandInv(d)'
    BY <2>1 DEF CommandInv, Goes, CommandTypes
  <2> QED
    BY <2>2, <2>3
<1>10. ASSUME NEW c \in Commands, BackupWrites(c)
      PROVE  FilesInv' /\ \A d \in Commands : CommandInv(d)'
  <2>1. /\ pc[c] = "backupWriting" /\ kind[c] = "init" /\ data[c] = "own" /\ Goes(c, "rewriting")
        /\ UNCHANGED <<conf, kind, data>> /\ unlinked' = {} /\ c \notin unlinked
        /\ bak' \in Written(bak, "own")
    BY <1>10 DEF BackupWrites, Keeps, Placed, InitAt, CommandInv, FilesInv
  <2>2. bak' = "own"
    BY <2>1 DEF FilesInv, CommandInv, Written
  <2>3. FilesInv'
    BY <2>1, <2>2 DEF FilesInv
  <2>4. ASSUME NEW d \in Commands PROVE CommandInv(d)'
    BY <2>1, <2>2 DEF CommandInv, Goes, CommandTypes
  <2> QED
    BY <2>3, <2>4
<1>11. ASSUME NEW c \in Commands, ConfOpens(c)
      PROVE  FilesInv' /\ \A d \in Commands : CommandInv(d)'
  <2>1. /\ pc[c] = "rewriting" /\ Goes(c, "confWriting") /\ conf' = "empty" /\ bak # "missing"
        /\ UNCHANGED <<bak, kind, data, unlinked>>
    BY <1>11 DEF ConfOpens, Keeps, CommandInv
  <2>2. FilesInv'
    BY <2>1 DEF FilesInv, Goes, CommandTypes
  <2>3. ASSUME NEW d \in Commands PROVE CommandInv(d)'
    BY <2>1 DEF CommandInv, Goes, CommandTypes
  <2> QED
    BY <2>2, <2>3
<1>12. ASSUME NEW c \in Commands, InitWrites(c)
      PROVE  FilesInv' /\ \A d \in Commands : CommandInv(d)'
  <2>1. /\ pc[c] = "confWriting" /\ kind[c] = "init" /\ Ends(c) /\ conf # "own" /\ bak # "missing"
        /\ conf' \in Written(conf, "routed")
        /\ UNCHANGED <<bak, unlinked>>
    BY <1>12 DEF InitWrites, CommandInv
  <2>2. conf' = "routed"
    BY <2>1 DEF FilesInv, Written
  <2>3. FilesInv'
    BY <2>1, <2>2 DEF FilesInv, Ends, Goes, CommandTypes
  <2>4. ASSUME NEW d \in Commands PROVE CommandInv(d)'
    BY <2>1, <2>2 DEF CommandInv, Ends, Goes, CommandTypes, Placed
  <2> QED
    BY <2>3, <2>4
<1>13. ASSUME NEW c \in Commands, UninitWrites(c)
      PROVE  FilesInv' /\ \A d \in Commands : CommandInv(d)'
  <2>1. /\ pc[c] = "confWriting" /\ kind[c] = "uninit" /\ Goes(c, "removing") /\ conf = "empty"
        /\ data[c] = "own" /\ bak # "missing" /\ conf' \in Written(conf, data[c])
        /\ UNCHANGED <<bak, kind, data, unlinked>>
        /\ \A d \in Commands \ {c} : pc[d] = "idle"
    BY <1>13 DEF UninitWrites, Keeps, CommandInv
  <2>2. conf' = "own"
    BY <2>1 DEF Written
  <2>3. FilesInv'
    BY <2>1, <2>2 DEF FilesInv, Goes, CommandTypes
  <2>4. ASSUME NEW d \in Commands PROVE CommandInv(d)'
    BY <2>1, <2>2 DEF CommandInv, Goes, CommandTypes, Placed
  <2> QED
    BY <2>3, <2>4
<1>14. ASSUME NEW c \in Commands, RemovesBackup(c)
      PROVE  FilesInv' /\ \A d \in Commands : CommandInv(d)'
  <2>1. /\ pc[c] = "removing" /\ kind[c] = "uninit" /\ Ends(c) /\ conf = "own" /\ bak' = "missing"
        /\ UNCHANGED conf /\ \A d \in Commands \ {c} : pc[d] = "idle"
        /\ unlinked' = unlinked \cup {d \in Commands : pc[d] = "backupWriting"}
    BY <1>14 DEF RemovesBackup, CommandInv, Placed, UninitAt
  <2>2. FilesInv'
    BY <2>1 DEF FilesInv
  <2>3. ASSUME NEW d \in Commands PROVE CommandInv(d)'
    BY <2>1 DEF CommandInv, Ends, Goes, CommandTypes, Placed
  <2> QED
    BY <2>2, <2>3
<1>15. ASSUME NEW c \in Commands, Dies(c)
      PROVE  FilesInv' /\ \A d \in Commands : CommandInv(d)'
  <2>1. pc[c] # "backupWriting"
    BY <1>15, Zenon DEF Dies
  <2>2. Ends(c) /\ UNCHANGED <<conf, bak>> /\ unlinked' = unlinked \ {c}
    BY <1>15 DEF Dies, files
  <2> QED
    BY <2>1, <2>2, EndsQuietly
<1>16. CASE UNCHANGED vars
    BY <1>16 DEF vars, files, FilesInv, CommandInv
<1>17. ASSUME NEW c \in Commands, Beginning(c), ~UninitFindsBackup(c)
       PROVE  FilesInv' /\ \A d \in Commands : CommandInv(d)'
  <2>1. CASE InitLoads(c)
    BY <2>1, <1>1 DEF InitLoads, Loads
  <2>2. CASE \E s \in Servers : AddLoads(c, s)
    BY <2>2, <1>1 DEF AddLoads, Loads
  <2>3. CASE \E s \in Servers : RemoveLoads(c, s)
    BY <2>3, <1>1 DEF RemoveLoads, Loads
  <2>4. CASE \E k \in {"edit", "tune"} : RewriteLoads(c, k)
    BY <2>4, <1>1 DEF RewriteLoads, Loads
  <2> QED
    BY <1>17, <2>1, <2>2, <2>3, <2>4 DEF Beginning
<1> QED
    BY <1>2, <1>3, <1>4, <1>5, <1>6, <1>7, <1>8, <1>9, <1>10, <1>11, <1>12, <1>13, <1>14, <1>15,
       <1>16, <1>17
    DEF Next, Beginning, Middle, Writing, Rest

\* For any number of commands and servers, the client's own configuration survives every
\* interleaving and every death but those named: ClientConfig's OriginalIsKept
\* (generic.go:69-90, uninit.go:36-55).
THEOREM OriginalIsAlwaysKept == Spec => []OriginalIsKept
<1>1. TypeOK /\ KeptInv => OriginalIsKept
    BY DEF KeptInv, OriginalIsKept, OnItsWay, FilesInv, CommandInv, At
<1> QED
    BY <1>1, KeptInvAtInit, TypingStep, KeptInvStep, PTL DEF Spec
-------------------------------------------------------------------------------
(***************************************************************************)
(* One command at a time: RoutedIsRegistered and SavedIsKept.  Neither is  *)
(* inductive: what a command will save was loaded, and merged with the     *)
(* client's file, some steps before, and a client is routed by a command   *)
(* that has saved the registry before.                                     *)
(***************************************************************************)
Alone == \A c, d \in Commands : pc[c] # "idle" /\ pc[d] # "idle" => c = d

\* What entries say of the servers of the client, and of those that were saved.
Serving(entries) == \A s \in ClientServers \ removed : entries[s] = "own"
Unrouted(entries) == \A s \in ClientServers \ removed : entries[s] # "hydra"
Holding(entries) == \A s \in promised : entries[s] # "none"

RegistryServes == regFile # "missing" /\ (regFile = "whole" => Serving(registry))

SerialFiles ==
    /\ unlinked = {}
    /\ bak \in {"missing", "empty", "own"} /\ conf \in {"own", "routed", "empty"}
    /\ bak = "missing" => conf # "routed"
    /\ conf = "routed" => RegistryServes
    /\ Unrouted(registry)
    /\ regFile = "whole" => Holding(registry)
    /\ regFile = "missing" => promised = {}

SerialCommand(c) ==
    /\ pc[c] = "reading" => mine[c] = registry /\ Parses
    /\ pc[c] \in {"saving", "writing"} =>
        /\ Unrouted(mine[c]) /\ Holding(mine[c])
        /\ kind[c] = "init" \/ conf = "routed" => Serving(mine[c])
    /\ pc[c] = "writing" => regFile = "empty"
    /\ kind[c] = "init" =>
        /\ pc[c] \notin {"reading", "saving", "writing"} => RegistryServes
        /\ pc[c] # "reading" => data[c] = "own" \/ bak # "missing"
        /\ pc[c] \in {"backing", "backupWriting"} => data[c] = "own"
        /\ pc[c] = "backupWriting" => bak = "empty"
    /\ pc[c] \in {"rewriting", "confWriting"} =>
        /\ bak # "missing"
        /\ kind[c] = "uninit" => data[c] \in {"own", "empty"}
    /\ pc[c] = "confWriting" => conf = "empty"
    /\ pc[c] = "removing" => conf # "routed"

SerialInv == ~overlapped => Alone /\ SerialFiles /\ \A c \in Commands : SerialCommand(c)
\* Two commands that have run at the same time have done so for ever.
LEMMA OverlapStays == [Next]_vars => (overlapped => overlapped')
<1> SUFFICES ASSUME [Next]_vars, overlapped PROVE overlapped'
    OBVIOUS
<1>1. ASSUME NEW c \in Commands, NEW k, Begins(c, k) PROVE overlapped'
    BY <1>1, Zenon DEF Begins
<1>2. ASSUME NEW c \in Commands, Beginning(c) PROVE overlapped'
    BY <1>1, <1>2 DEF Beginning, AddLoads, RemoveLoads, RewriteLoads, InitLoads,
       UninitFindsBackup, Loads
<1>3. ASSUME NEW c \in Commands, Middle(c) \/ Writing(c) \/ Dies(c) PROVE overlapped'
    BY <1>3 DEF Middle, ReadsClient, ReadFails, InitRefused, InitGoesOn, FetchesBackup,
       FetchFails, Writing, SaveOpens, SaveWrites, BackupOpens, BackupWrites, ConfOpens,
       InitWrites, UninitWrites, RemovesBackup, Dies, history
<1>4. CASE UNCHANGED vars
    BY <1>4 DEF vars, history
<1> QED
    BY <1>2, <1>3, <1>4 DEF Next, Rest

\* While c works and the others are idle, only the files and c's own part can be wrong.
LEMMA SerialByOne ==
    ASSUME TypeOK, NEW c \in Commands, SerialFiles', SerialCommand(c)',
           \A d \in Commands \ {c} : pc[d] = "idle" /\ pc'[d] = "idle" /\ kind'[d] = kind[d]
    PROVE  Alone' /\ SerialFiles' /\ \A d \in Commands : SerialCommand(d)'
<1>1. ASSUME NEW d \in Commands, d # c PROVE SerialCommand(d)'
    BY <1>1 DEF TypeOK, Placed, SerialCommand
<1> QED
    BY <1>1 DEF Alone

\* A command that ends and leaves the files alone leaves them right.
LEMMA SerialEnds ==
    ASSUME TypeOK, SerialFiles, NEW c \in Commands, Ends(c), UNCHANGED <<files, removed, promised>>,
           unlinked' = unlinked \ {c}
    PROVE  SerialFiles' /\ SerialCommand(c)'
    BY DEF TypeOK, CommandTypes, SerialFiles, SerialCommand, Ends, Goes, files, RegistryServes,
       Serving, Unrouted, Holding

\* Every step of one command at a time keeps the files and what the command relies on.
LEMMA SerialStep == TypeOK /\ SerialInv /\ [Next]_vars => SerialInv'
<1> SUFFICES ASSUME TypeOK, SerialInv, [Next]_vars, ~overlapped'
             PROVE  Alone' /\ SerialFiles' /\ \A d \in Commands : SerialCommand(d)'
    BY DEF SerialInv
<1>f. Alone /\ SerialFiles /\ \A d \in Commands : SerialCommand(d)
    BY OverlapStays DEF SerialInv
<1>t. FileTypes /\ CommandTypes /\ HistoryTypes /\ \A d \in Commands : Placed(d)
    BY DEF TypeOK
<1> DEFINE Own(c) == \A d \in Commands \ {c} : pc[d] = "idle" /\ pc'[d] = "idle" /\ kind'[d] = kind[d]
<1>a. ASSUME NEW c \in Commands, NEW k, NEW l, Begins(c, k), Goes(c, l)
      PROVE  Own(c) /\ pc[c] = "idle" /\ pc'[c] = l /\ kind'[c] = k
             /\ UNCHANGED <<regFile, registry, conf, bak, data, unlinked>>
  <2>1. \A d \in Commands \ {c} : pc[d] = "idle"
    BY <1>a, Zenon DEF Begins, Others
  <2> QED
    BY <1>a, <1>t, <2>1, BeginsOnly DEF CommandTypes, Goes
<1>b. ASSUME NEW c \in Commands, pc[c] # "idle", NEW l, Goes(c, l),
             kind' = kind \/ kind' = [kind EXCEPT ![c] = "none"]
      PROVE  Own(c) /\ pc'[c] = l
    BY <1>b, <1>f, <1>t DEF Alone, CommandTypes, Goes
<1> HIDE DEF Own
<1>c. ASSUME NEW c \in Commands, Own(c), SerialFiles', SerialCommand(c)'
      PROVE  Alone' /\ SerialFiles' /\ \A d \in Commands : SerialCommand(d)'
    BY <1>c, SerialByOne DEF Own
<1>e. ASSUME NEW c \in Commands, pc[c] # "idle", Ends(c), UNCHANGED <<files, removed, promised>>,
             unlinked' = unlinked \ {c}
      PROVE  Alone' /\ SerialFiles' /\ \A d \in Commands : SerialCommand(d)'
  <2>1. Own(c)
    BY <1>e, <1>b DEF Ends
  <2> QED
    BY <1>e, <1>c, <1>f, <2>1, SerialEnds
<1>p. ASSUME Parses
      PROVE  Unrouted(registry) /\ Holding(registry) /\ (conf = "routed" => Serving(registry))
  <2>1. CASE regFile = "missing"
    BY <2>1, <1>f DEF SerialFiles, Holding, RegistryServes
  <2>2. CASE regFile = "whole"
    BY <2>2, <1>f DEF SerialFiles, RegistryServes
  <2> QED
    BY <1>p, <2>1, <2>2 DEF Parses
\* Beginnings
<1>1. ASSUME NEW c \in Commands, NEW s \in Servers, AddLoads(c, s)
      PROVE  Alone' /\ SerialFiles' /\ \A d \in Commands : SerialCommand(d)'
  <2>1. /\ Own(c) /\ pc'[c] = "saving" /\ kind'[c] = "add"
        /\ UNCHANGED <<regFile, registry, conf, bak, data, unlinked, removed, promised>>
        /\ mine'[c] = [registry EXCEPT ![s] = "own"] /\ Parses
    BY <1>1, <1>a, <1>t DEF AddLoads, Loads, CommandTypes
  <2>2. SerialFiles'
    BY <2>1, <1>f DEF SerialFiles, RegistryServes, Serving, Unrouted, Holding
  <2>3. Unrouted(mine[c])' /\ Holding(mine[c])' /\ (conf' = "routed" => Serving(mine[c])')
    BY <2>1, <1>p, <1>t DEF FileTypes, Entries, Serving, Unrouted, Holding
  <2>4. SerialCommand(c)'
    BY <2>1, <2>3 DEF SerialCommand
  <2> QED
    BY <2>1, <2>2, <2>4, <1>c
<1>2. ASSUME NEW c \in Commands, NEW s \in Servers, RemoveLoads(c, s)
      PROVE  Alone' /\ SerialFiles' /\ \A d \in Commands : SerialCommand(d)'
  <2>1. /\ Own(c) /\ pc'[c] = "saving" /\ kind'[c] = "remove"
        /\ UNCHANGED <<regFile, registry, conf, bak, data, unlinked>>
        /\ removed' = removed \cup {s} /\ promised' = promised \ {s}
        /\ mine'[c] = [registry EXCEPT ![s] = "none"] /\ Parses
    BY <1>2, <1>a, <1>t DEF RemoveLoads, Loads, CommandTypes
  <2>2. SerialFiles'
    BY <2>1, <1>f DEF SerialFiles, RegistryServes, Serving, Unrouted, Holding
  <2>3. Unrouted(mine[c])' /\ Holding(mine[c])' /\ (conf' = "routed" => Serving(mine[c])')
    BY <2>1, <1>p, <1>t DEF FileTypes, Entries, Serving, Unrouted, Holding
  <2>4. SerialCommand(c)'
    BY <2>1, <2>3 DEF SerialCommand
  <2> QED
    BY <2>1, <2>2, <2>4, <1>c
<1>3. ASSUME NEW c \in Commands, NEW k \in {"edit", "tune"}, RewriteLoads(c, k)
      PROVE  Alone' /\ SerialFiles' /\ \A d \in Commands : SerialCommand(d)'
  <2>1. /\ Own(c) /\ pc'[c] = "saving" /\ kind'[c] \in {"edit", "tune"}
        /\ UNCHANGED <<regFile, registry, conf, bak, data, unlinked, removed, promised>>
        /\ mine'[c] = registry /\ Parses
    BY <1>3, <1>a, <1>t DEF RewriteLoads, Loads, CommandTypes
  <2>2. SerialFiles'
    BY <2>1, <1>f DEF SerialFiles, RegistryServes, Serving, Unrouted, Holding
  <2>3. Unrouted(mine[c])' /\ Holding(mine[c])' /\ (conf' = "routed" => Serving(mine[c])')
    BY <2>1, <1>p DEF Serving, Unrouted, Holding
  <2>4. SerialCommand(c)'
    BY <2>1, <2>3 DEF SerialCommand
  <2> QED
    BY <2>1, <2>2, <2>4, <1>c
<1>4. ASSUME NEW c \in Commands, InitLoads(c)
      PROVE  Alone' /\ SerialFiles' /\ \A d \in Commands : SerialCommand(d)'
  <2>1. /\ Own(c) /\ pc'[c] = "reading"
        /\ UNCHANGED <<regFile, registry, conf, bak, data, unlinked, removed, promised>>
        /\ mine'[c] = registry /\ Parses
    BY <1>4, <1>a, <1>t DEF InitLoads, Loads, CommandTypes
  <2>2. SerialFiles'
    BY <2>1, <1>f DEF SerialFiles, RegistryServes, Serving, Unrouted, Holding
  <2>3. SerialCommand(c)'
    BY <2>1 DEF SerialCommand, Parses
  <2> QED
    BY <2>1, <2>2, <2>3, <1>c
<1>5. ASSUME NEW c \in Commands, UninitFindsBackup(c)
      PROVE  Alone' /\ SerialFiles' /\ \A d \in Commands : SerialCommand(d)'
  <2>1. /\ Own(c) /\ pc'[c] = "fetching" /\ kind'[c] = "uninit"
        /\ UNCHANGED <<regFile, registry, conf, bak, data, unlinked, removed, promised>>
    BY <1>5, <1>a DEF UninitFindsBackup
  <2>2. SerialFiles'
    BY <2>1, <1>f DEF SerialFiles, RegistryServes, Serving, Unrouted, Holding
  <2>3. SerialCommand(c)'
    BY <2>1 DEF SerialCommand
  <2> QED
    BY <2>1, <2>2, <2>3, <1>c
\* The middle of init and uninit
<1>6. ASSUME NEW c \in Commands, ReadsClient(c)
      PROVE  Alone' /\ SerialFiles' /\ \A d \in Commands : SerialCommand(d)'
  <2>1. /\ pc[c] = "reading" /\ kind[c] = "init" /\ mine[c] = registry /\ Parses
        /\ UNCHANGED <<regFile, registry, conf, bak, kind, unlinked, removed, promised>>
        /\ mine'[c] = Merged(registry) /\ data'[c] = conf /\ conf \in {"own", "routed"}
        /\ Goes(c, AfterMerge(registry))
    BY <1>6, <1>t, <1>f DEF ReadsClient, At, Placed, InitAt, files, history, SerialCommand,
       SerialFiles, Torn, CommandTypes
  <2>2. Own(c) /\ pc'[c] = AfterMerge(registry)
    BY <2>1, <1>b
  <2>3. SerialFiles'
    BY <2>1, <1>f DEF SerialFiles, RegistryServes, Serving, Unrouted, Holding
  <2>4. /\ Serving(Merged(registry)) /\ Unrouted(Merged(registry)) /\ Holding(Merged(registry))
    <3>1. registry \in [Servers -> {"none", "own", "hydra"}] /\ promised \subseteq Servers
      BY <1>t DEF FileTypes, Entries, HistoryTypes
    <3>2. Serving(Merged(registry))
      BY <3>1, <2>1, <1>p, ClientConstants DEF Merged, Serving, Unrouted, ClientConstants
    <3>3. Holding(Merged(registry))
      BY <3>1, <2>1, <1>p DEF Merged, Holding
    <3> QED
      BY <3>2, <3>3 DEF Serving, Unrouted
  <2>5. AfterMerge(registry) = "checking" => RegistryServes
    <3>1. ASSUME regFile = "missing" PROVE Merged(registry) # registry
      <4>1. PICK s \in ClientServers : s \in Servers
        BY ClientConstants DEF ClientConstants
      <4>2. registry[s] = "none"
        BY <3>1, <4>1, <1>t DEF FileTypes, NoEntries
      <4> QED
        BY <4>1, <4>2 DEF Merged
    <3> QED
      BY <3>1, <2>4 DEF AfterMerge, RegistryServes
  <2>6. AfterMerge(registry) \in {"checking", "saving"}
    BY DEF AfterMerge
  <2>7. SerialCommand(c)'
    BY <2>1, <2>2, <2>4, <2>5, <2>6, <1>f DEF SerialCommand, SerialFiles, RegistryServes, Serving,
       Unrouted, Holding
  <2> QED
    BY <2>2, <2>3, <2>7, <1>c
<1>7. ASSUME NEW c \in Commands, ReadFails(c) \/ InitRefused(c) \/ FetchFails(c)
      PROVE  Alone' /\ SerialFiles' /\ \A d \in Commands : SerialCommand(d)'
    BY <1>7, <1>e, <1>f DEF ReadFails, InitRefused, FetchFails, At, history, SerialFiles
<1>8. ASSUME NEW c \in Commands, InitGoesOn(c)
      PROVE  Alone' /\ SerialFiles' /\ \A d \in Commands : SerialCommand(d)'
  <2>1. /\ pc[c] = "checking" /\ kind[c] = "init" /\ bak = "missing" /\ Goes(c, "backing")
        /\ UNCHANGED <<regFile, registry, conf, bak, kind, mine, data, unlinked, removed, promised>>
    BY <1>8, <1>t DEF InitGoesOn, At, Keeps, Placed, InitAt, files, history, Refuses
  <2>2. Own(c) /\ pc'[c] = "backing"
    BY <2>1, <1>b
  <2>3. SerialFiles'
    BY <2>1, <1>f DEF SerialFiles, RegistryServes, Serving, Unrouted, Holding
  <2>4. SerialCommand(c)'
    BY <2>1, <2>2, <1>f DEF SerialCommand, RegistryServes, Serving
  <2> QED
    BY <2>2, <2>3, <2>4, <1>c
<1>9. ASSUME NEW c \in Commands, FetchesBackup(c)
      PROVE  Alone' /\ SerialFiles' /\ \A d \in Commands : SerialCommand(d)'
  <2>1. /\ pc[c] = "fetching" /\ kind[c] = "uninit" /\ bak # "missing" /\ Goes(c, "rewriting")
        /\ data'[c] = bak
        /\ UNCHANGED <<regFile, registry, conf, bak, kind, mine, unlinked, removed, promised>>
    BY <1>9, <1>t DEF FetchesBackup, At, Placed, UninitAt, files, history, CommandTypes
  <2>2. Own(c) /\ pc'[c] = "rewriting"
    BY <2>1, <1>b
  <2>3. SerialFiles'
    BY <2>1, <1>f DEF SerialFiles, RegistryServes, Serving, Unrouted, Holding
  <2>4. SerialCommand(c)'
    BY <2>1, <2>2, <1>f DEF SerialCommand, SerialFiles
  <2> QED
    BY <2>2, <2>3, <2>4, <1>c
\* The writes
<1>10. ASSUME NEW c \in Commands, SaveOpens(c)
      PROVE  Alone' /\ SerialFiles' /\ \A d \in Commands : SerialCommand(d)'
  <2>1. /\ pc[c] = "saving" /\ Goes(c, "writing") /\ regFile' = "empty" /\ registry' = NoEntries
        /\ UNCHANGED <<conf, bak, kind, mine, data, unlinked, removed, promised>>
    BY <1>10 DEF SaveOpens, At, Keeps, history
  <2>2. Own(c) /\ pc'[c] = "writing"
    BY <2>1, <1>b
  <2>3. SerialFiles'
    BY <2>1, <1>f, ClientConstants DEF SerialFiles, RegistryServes, Unrouted, NoEntries,
       ClientConstants
  <2>4. SerialCommand(c)'
    BY <2>1, <2>2, <1>f DEF SerialCommand, Serving, Unrouted, Holding
  <2> QED
    BY <2>2, <2>3, <2>4, <1>c
<1>11. ASSUME NEW c \in Commands, SaveWrites(c)
      PROVE  Alone' /\ SerialFiles' /\ \A d \in Commands : SerialCommand(d)'
  <2>1. /\ pc[c] = "writing" /\ regFile' = "whole" /\ registry' = mine[c]
        /\ promised' = promised \cup {s \in Servers : mine[c][s] # "none"}
        /\ UNCHANGED <<conf, bak, unlinked, removed>> /\ Saved(c)
        /\ Unrouted(mine[c]) /\ Holding(mine[c])
        /\ kind[c] = "init" \/ conf = "routed" => Serving(mine[c])
    BY <1>11, <1>f DEF SaveWrites, At, SerialCommand
  <2>2. SerialFiles'
    BY <2>1, <1>f DEF SerialFiles, RegistryServes, Serving, Unrouted, Holding
  <2>3. CASE kind[c] = "init"
    <3>1. Goes(c, "checking") /\ UNCHANGED <<kind, mine, data>>
      BY <2>1, <2>3 DEF Saved, Keeps
    <3>2. Own(c) /\ pc'[c] = "checking"
      BY <3>1, <2>1, <1>b
    <3>3. SerialCommand(c)'
      BY <3>1, <3>2, <2>1, <2>3, <1>f DEF SerialCommand, RegistryServes, Serving
    <3> QED
      BY <3>2, <3>3, <2>2, <1>c
  <2>4. CASE kind[c] # "init"
    <3>1. Ends(c)
      BY <2>1, <2>4 DEF Saved
    <3>2. Own(c) /\ pc'[c] = "idle" /\ kind'[c] = "none"
      BY <3>1, <2>1, <1>b, <1>t DEF Ends, CommandTypes
    <3>3. SerialCommand(c)'
      BY <3>2 DEF SerialCommand
    <3> QED
      BY <3>2, <3>3, <2>2, <1>c
  <2> QED
    BY <2>3, <2>4
<1>12. ASSUME NEW c \in Commands, BackupOpens(c)
      PROVE  Alone' /\ SerialFiles' /\ \A d \in Commands : SerialCommand(d)'
  <2>1. /\ pc[c] = "backing" /\ kind[c] = "init" /\ Goes(c, "backupWriting") /\ bak' = "empty"
        /\ UNCHANGED <<regFile, registry, conf, kind, mine, data, unlinked, removed, promised>>
    BY <1>12, <1>t DEF BackupOpens, At, Keeps, Placed, InitAt, history
  <2>2. Own(c) /\ pc'[c] = "backupWriting"
    BY <2>1, <1>b
  <2>3. SerialFiles'
    BY <2>1, <1>f DEF SerialFiles, RegistryServes, Serving, Unrouted, Holding
  <2>4. SerialCommand(c)'
    BY <2>1, <2>2, <1>f DEF SerialCommand, RegistryServes, Serving
  <2> QED
    BY <2>2, <2>3, <2>4, <1>c
<1>13. ASSUME NEW c \in Commands, BackupWrites(c)
      PROVE  Alone' /\ SerialFiles' /\ \A d \in Commands : SerialCommand(d)'
  <2>1. /\ pc[c] = "backupWriting" /\ kind[c] = "init" /\ Goes(c, "rewriting")
        /\ bak' \in Written(bak, data[c]) /\ bak = "empty" /\ data[c] = "own"
        /\ unlinked' = unlinked \ {c}
        /\ UNCHANGED <<regFile, registry, conf, kind, mine, data, removed, promised>>
    BY <1>13, <1>t, <1>f DEF BackupWrites, At, Keeps, Placed, InitAt, history, SerialFiles,
       SerialCommand
  <2>2. Own(c) /\ pc'[c] = "rewriting"
    BY <2>1, <1>b
  <2>3. bak' = "own"
    BY <2>1 DEF Written
  <2>4. SerialFiles'
    BY <2>1, <2>3, <1>f DEF SerialFiles, RegistryServes, Serving, Unrouted, Holding
  <2>5. SerialCommand(c)'
    BY <2>1, <2>2, <2>3, <1>f DEF SerialCommand, RegistryServes, Serving
  <2> QED
    BY <2>2, <2>4, <2>5, <1>c
<1>14. ASSUME NEW c \in Commands, ConfOpens(c)
      PROVE  Alone' /\ SerialFiles' /\ \A d \in Commands : SerialCommand(d)'
  <2>1. /\ pc[c] = "rewriting" /\ Goes(c, "confWriting") /\ conf' = "empty"
        /\ UNCHANGED <<regFile, registry, bak, kind, mine, data, unlinked, removed, promised>>
    BY <1>14 DEF ConfOpens, At, Keeps, history
  <2>2. Own(c) /\ pc'[c] = "confWriting"
    BY <2>1, <1>b
  <2>3. SerialFiles'
    BY <2>1, <1>f DEF SerialFiles, RegistryServes, Serving, Unrouted, Holding
  <2>4. SerialCommand(c)'
    BY <2>1, <2>2, <1>f DEF SerialCommand, RegistryServes, Serving
  <2> QED
    BY <2>2, <2>3, <2>4, <1>c
<1>15. ASSUME NEW c \in Commands, InitWrites(c)
      PROVE  Alone' /\ SerialFiles' /\ \A d \in Commands : SerialCommand(d)'
  <2>1. /\ pc[c] = "confWriting" /\ kind[c] = "init" /\ Ends(c)
        /\ conf' \in Written(conf, "routed") /\ conf = "empty" /\ bak # "missing" /\ RegistryServes
        /\ UNCHANGED <<regFile, registry, bak, unlinked, removed, promised>>
    BY <1>15, <1>f DEF InitWrites, At, history, SerialCommand
  <2>2. Own(c) /\ pc'[c] = "idle" /\ kind'[c] = "none"
    BY <2>1, <1>b, <1>t DEF Ends, CommandTypes
  <2>3. conf' = "routed"
    BY <2>1 DEF Written
  <2>4. SerialFiles'
    BY <2>1, <2>3, <1>f DEF SerialFiles, RegistryServes, Serving, Unrouted, Holding
  <2>5. SerialCommand(c)'
    BY <2>2 DEF SerialCommand
  <2> QED
    BY <2>2, <2>4, <2>5, <1>c
<1>16. ASSUME NEW c \in Commands, UninitWrites(c)
      PROVE  Alone' /\ SerialFiles' /\ \A d \in Commands : SerialCommand(d)'
  <2>1. /\ pc[c] = "confWriting" /\ kind[c] = "uninit" /\ Goes(c, "removing")
        /\ conf' \in Written(conf, data[c]) /\ conf = "empty" /\ data[c] \in {"own", "empty"}
        /\ UNCHANGED <<regFile, registry, bak, kind, mine, data, unlinked, removed, promised>>
    BY <1>16, <1>f DEF UninitWrites, At, Keeps, history, SerialCommand
  <2>2. Own(c) /\ pc'[c] = "removing"
    BY <2>1, <1>b
  <2>3. conf' \in {"own", "empty"}
    BY <2>1 DEF Written
  <2>4. SerialFiles'
    BY <2>1, <2>3, <1>f DEF SerialFiles, Unrouted, Holding
  <2>5. SerialCommand(c)'
    BY <2>1, <2>2, <2>3 DEF SerialCommand
  <2> QED
    BY <2>2, <2>4, <2>5, <1>c
<1>17. ASSUME NEW c \in Commands, RemovesBackup(c)
      PROVE  Alone' /\ SerialFiles' /\ \A d \in Commands : SerialCommand(d)'
  <2>1. /\ pc[c] = "removing" /\ Ends(c) /\ bak' = "missing" /\ conf # "routed"
        /\ unlinked' = unlinked \cup {d \in Commands : pc[d] = "backupWriting"}
        /\ UNCHANGED <<regFile, registry, conf, removed, promised>>
    BY <1>17, <1>f DEF RemovesBackup, At, history, SerialCommand
  <2>2. Own(c) /\ pc'[c] = "idle" /\ kind'[c] = "none"
    BY <2>1, <1>b, <1>t DEF Ends, CommandTypes
  <2>3. unlinked' = {}
    BY <2>1, <1>f DEF Alone, SerialFiles
  <2>4. SerialFiles'
    BY <2>1, <2>3, <1>f DEF SerialFiles, Unrouted, Holding
  <2>5. SerialCommand(c)'
    BY <2>2 DEF SerialCommand
  <2> QED
    BY <2>2, <2>4, <2>5, <1>c
<1>18. ASSUME NEW c \in Commands, Dies(c)
      PROVE  Alone' /\ SerialFiles' /\ \A d \in Commands : SerialCommand(d)'
    BY <1>18, <1>e DEF Dies, At
<1>19. CASE UNCHANGED vars
    BY <1>19, <1>f DEF vars, files, history, Alone, SerialFiles, SerialCommand, RegistryServes, Serving,
       Unrouted, Holding, Parses
<1> QED
    BY <1>1, <1>2, <1>3, <1>4, <1>5, <1>6, <1>7, <1>8, <1>9, <1>10, <1>11, <1>12, <1>13, <1>14, <1>15,
       <1>16, <1>17, <1>18, <1>19
    DEF Next, Beginning, Middle, Writing, Rest

\* One command at a time, each step keeps the serial invariant.
LEMMA SerialInvariant == Spec => []SerialInv
<1>1. Init => SerialInv
  <2> SUFFICES ASSUME Init PROVE SerialInv
      OBVIOUS
  <2>1. Unrouted(registry)
    BY ClientConstants DEF Init, Unrouted, NoEntries, ClientConstants
  <2> QED
    BY <2>1 DEF Init, SerialInv, Alone, SerialFiles, SerialCommand, RegistryServes, Holding
<1> QED
    BY <1>1, ClientTyping, SerialStep, PTL DEF Spec

\* One command at a time, and for any servers: a client that is routed through hydra
\* finds its servers in the registry, with their own commands, wherever commands have
\* died: ClientConfig's RoutedIsRegistered (generic.go:37-52, 87).
THEOREM RoutedIsAlwaysRegistered == Spec => []RoutedIsRegistered
<1>1. SerialInv => RoutedIsRegistered
    BY DEF SerialInv, SerialFiles, RegistryServes, Serving, RoutedIsRegistered
<1> QED
    BY <1>1, SerialInvariant, PTL

\* One command at a time: an entry that was saved stays until hydra remove drops it, or
\* the registry is torn: ClientConfig's SavedIsKept (loader.go:56-71,
\* registry.go:33-36).
THEOREM SavedIsAlwaysKept == Spec => []SavedIsKept
<1>1. SerialInv => SavedIsKept
    BY DEF SerialInv, SerialFiles, Holding, SavedIsKept
<1> QED
    BY <1>1, SerialInvariant, PTL
===============================================================================
