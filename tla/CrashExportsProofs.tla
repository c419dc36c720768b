-------------------------- MODULE CrashExportsProofs --------------------------
(***************************************************************************)
(* What holds of the exports of any number of servers, whatever their      *)
(* configurations say, however many messages pass and servers crash.       *)
(*                                                                         *)
(* The inductive invariant adds to the three properties that a server runs *)
(* under the configuration its files merge to, that what passes is         *)
(* numbered upwards, and that the buffer of a server whose recorder is on  *)
(* is a tail of what has passed as one message.                            *)
(***************************************************************************)
EXTENDS CrashExports, TLAPS

TypeInv ==
    /\ TypeOK
    /\ entry \in [Servers -> Entries] /\ local \in [Servers -> Locals]
    /\ DOMAIN running = Servers

RunsAsMerged == \A s \in Servers : Running(s) => running[s] = Merged(entry[s], local[s])

StartsEmpty == \A s \in Servers : ~Running(s) => buffer[s] = <<>> /\ heard[s] = 0 /\ single[s] = {}

Numbered == \A s \in Servers : single[s] \subseteq 1 .. heard[s] /\ heard[s] <= passed

BufferIsTheTail ==
    \A s \in Servers : Running(s) /\ running[s]["recorder"] =>
        IsTail(buffer[s], single[s], running[s]["buffer_size"])

IInv ==
    /\ TypeInv
    /\ RunsAsMerged
    /\ StartsEmpty
    /\ Numbered
    /\ BufferIsTheTail
    /\ ExportIsTheTail
    /\ NoSecretIsExported

-------------------------------------------------------------------------------
\* The patterns are those of the last file that has some, and no merge takes back what
\* another has set (loader.go:238-267).
LEMMA MergeKeeps ==
    ASSUME NEW e \in Entries, NEW l \in Locals
    PROVE  /\ Merged(e, l)["redact_patterns"] =
                Wins("redact_patterns",
                     Wins("redact_patterns", Patterns, e["redact_patterns"]),
                     IF l = NoConfig THEN {} ELSE l["redact_patterns"])
           /\ Merged(e, l)["buffer_size"] \in Int \ {0}
           /\ MergedEntry(e)["export_path"] \in Paths
<1>1. /\ DefaultServerConfig["redact_patterns"] = Patterns
      /\ DefaultServerConfig["buffer_size"] = DefaultBuffer
      /\ DefaultServerConfig["export_path"] = DefaultPath
    BY DEF DefaultServerConfig, With, Fields, Texts, Numbers, Switches, Lists
<1>2. IsConfig(e) /\ (l # NoConfig => IsConfig(l))
    BY ExportConstants
<1>3. /\ Zero("redact_patterns") = {} /\ Zero("buffer_size") = 0 /\ Zero("export_path") = ""
      /\ {"redact_patterns", "buffer_size", "export_path"} \subseteq Fields
    BY DEF Zero, Fields, Texts, Numbers, Switches, Lists
<1>4. \A f \in Fields : MergedEntry(e)[f] = Wins(f, DefaultServerConfig[f], e[f])
    BY DEF MergedEntry, MergeServerConfig
<1>5. \A f \in Fields :
        Merged(e, l)[f] = IF l = NoConfig THEN MergedEntry(e)[f] ELSE Wins(f, MergedEntry(e)[f], l[f])
    BY DEF Merged, MergedEntry, MergeServerConfig
<1>6. MergedEntry(e)["redact_patterns"] = Wins("redact_patterns", Patterns, e["redact_patterns"])
    BY <1>1, <1>3, <1>4
<1>7. MergedEntry(e)["buffer_size"] \in Int \ {0}
    <2>1. MergedEntry(e)["buffer_size"] = Wins("buffer_size", DefaultBuffer, e["buffer_size"])
        BY <1>1, <1>3, <1>4
    <2>2. e["buffer_size"] \in Int
        BY <1>2 DEF IsConfig, Numbers
    <2>3. MergedEntry(e)["buffer_size"] = IF e["buffer_size"] = 0 THEN DefaultBuffer ELSE e["buffer_size"]
        BY <1>3, <2>1 DEF Wins
    <2>4. CASE e["buffer_size"] = 0
        <3>1. DefaultBuffer \in Nat \ {0}
            BY DefaultsOK
        <3>2. MergedEntry(e)["buffer_size"] = DefaultBuffer
            BY <2>3, <2>4
        <3> QED
            BY <3>1, <3>2, SMT
    <2>5. CASE e["buffer_size"] # 0
        BY <2>2, <2>3, <2>5
    <2> QED
        BY <2>4, <2>5
<1>8. MergedEntry(e)["export_path"] \in Paths
    <2>1. MergedEntry(e)["export_path"] = Wins("export_path", DefaultPath, e["export_path"])
        BY <1>1, <1>3, <1>4
    <2>2. e["export_path"] \in Paths \cup {""}
        BY <1>2 DEF IsConfig
    <2> QED
        BY <1>3, <2>1, <2>2, DefaultsOK DEF Wins
<1>9. Merged(e, l)["redact_patterns"] =
        Wins("redact_patterns", MergedEntry(e)["redact_patterns"],
             IF l = NoConfig THEN {} ELSE l["redact_patterns"])
    BY <1>3, <1>5 DEF Wins
<1>10. Merged(e, l)["buffer_size"] \in Int \ {0}
    <2>1. l # NoConfig => l["buffer_size"] \in Int
        BY <1>2 DEF IsConfig, Numbers
    <2> QED
        BY <1>3, <1>5, <1>7, <2>1 DEF Wins
<1> QED
    BY <1>6, <1>8, <1>9, <1>10

\* A running server has the patterns in force (run.go:91-103, loader.go:265-267).
LEMMA MergedPatterns ==
    ASSUME NEW s \in Servers, entry[s] \in Entries, local[s] \in Locals
    PROVE  Merged(entry[s], local[s])["redact_patterns"] = InForce(s)
<1>1. Merged(entry[s], local[s])["redact_patterns"] =
        Wins("redact_patterns", Wins("redact_patterns", Patterns, entry[s]["redact_patterns"]), OfOverride(s))
    BY MergeKeeps DEF OfOverride
<1>2. Zero("redact_patterns") = {}
    BY DEF Zero, Texts, Numbers, Switches, Lists
<1> QED
    BY <1>1, <1>2 DEF Wins, InForce

\* Export prepares a message without losing its place, and keeps of its parts but the
\* method and the id nothing that a pattern matches (recorder.go:174-196).
LEMMA Prepared ==
    ASSUME NEW cfg, NEW m \in Messages
    PROVE  /\ prepareForExport(cfg, m) \in Messages
           /\ prepareForExport(cfg, m).no = m.no
           /\ \A part \in Parts \ {"method", "id"}, p \in cfg["redact_patterns"] \cap DOMAIN Matches :
                prepareForExport(cfg, m).text[part] \cap Matches[p] = {}
<1> DEFINE kept == applyBodyPolicy(cfg, m)
           texts == [part \in Parts |-> IF part \in Redacted THEN Redact(cfg, kept.text[part]) ELSE kept.text[part]]
<1>1. kept \in Messages /\ kept.no = m.no
    BY DEF applyBodyPolicy, Messages
<1>2. \A t \in SUBSET Words :
        /\ Redact(cfg, t) \in SUBSET Words
        /\ \A p \in cfg["redact_patterns"] \cap DOMAIN Matches : Redact(cfg, t) \cap Matches[p] = {}
    BY DEF Redact
<1>3. prepareForExport(cfg, m) = [kept EXCEPT !.text = texts]
    BY DEF prepareForExport
<1> HIDE DEF kept
<1>4. kept.text \in [Parts -> SUBSET Words]
    BY <1>1 DEF Messages
<1>5. texts \in [Parts -> SUBSET Words]
    BY <1>2, <1>4
<1>6. \A part \in Parts \ {"method", "id"}, p \in cfg["redact_patterns"] \cap DOMAIN Matches :
        texts[part] \cap Matches[p] = {}
    BY <1>2, <1>4 DEF Redacted, Parts
<1> HIDE DEF texts
<1>7. [kept EXCEPT !.text = texts] \in Messages /\ [kept EXCEPT !.text = texts].no = m.no
      /\ [kept EXCEPT !.text = texts].text = texts
    BY <1>1, <1>5 DEF Messages
<1> QED
    BY <1>3, <1>6, <1>7

\* One more message moves the tail on by one (recorder.go:135-144).
LEMMA RoomIsMade ==
    ASSUME NEW b \in Seq(Messages), NEW size \in Nat \ {0}, NEW m \in Messages,
           NEW N \in SUBSET Nat, IsTail(b, N, size), \A k \in N : k < m.no
    PROVE  LET c == Append(MakeRoom(b, size), m)
           IN  c \in Seq(Messages) /\ IsTail(c, N \cup {m.no}, size)
<1> DEFINE r == MakeRoom(b, size)
           c == Append(r, m)
<1>t. /\ Len(b) \in Nat /\ DOMAIN b = 1 .. Len(b) /\ m.no \in Nat
      /\ \A i \in 1 .. Len(b) : b[i].no \in N /\ b[i].no \in Nat /\ b[i].no < m.no
    <2>1. Len(b) \in Nat /\ DOMAIN b = 1 .. Len(b) /\ m.no \in Nat
        BY DEF Messages
    <2> QED
        BY <2>1 DEF IsTail
<1>1. CASE Len(b) >= size
    <2>1. b # <<>> /\ Len(b) = size /\ r = Tail(b)
        BY <1>1 DEF MakeRoom, IsTail
    <2>2. r \in Seq(Messages) /\ Len(r) = size - 1 /\ \A i \in 1 .. Len(r) : r[i] = b[i + 1]
        BY <2>1
    <2> HIDE DEF r
    <2>3. c \in Seq(Messages) /\ Len(c) = size /\ c[size] = m /\ \A i \in 1 .. size - 1 : c[i] = b[i + 1]
        BY <2>2
    <2> HIDE DEF c
    <2>4. DOMAIN c = 1 .. size
        BY <2>3
    <2>5. \A i, j \in 1 .. size : i < j => b[i].no < b[j].no
        BY <1>t, <2>1 DEF IsTail
    <2>6. ASSUME NEW i \in 1 .. size, i # size
          PROVE  c[i] = b[i + 1] /\ i + 1 \in 1 .. size
        BY <2>3, <2>6
    <2>7. \A i \in 1 .. size : c[i].no \in N \cup {m.no}
        BY <1>t, <2>1, <2>3, <2>6
    <2>8. ASSUME NEW i \in 1 .. size, NEW j \in 1 .. size, i < j
          PROVE  c[i].no < c[j].no
        <3>1. CASE j = size
            BY <1>t, <2>1, <2>3, <2>6, <2>8, <3>1
        <3>2. CASE j # size
            <4>1. i # size /\ i + 1 < j + 1
                BY <2>8, <3>2
            <4>2. i + 1 \in 1 .. size /\ j + 1 \in 1 .. size /\ c[i] = b[i + 1] /\ c[j] = b[j + 1]
                BY <2>6, <3>2, <4>1
            <4>3. b[i + 1].no < b[j + 1].no
                BY <2>5, <4>1, <4>2
            <4> QED
                BY <4>2, <4>3
        <3> QED
            BY <3>1, <3>2
    <2>9. ASSUME NEW k \in N, \A i \in 1 .. size : k < b[i].no
          PROVE  \A i \in 1 .. size : k < c[i].no
        BY <2>3, <2>6, <2>9
    <2>10. ASSUME NEW k \in N, k = b[1].no
           PROVE  \A i \in 1 .. size : k < c[i].no
        <3>1. ASSUME NEW i \in 1 .. size, i # size PROVE k < c[i].no
            BY <2>5, <2>6, <2>10, <3>1
        <3> QED
            BY <2>3, <3>1
    <2>11. ASSUME NEW k \in N, NEW i \in 1 .. size, k = b[i].no, i # 1
           PROVE  \E j \in 1 .. size : c[j].no = k
        <3>1. i - 1 \in 1 .. size /\ i - 1 # size /\ (i - 1) + 1 = i
            BY <2>11
        <3> QED
            BY <2>6, <2>11, <3>1
    <2>12. ASSUME NEW k \in N \cup {m.no}
           PROVE  (\E i \in 1 .. size : c[i].no = k) \/ (\A i \in 1 .. size : k < c[i].no)
        <3>1. CASE k = m.no
            BY <2>3, <3>1
        <3>2. CASE k \in N
            <4>1. (\E i \in 1 .. size : b[i].no = k) \/ (\A i \in 1 .. size : k < b[i].no)
                BY <1>t, <2>1, <3>2 DEF IsTail
            <4> QED
                BY <2>9, <2>10, <2>11, <3>2, <4>1
        <3> QED
            BY <3>1, <3>2
    <2>13. /\ Len(c) <= size
           /\ \A i, j \in DOMAIN c : i < j => c[i].no < c[j].no
           /\ \A i \in DOMAIN c : c[i].no \in N \cup {m.no}
        BY <2>3, <2>4, <2>7, <2>8
    <2>14. ASSUME NEW k \in N \cup {m.no}
           PROVE  \/ \E i \in DOMAIN c : c[i].no = k
                  \/ Len(c) = size /\ \A i \in DOMAIN c : k < c[i].no
        BY <2>3, <2>4, <2>12
    <2>15. IsTail(c, N \cup {m.no}, size)
        BY <2>13, <2>14 DEF IsTail
    <2> QED
        BY <2>3, <2>15 DEF c, r
<1>2. CASE ~(Len(b) >= size)
    <2>0. Len(b) # size
        BY <1>2
    <2>1. r = b /\ Len(b) < size
        BY <1>t, <1>2 DEF MakeRoom
    <2> HIDE DEF r
    <2>2. /\ c \in Seq(Messages) /\ Len(c) = Len(b) + 1 /\ c[Len(b) + 1] = m
          /\ \A i \in 1 .. Len(b) : c[i] = b[i]
        BY <2>1
    <2> HIDE DEF c
    <2>3. DOMAIN c = 1 .. Len(b) + 1 /\ Len(c) <= size
        BY <1>t, <2>1, <2>2
    <2>4. \A i \in 1 .. Len(b) + 1 : i \in 1 .. Len(b) \/ i = Len(b) + 1
        BY <1>t
    <2>5. \A i \in 1 .. Len(b) + 1 : c[i].no \in N \cup {m.no}
        BY <1>t, <2>2, <2>4
    <2>6. \A i, j \in 1 .. Len(b) + 1 : i < j => c[i].no < c[j].no
        <3>1. \A i, j \in 1 .. Len(b) : i < j => b[i].no < b[j].no
            BY <1>t DEF IsTail
        <3>2. \A i, j \in 1 .. Len(b) + 1 : i < j => i \in 1 .. Len(b)
            BY <1>t
        <3> QED
            BY <1>t, <2>2, <2>4, <3>1, <3>2
    <2>7. ASSUME NEW k \in N \cup {m.no}
          PROVE  \E i \in 1 .. Len(b) + 1 : c[i].no = k
        <3>1. CASE k = m.no
            BY <1>t, <2>2, <3>1
        <3>2. CASE k \in N
            <4>1. PICK i \in 1 .. Len(b) : b[i].no = k
                BY <1>t, <2>0, <3>2, Zenon DEF IsTail
            <4>2. i \in 1 .. Len(b) + 1 /\ c[i].no = k
                BY <1>t, <2>2, <4>1
            <4> QED
                BY <4>2
        <3> QED
            BY <3>1, <3>2
    <2> QED
        BY <2>2, <2>3, <2>5, <2>6, <2>7 DEF IsTail, c, r
<1> QED
    BY <1>1, <1>2

\* What Crash writes is a tail of its run, of the right type and clean of what the patterns
\* in force match (recorder.go:94-123, proxy.go:161-163).
LEMMA ExportedOK ==
    ASSUME IInv, NEW s \in Servers, Running(s), crashes < MaxCrashes
    PROVE  /\ Exported(s) \in Export
           /\ Exported(s).by = s
           /\ Clean(Exported(s), Parts \ {"method", "id"})
           /\ running[s]["recorder"] =>
                IsTail(Exported(s).entries, Exported(s).single, running[s]["buffer_size"])
<1> DEFINE b == buffer[s]
           n == Len(b)
           p == [i \in DOMAIN b |-> prepareForExport(running[s], b[i])]
<1>1. /\ b \in Seq(Messages) /\ single[s] \in SUBSET (1 .. MaxMessages) /\ crashes + 1 \in 1 .. MaxCrashes
      /\ entry[s] \in Entries /\ local[s] \in Locals /\ running[s] = Merged(entry[s], local[s])
    BY ExportConstants DEF IInv, TypeInv, TypeOK, RunsAsMerged
<1>2. running[s]["redact_patterns"] = InForce(s)
    BY <1>1, MergedPatterns
<1>3. n \in Nat /\ DOMAIN b = 1 .. n /\ \A i \in 1 .. n : b[i] \in Messages
    BY <1>1
<1>4. \A i \in 1 .. n : p[i] \in Messages /\ p[i].no = b[i].no
    BY <1>3, Prepared
<1>5. \A i \in 1 .. n, part \in Parts \ {"method", "id"}, q \in InForce(s) \cap DOMAIN Matches :
        p[i].text[part] \cap Matches[q] = {}
    <2>1. \A i \in 1 .. n : p[i] = prepareForExport(running[s], b[i])
        BY <1>3
    <2> HIDE DEF p, n, b
    <2> QED
        BY <1>2, <1>3, <2>1, Prepared
<1>6. p \in Seq(Messages) /\ DOMAIN p = 1 .. n /\ Len(p) = n
    <2>1. p \in [1 .. n -> Messages]
        BY <1>3, <1>4
    <2> QED
        BY <1>3, <2>1
<1>7. Exported(s) = [by |-> s, entries |-> p, single |-> single[s], at |-> crashes + 1]
    BY DEF Exported
<1>8. running[s]["recorder"] => IsTail(b, single[s], running[s]["buffer_size"])
    BY DEF IInv, BufferIsTheTail
<1> HIDE DEF b, n, p
<1>9. running[s]["recorder"] => IsTail(p, single[s], running[s]["buffer_size"])
    <2> SUFFICES ASSUME running[s]["recorder"]
                 PROVE  IsTail(p, single[s], running[s]["buffer_size"])
        OBVIOUS
    <2>1. Len(b) = n /\ Len(p) = n
        BY <1>6 DEF n
    <2> QED
        BY <1>3, <1>4, <1>6, <1>8, <2>1 DEF IsTail
<1>10. Exported(s) \in Export
    BY <1>1, <1>6, <1>7 DEF Export, b
<1>11. Clean(Exported(s), Parts \ {"method", "id"})
    BY <1>5, <1>6, <1>7 DEF Clean
<1> QED
    BY <1>7, <1>9, <1>10, <1>11


-------------------------------------------------------------------------------
\* As long as the files with the configurations stay, so do the patterns in force.
LEMMA InForceStays ==
    ASSUME UNCHANGED <<entry, local>>
    PROVE  \A s \in Servers : InForce(s)' = InForce(s)
<1> SUFFICES ASSUME NEW s \in Servers PROVE InForce(s)' = InForce(s)
    OBVIOUS
<1>1. OfOverride(s)' = OfOverride(s)
    BY DEF OfOverride
<1> QED
    BY <1>1 DEF InForce

\* What is in the exports and on the screens stays as it is.
LEMMA ExportsStay ==
    ASSUME UNCHANGED <<entry, local, file, shown>>, TypeOK, ExportIsTheTail, NoSecretIsExported
    PROVE  ExportIsTheTail' /\ NoSecretIsExported'
<1>1. ExportIsTheTail'
    BY DEF ExportIsTheTail
<1>2. ASSUME NEW x \in {file[p] : p \in Paths} \cup {shown[s] : s \in Servers}, x # NoFile
      PROVE  x.by \in Servers /\ Clean(x, Parts \ {"method", "id"})
    BY <1>2 DEF NoSecretIsExported, TypeOK, Export
<1>3. NoSecretIsExported'
    BY <1>2, InForceStays DEF NoSecretIsExported, Clean
<1> QED
    BY <1>1, <1>3

\* Before the first start there is neither a buffer nor an export.
LEMMA InitInvariant == Init => IInv
<1> SUFFICES ASSUME Init PROVE IInv
    OBVIOUS
<1>1. \A s \in Servers : ~Running(s)
    BY DEF Init, Running
<1>2. TypeInv
    BY <1>1, ExportConstants DEF Init, TypeInv, TypeOK
<1>3. RunsAsMerged /\ StartsEmpty /\ Numbered /\ BufferIsTheTail
    BY <1>1 DEF Init, RunsAsMerged, StartsEmpty, Numbered, BufferIsTheTail
<1>4. ExportIsTheTail /\ NoSecretIsExported
    BY DEF Init, ExportIsTheTail, NoSecretIsExported
<1> QED
    BY <1>2, <1>3, <1>4 DEF IInv

\* hydra run reads its two files and validates what they merge to; nothing has passed
\* yet (run.go:91-106).
LEMMA StartInvariant ==
    ASSUME IInv, NEW s \in Servers, Start(s)
    PROVE  IInv'
<1> USE DEF IInv
<1>1. /\ running' = [running EXCEPT ![s] = Merged(entry[s], local[s])]
      /\ UNCHANGED <<entry, local, buffer, heard, single, file, crashes, last, shown, passed>>
      /\ Validate(Merged(entry[s], local[s])) /\ buffer[s] = <<>> /\ heard[s] = 0 /\ single[s] = {}
    BY DEF Start, confVars, histVars, StartsEmpty
<1>2. entry[s] \in Entries /\ local[s] \in Locals
    BY DEF TypeInv
<1>3. Merged(entry[s], local[s])["buffer_size"] \in Nat \ {0}
    <2>1. Merged(entry[s], local[s])["buffer_size"] \in Int \ {0}
        BY <1>2, MergeKeeps
    <2>2. Merged(entry[s], local[s])["buffer_size"] >= 0
        BY <1>1 DEF Validate, Numbers
    <2> QED
        BY <2>1, <2>2
<1>4. running'[s] = Merged(entry[s], local[s]) /\ \A t \in Servers \ {s} : running'[t] = running[t]
    BY <1>1 DEF TypeInv
<1>5. TypeInv'
    <2>1. \A t \in Servers : Running(t)' => Validate(running'[t]) /\ Len(buffer'[t]) <= running'[t]["buffer_size"]
        BY <1>1, <1>3, <1>4 DEF TypeInv, TypeOK, Running
    <2> QED
        BY <1>1, <2>1 DEF TypeInv, TypeOK
<1>6. RunsAsMerged' /\ StartsEmpty' /\ Numbered'
    BY <1>1, <1>4 DEF RunsAsMerged, StartsEmpty, Numbered, Running
<1>7. BufferIsTheTail'
    <2>1. IsTail(<<>>, {}, Merged(entry[s], local[s])["buffer_size"])
        BY <1>3 DEF IsTail
    <2> QED
        BY <1>1, <1>4, <2>1 DEF BufferIsTheTail, Running
<1>8. ExportIsTheTail' /\ NoSecretIsExported'
    BY <1>1, ExportsStay DEF TypeInv
<1> QED
    BY <1>5, <1>6, <1>7, <1>8

\* What passes is recorded if it is one message and the recorder is on, and leaves the
\* buffer alone if not (recording.go:9-25, recorder.go:125-145).
LEMMA MessageInvariant ==
    ASSUME IInv, NEW s \in Servers, NEW m \in Traffic, Message(s, m)
    PROVE  IInv'
<1> USE DEF IInv
<1> DEFINE new == [no |-> heard[s] + 1, from |-> m.from, text |-> m.text]
           kept == applyBodyPolicy(running[s], new)
           size == running[s]["buffer_size"]
<1>1. /\ Running(s) /\ passed < MaxMessages /\ passed' = passed + 1
      /\ heard' = [heard EXCEPT ![s] = heard[s] + 1]
      /\ UNCHANGED <<entry, local, running, file, crashes, last, shown>>
    BY DEF Message, confVars
<1>2. /\ buffer[s] \in Seq(Messages) /\ Len(buffer[s]) <= size
      /\ entry[s] \in Entries /\ local[s] \in Locals
      /\ running[s] = Merged(entry[s], local[s]) /\ Validate(running[s])
    BY <1>1 DEF TypeInv, TypeOK, RunsAsMerged
<1>3. size \in Nat \ {0}
    <2>1. size \in Int \ {0}
        BY <1>2, MergeKeeps
    <2>2. size >= 0
        BY <1>2 DEF Validate, Numbers
    <2> QED
        BY <2>1, <2>2
<1>n. /\ passed \in Nat /\ passed' \in 0 .. MaxMessages
      /\ heard[s] \in Nat /\ heard[s] <= passed /\ heard[s] + 1 \in 1 .. MaxMessages
      /\ single[s] \subseteq 1 .. heard[s]
    <2>1. passed \in 0 .. MaxMessages /\ heard[s] \in 0 .. MaxMessages /\ MaxMessages \in Nat
        BY ExportConstants DEF TypeInv, TypeOK
    <2>2. heard[s] <= passed /\ single[s] \subseteq 1 .. heard[s]
        BY DEF Numbered
    <2> QED
        BY <1>1, <2>1, <2>2
<1>4. kept \in Messages /\ kept.no = heard[s] + 1
    <2>1. m.from \in {"client", "child"} /\ m.text \in [Parts -> SUBSET Words]
        BY ExportConstants DEF Parts
    <2>2. new \in Messages /\ new.no = heard[s] + 1
        BY <1>n, <2>1 DEF Messages
    <2> HIDE DEF new
    <2> QED
        BY <2>2 DEF applyBodyPolicy, Messages
<1>5. /\ \A t \in Servers \ {s} : heard'[t] = heard[t]
      /\ heard'[s] = heard[s] + 1 /\ heard' \in [Servers -> 0 .. MaxMessages]
    BY <1>1, <1>n DEF TypeInv, TypeOK
<1>6. /\ single' \in [Servers -> SUBSET (1 .. MaxMessages)]
      /\ \A t \in Servers \ {s} : single'[t] = single[t]
      /\ IF m.single THEN single'[s] = single[s] \cup {heard[s] + 1} ELSE single'[s] = single[s]
    <2>1. IF m.single THEN single' = [single EXCEPT ![s] = single[s] \cup {heard[s] + 1}] ELSE single' = single
        BY DEF Message
    <2>2. single \in [Servers -> SUBSET (1 .. MaxMessages)]
        BY DEF TypeInv, TypeOK
    <2>3. single[s] \cup {heard[s] + 1} \in SUBSET (1 .. MaxMessages)
        BY <1>n, <2>2
    <2>4. CASE m.single
        BY <2>1, <2>2, <2>3, <2>4
    <2>5. CASE ~m.single
        BY <2>1, <2>2, <2>5
    <2> QED
        BY <2>4, <2>5
<1>7. /\ buffer' \in [Servers -> Seq(Messages)] /\ Len(buffer'[s]) <= size
      /\ \A t \in Servers \ {s} : buffer'[t] = buffer[t]
      /\ running[s]["recorder"] => IsTail(buffer'[s], single'[s], size)
    <2>0. running[s]["recorder"] => IsTail(buffer[s], single[s], size)
        BY <1>1 DEF BufferIsTheTail
    <2>1. CASE m.single /\ running[s]["recorder"]
        <3>1. buffer' = [buffer EXCEPT ![s] = Append(MakeRoom(buffer[s], size), kept)]
            BY <2>1 DEF Message, record
        <3>2. single[s] \in SUBSET Nat /\ \A k \in single[s] : k < kept.no
            BY <1>n, <1>4
        <3>3. /\ Append(MakeRoom(buffer[s], size), kept) \in Seq(Messages)
              /\ IsTail(Append(MakeRoom(buffer[s], size), kept), single[s] \cup {kept.no}, size)
            <4> HIDE DEF kept, size
            <4> QED
                BY <1>2, <1>3, <1>4, <2>0, <2>1, <3>2, RoomIsMade DEF size
        <3> HIDE DEF kept
        <3>4. /\ buffer'[s] = Append(MakeRoom(buffer[s], size), kept)
              /\ \A t \in Servers \ {s} : buffer'[t] = buffer[t]
              /\ buffer' \in [Servers -> Seq(Messages)]
            BY <3>1, <3>3 DEF TypeInv, TypeOK
        <3>5. IsTail(buffer'[s], single'[s], size)
            BY <1>4, <1>6, <2>1, <3>3, <3>4
        <3>6. Len(buffer'[s]) <= size
            BY <3>5 DEF IsTail
        <3> QED
            BY <3>4, <3>5, <3>6
    <2>2. CASE m.single /\ ~running[s]["recorder"]
        <3>1. buffer' = [buffer EXCEPT ![s] = buffer[s]]
            BY <2>2 DEF Message, record
        <3>2. buffer' = buffer
            BY <3>1 DEF TypeInv, TypeOK
        <3> QED
            BY <1>2, <2>2, <3>2 DEF TypeInv, TypeOK
    <2>3. CASE ~m.single
        <3>1. buffer' = buffer
            BY <2>3 DEF Message
        <3>2. single'[s] = single[s]
            BY <1>6, <2>3
        <3> QED
            BY <1>2, <2>0, <3>1, <3>2 DEF TypeInv, TypeOK
    <2> QED
        BY <2>1, <2>2, <2>3
<1>8. TypeInv'
    <2>1. \A t \in Servers : Running(t)' => Validate(running'[t]) /\ Len(buffer'[t]) <= running'[t]["buffer_size"]
        BY <1>1, <1>7 DEF TypeInv, TypeOK, Running
    <2> QED
        BY <1>1, <1>n, <1>5, <1>6, <1>7, <2>1 DEF TypeInv, TypeOK
<1>9. RunsAsMerged' /\ StartsEmpty'
    BY <1>1, <1>5, <1>6, <1>7 DEF RunsAsMerged, StartsEmpty, Running
<1>10. Numbered'
    <2> SUFFICES ASSUME NEW t \in Servers
                 PROVE  single'[t] \subseteq 1 .. heard'[t] /\ heard'[t] <= passed'
        BY DEF Numbered
    <2>1. CASE t = s
        BY <1>1, <1>n, <1>5, <1>6, <2>1
    <2>2. CASE t # s
        <3>1. single[t] \subseteq 1 .. heard[t] /\ heard[t] <= passed /\ heard[t] \in 0 .. MaxMessages
            BY DEF Numbered, TypeInv, TypeOK
        <3> QED
            BY <1>1, <1>n, <1>5, <1>6, <2>2, <3>1
    <2> QED
        BY <2>1, <2>2
<1>11. BufferIsTheTail'
    BY <1>1, <1>6, <1>7 DEF BufferIsTheTail, Running
<1>12. ExportIsTheTail' /\ NoSecretIsExported'
    BY <1>1, ExportsStay DEF TypeInv
<1> QED
    BY <1>8, <1>9, <1>10, <1>11, <1>12

\* When a process is gone nothing of it is left but the files.
LEMMA GoneInvariant ==
    ASSUME IInv, NEW s \in Servers, Gone(s), UNCHANGED <<entry, local>>
    PROVE  /\ RunsAsMerged' /\ StartsEmpty' /\ BufferIsTheTail'
           /\ passed' = passed => Numbered'
           /\ \A t \in Servers : Running(t)' => Validate(running'[t]) /\ Len(buffer'[t]) <= running'[t]["buffer_size"]
           /\ buffer' \in [Servers -> Seq(Messages)] /\ heard' \in [Servers -> 0 .. MaxMessages]
           /\ single' \in [Servers -> SUBSET (1 .. MaxMessages)]
           /\ DOMAIN running' = Servers
<1> USE DEF IInv
<1>1. /\ running'[s] = NoConfig /\ buffer'[s] = <<>> /\ heard'[s] = 0 /\ single'[s] = {}
      /\ \A t \in Servers \ {s} :
            running'[t] = running[t] /\ buffer'[t] = buffer[t] /\ heard'[t] = heard[t] /\ single'[t] = single[t]
    BY DEF Gone, TypeInv, TypeOK
<1>2. /\ buffer' \in [Servers -> Seq(Messages)] /\ heard' \in [Servers -> 0 .. MaxMessages]
      /\ single' \in [Servers -> SUBSET (1 .. MaxMessages)]
      /\ DOMAIN running' = Servers
    BY ExportConstants DEF Gone, TypeInv, TypeOK
<1>3. \A t \in Servers : Running(t)' => t # s /\ Running(t)
    BY <1>1 DEF Running
<1>4. RunsAsMerged' /\ StartsEmpty' /\ BufferIsTheTail'
    BY <1>1, <1>3 DEF RunsAsMerged, StartsEmpty, BufferIsTheTail, Running
<1>5. \A t \in Servers : Running(t)' => Validate(running'[t]) /\ Len(buffer'[t]) <= running'[t]["buffer_size"]
    BY <1>1, <1>3 DEF TypeInv, TypeOK
<1>6. passed' = passed => Numbered'
    <2>1. passed \in Nat
        BY ExportConstants DEF TypeInv, TypeOK
    <2> QED
        BY <1>1, <2>1 DEF Numbered
<1> QED
    BY <1>2, <1>4, <1>5, <1>6

\* A crash exports the tail of what its own run has buffered.
LEMMA CrashInvariant ==
    ASSUME IInv, NEW s \in Servers, Crash(s)
    PROVE  IInv'
<1> USE DEF IInv
<1>1. Running(s) /\ crashes < MaxCrashes /\ crashes' = crashes + 1 /\ Gone(s)
      /\ UNCHANGED <<entry, local, shown, passed>>
    BY DEF Crash, confVars
<1>2. crashes' \in 0 .. MaxCrashes
    BY <1>1, ExportConstants DEF TypeInv, TypeOK
<1>3. \/ /\ running[s]["recorder"]
         /\ file' = [file EXCEPT ![ExportPath(running[s])] = Exported(s)]
         /\ last' = [last EXCEPT ![s] = Exported(s)]
      \/ UNCHANGED <<file, last>>
    BY DEF Crash, Exports
<1>4. \A p \in Paths : file'[p] = file[p] \/ (running[s]["recorder"] /\ file'[p] = Exported(s))
    BY <1>3 DEF TypeInv, TypeOK
<1>5. file' \in [Paths -> Export \cup {NoFile}] /\ last' \in [Servers -> Export \cup {NoFile}]
    BY <1>1, <1>3, ExportedOK DEF TypeInv, TypeOK
<1>6. TypeInv' /\ RunsAsMerged' /\ StartsEmpty' /\ Numbered' /\ BufferIsTheTail'
    BY <1>1, <1>2, <1>5, GoneInvariant DEF TypeInv, TypeOK
<1>7. ExportIsTheTail'
    <2> SUFFICES ASSUME NEW p \in Paths, file'[p] # NoFile
                 PROVE  IsTail(file'[p].entries, file'[p].single,
                               Merged(entry[file'[p].by], local[file'[p].by])["buffer_size"])
        BY <1>1 DEF ExportIsTheTail
    <2>1. CASE file'[p] = file[p]
        BY <2>1 DEF ExportIsTheTail
    <2>2. CASE running[s]["recorder"] /\ file'[p] = Exported(s)
        <3>1. running[s] = Merged(entry[s], local[s])
            BY <1>1 DEF RunsAsMerged
        <3> QED
            BY <1>1, <2>2, <3>1, ExportedOK
    <2> QED
        BY <1>4, <2>1, <2>2
<1>8. NoSecretIsExported'
    <2>1. Clean(Exported(s), Parts \ {"method", "id"}) /\ Exported(s).by \in Servers
        BY <1>1, ExportedOK
    <2>2. ASSUME NEW x \in {file'[p] : p \in Paths} \cup {shown'[t] : t \in Servers}, x # NoFile
          PROVE  x.by \in Servers /\ Clean(x, Parts \ {"method", "id"})
        <3>1. CASE x = Exported(s)
            BY <2>1, <3>1
        <3>2. CASE x # Exported(s)
            <4>1. x \in {file[p] : p \in Paths} \cup {shown[t] : t \in Servers}
                BY <1>1, <1>4, <2>2, <3>2
            <4> QED
                BY <2>2, <4>1 DEF NoSecretIsExported, TypeInv, TypeOK, Export
        <3> QED
            BY <3>1, <3>2
    <2> QED
        BY <1>1, <2>2, InForceStays DEF NoSecretIsExported, Clean
<1> QED
    BY <1>6, <1>7, <1>8

\* A run that ends writes nothing.
LEMMA EndsInvariant ==
    ASSUME IInv, NEW s \in Servers, Ends(s)
    PROVE  IInv'
<1>1. Gone(s) /\ UNCHANGED <<entry, local, file, crashes, last, shown, passed>>
    BY DEF Ends, confVars
<1>2. TypeInv' /\ RunsAsMerged' /\ StartsEmpty' /\ Numbered' /\ BufferIsTheTail'
    BY <1>1, GoneInvariant DEF IInv, TypeInv, TypeOK
<1>3. ExportIsTheTail' /\ NoSecretIsExported'
    BY <1>1, ExportsStay DEF IInv, TypeInv
<1> QED
    BY <1>2, <1>3 DEF IInv

\* What is shown is an export, and as clean.
LEMMA ExportCommandInvariant ==
    ASSUME IInv, NEW s \in Servers, ExportCommand(s)
    PROVE  IInv'
<1> USE DEF IInv
<1>1. PICK p \in Glob[MergedEntry(entry[s])["export_path"]] : shown' = [shown EXCEPT ![s] = file[p]]
    BY DEF ExportCommand, Latest
<1>2. p \in Paths
    <2>1. MergedEntry(entry[s])["export_path"] \in Paths
        <3>1. entry[s] \in Entries /\ local[s] \in Locals
            BY DEF TypeInv
        <3> QED
            BY <3>1, MergeKeeps
    <2> QED
        BY <1>1, <2>1, ExportConstants
<1>3. UNCHANGED <<entry, local, running, buffer, heard, single, file, crashes, last, passed>>
    BY DEF ExportCommand, confVars, histVars
<1>4. TypeInv'
    BY <1>1, <1>2, <1>3 DEF TypeInv, TypeOK, Running
<1>5. RunsAsMerged' /\ StartsEmpty' /\ Numbered' /\ BufferIsTheTail' /\ ExportIsTheTail'
    BY <1>3 DEF RunsAsMerged, StartsEmpty, Numbered, BufferIsTheTail, ExportIsTheTail, Running
<1>6. NoSecretIsExported'
    <2>1. \A t \in Servers : shown'[t] = shown[t] \/ shown'[t] = file[p]
        BY <1>1 DEF TypeInv, TypeOK
    <2>2. ASSUME NEW x \in {file'[q] : q \in Paths} \cup {shown'[t] : t \in Servers}, x # NoFile
          PROVE  x.by \in Servers /\ Clean(x, Parts \ {"method", "id"})
        <3>1. x \in {file[q] : q \in Paths} \cup {shown[t] : t \in Servers}
            BY <1>2, <1>3, <2>1, <2>2
        <3> QED
            BY <2>2, <3>1 DEF NoSecretIsExported, TypeInv, TypeOK, Export
    <2> QED
        BY <1>3, <2>2, InForceStays DEF NoSecretIsExported, Clean
<1> QED
    BY <1>4, <1>5, <1>6

\* Each of the steps keeps the invariant.
LEMMA StepInvariant == IInv /\ [Next]_vars => IInv'
<1> SUFFICES ASSUME IInv, [Next]_vars PROVE IInv'
    OBVIOUS
<1>1. ASSUME NEW s \in Servers, Start(s) PROVE IInv'
    BY <1>1, StartInvariant
<1>2. ASSUME NEW s \in Servers, NEW m \in Traffic, Message(s, m) PROVE IInv'
    BY <1>2, MessageInvariant
<1>3. ASSUME NEW s \in Servers, Crash(s) PROVE IInv'
    BY <1>3, CrashInvariant
<1>4. ASSUME NEW s \in Servers, Ends(s) PROVE IInv'
    BY <1>4, EndsInvariant
<1>5. ASSUME NEW s \in Servers, ExportCommand(s) PROVE IInv'
    BY <1>5, ExportCommandInvariant
<1>6. CASE UNCHANGED vars
    <2>1. UNCHANGED <<entry, local, running, buffer, heard, single, file, crashes, last, shown, passed>>
        BY <1>6 DEF vars, confVars, histVars
    <2>2. TypeInv' /\ RunsAsMerged' /\ StartsEmpty' /\ Numbered' /\ BufferIsTheTail'
        BY <2>1 DEF IInv, TypeInv, TypeOK, RunsAsMerged, StartsEmpty, Numbered, BufferIsTheTail, Running
    <2>3. ExportIsTheTail' /\ NoSecretIsExported'
        BY <2>1, ExportsStay DEF IInv, TypeInv
    <2> QED
        BY <2>2, <2>3 DEF IInv
<1> QED
    BY <1>1, <1>2, <1>3, <1>4, <1>5, <1>6 DEF Next

\* The three properties are invariants of the inductive one.
THEOREM ExportInvariance == Spec => []IInv
<1>1. Init => IInv
    BY InitInvariant
<1>2. IInv /\ [Next]_vars => IInv'
    BY StepInvariant
<1> QED
    BY <1>1, <1>2, PTL DEF Spec

\* A running server's configuration is valid and its buffer never outgrows its size
\* (run.go:104-106, recorder.go:135-137).
THEOREM BuffersAreBounded == Spec => []TypeOK
<1>1. IInv => TypeOK
    BY DEF IInv, TypeInv
<1> QED
    BY <1>1, ExportInvariance, PTL

\* Every export is the tail of what its run has passed as one message, for buffers of any
\* size and whatever batches pass in between (recording.go:15-24, recorder.go:101-108,
\* 135-144).
THEOREM ExportIsAlwaysTheTail == Spec => []ExportIsTheTail
<1>1. IInv => ExportIsTheTail
    BY DEF IInv
<1> QED
    BY <1>1, ExportInvariance, PTL

\* Whatever registry and override say and whichever patterns do not compile: in no export
\* is there, but for methods and ids, what a pattern in force matches (loader.go:265-267,
\* recorder.go:174-196, redact.go:23-37).
THEOREM NoSecretIsEverExported == Spec => []NoSecretIsExported
<1>1. IInv => NoSecretIsExported
    BY DEF IInv
<1> QED
    BY <1>1, ExportInvariance, PTL
-------------------------------------------------------------------------------
(***************************************************************************)
(* ShownIsOwn, a property of steps.  What hydra export finds in the paths  *)
(* of a server was written some crashes before: OwnInv says by whom.       *)
(***************************************************************************)
PathOf(s) == MergedEntry(entry[s])["export_path"]

\* Of the files that hydra export looks at, those of others do not match, and the server's
\* own is the last it has written.
OwnInv ==
    \A s \in Servers : local[s] = NoConfig /\ HasOwnPath(s) =>
        \A p \in Glob[PathOf(s)] : file[p] # NoFile => p = PathOf(s) /\ file[p] = last[s]

\* Each of the steps leaves a server's own path to its own last export.
LEMMA OwnStep == IInv /\ OwnInv /\ [Next]_vars => OwnInv'
<1> SUFFICES ASSUME IInv, OwnInv, [Next]_vars,
                    NEW s \in Servers, local'[s] = NoConfig, HasOwnPath(s)',
                    NEW p \in Glob[PathOf(s)]', file'[p] # NoFile
             PROVE  p = PathOf(s)' /\ file'[p] = last'[s]
    BY DEF OwnInv
<1>t. /\ file \in [Paths -> Export \cup {NoFile}] /\ last \in [Servers -> Export \cup {NoFile}]
      /\ entry \in [Servers -> Entries] /\ local \in [Servers -> Locals]
    BY DEF IInv, TypeInv, TypeOK
<1>c. UNCHANGED <<entry, local>>
    BY DEF Next, Start, Message, Crash, Ends, ExportCommand, vars, confVars
<1>o. /\ local[s] = NoConfig /\ HasOwnPath(s) /\ p \in Glob[PathOf(s)] /\ PathOf(s)' = PathOf(s)
    BY <1>c DEF HasOwnPath, PathOf
<1>i. file[p] # NoFile => p = PathOf(s) /\ file[p] = last[s]
    BY <1>o DEF OwnInv
<1>p. p \in Paths
    BY <1>o, <1>t, MergeKeeps, ExportConstants DEF PathOf
<1>1. CASE UNCHANGED <<file, last>>
    BY <1>1, <1>i, <1>o
<1>2. ASSUME NEW t \in Servers, Crash(t), ~UNCHANGED <<file, last>>
      PROVE  p = PathOf(s)' /\ file'[p] = last'[s]
  <2>1. /\ file' = [file EXCEPT ![ExportPath(running[t])] = Exported(t)]
        /\ last' = [last EXCEPT ![t] = Exported(t)]
    BY <1>2 DEF Crash
  <2>2. ExportPath(running[t]) = Merged(entry[t], local[t])["export_path"]
    BY <1>2 DEF Crash, ExportPath, IInv, RunsAsMerged
  <2>3. CASE t = s
    <3>1. ExportPath(running[t]) = PathOf(s)
      BY <2>2, <2>3, <1>o DEF Merged, MergedEntry, PathOf
    <3> QED
      BY <2>1, <2>3, <3>1, <1>i, <1>o, <1>p, <1>t
  <2>4. CASE t # s
    <3>1. ExportPath(running[t]) # p
      BY <2>2, <2>4, <1>o DEF HasOwnPath, PathOf
    <3> QED
      BY <2>1, <2>4, <3>1, <1>i, <1>o, <1>p, <1>t
  <2> QED
    BY <2>3, <2>4
<1> QED
    BY <1>1, <1>2 DEF Next, Start, Message, Ends, ExportCommand, vars

\* For any servers, paths and globs: a server that has no override and its paths to itself
\* is never shown the export of another, nor an older one of its own: CrashExports'
\* ShownIsOwn (export.go:55-89, proxy.go:161-163).
THEOREM ShownIsAlwaysOwn == Spec => ShownIsOwn
<1>1. Init => OwnInv
    BY MergeKeeps, ExportConstants DEF Init, OwnInv, PathOf
<1>2. IInv /\ OwnInv /\ [Next]_vars =>
        [\A s \in Servers :
            local[s] = NoConfig /\ HasOwnPath(s) /\ shown'[s] # shown[s] => shown'[s] = last[s]]_vars
  <2> SUFFICES ASSUME IInv, OwnInv, Next, NEW s \in Servers, local[s] = NoConfig, HasOwnPath(s),
                      shown'[s] # shown[s]
               PROVE  shown'[s] = last[s]
    OBVIOUS
  <2>1. PICK t \in Servers : ExportCommand(t)
    BY DEF Next, Start, Message, Crash, Ends
  <2>2. PICK p \in Latest(t) : shown' = [shown EXCEPT ![t] = file[p]]
    BY <2>1 DEF ExportCommand
  <2>3. t = s /\ shown'[s] = file[p]
    BY <2>2 DEF IInv, TypeInv, TypeOK
  <2>4. p \in Glob[PathOf(s)] /\ file[p] # NoFile
    BY <2>2, <2>3 DEF Latest, PathOf
  <2> QED
    BY <2>3, <2>4 DEF OwnInv
<1> QED
    BY <1>1, <1>2, OwnStep, ExportInvariance, PTL DEF Spec, ShownIsOwn
===============================================================================
