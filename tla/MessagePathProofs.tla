-------------------------- MODULE MessagePathProofs --------------------------
(***************************************************************************)
(* What hydra run is to its two ends: the message path implements a relay, *)
(* and ends at an end of file only when all is said.                       *)
(*                                                                         *)
(* Every step does one of four things to the messages on their way: it     *)
(* leaves them as they are (Unmoved), adds one at the end (Said), takes    *)
(* the first (Heard) or breaks the line (Lost).  That a reader which is    *)
(* done has nothing left, and that it sent its one error, is what the last *)
(* theorem needs beside the account of all that was said (AllAccounted).   *)
(***************************************************************************)
EXTENDS MessagePath, SelectionProofs

\* There are two ends, and each is the other's other.
LEMMA TwoEnds ==
    ASSUME NEW e \in Ends
    PROVE  /\ Other(e) \in Ends /\ Other(e) # e /\ Other(Other(e)) = e
           /\ Ends = {e, Other(e)}
BY DEF Ends, Other

BusyWrites == \A e \in busy : life[e] = "open" /\ Len(wrote[e]) < MaxLines[e]

DoneReaders ==
    \A e \in Ends : reader[e] = "done" =>
        life[e] # "open" /\ input[e] = <<>> /\ buffer[e] = <<>> /\ offer[e] = <<>>

ErrorsOf(e) == IF e = "client" THEN {"client eof"} ELSE {"child eof", "read error"}

ErrorsOfDone ==
    \A e \in Ends :
        /\ \A i \in DOMAIN errs : errs[i] \in ErrorsOf(e) => reader[e] = "done"
        /\ \A i, j \in DOMAIN errs : errs[i] \in ErrorsOf(e) /\ errs[j] \in ErrorsOf(e) => i = j

MessagesOnly ==
    /\ \A e \in Ends : offer[e] # <<>> => offer[e][1] \in Messages
    /\ writing # <<>> => writing[1].line \in Messages

PathInv == TypeOK /\ BusyWrites /\ DoneReaders /\ ErrorsOfDone /\ MessagesOnly

\* The bounds are numbers, as the assumption on the constants says.
LEMMA Bounds == PipeMax \in Nat /\ PipeMax > 0 /\ \A e \in Ends : MaxLines[e] \in Nat
BY PathConstants DEF PathConstants

\* Nothing said is a sequence of lines, too.
LEMMA EmptyLine == <<>> \in Seq(Lines) /\ Len(<<>>) = 0
OBVIOUS

\* What a stream holds for an end, and its first line and the rest of it.
LEMMA StreamTypes ==
    ASSUME NEW f \in Streams, NEW e \in Ends
    PROVE  /\ f[e] \in Seq(Lines) /\ Len(f[e]) \in Nat
           /\ f[e] # <<>> => /\ Head(f[e]) \in Lines /\ Tail(f[e]) \in Seq(Lines)
                             /\ Len(Tail(f[e])) = Len(f[e]) - 1
BY DEF Streams

\* At the start nothing is on its way and nobody is done.
LEMMA InitPath == Init => PathInv
<1> SUFFICES ASSUME Init PROVE PathInv
    OBVIOUS
<1>1. Nothing \in Streams /\ \A e \in Ends : Nothing[e] = <<>> /\ Len(Nothing[e]) = 0
    BY EmptyLine DEF Streams, Nothing
<1>2. EndsOK /\ LoopOK
    BY <1>1 DEF Init, EndsOK, LoopOK
<1>3. PipesOK
    <2>1. \A e \in Ends : Len(Nothing[e]) <= PipeMax
        BY <1>1, Bounds
    <2> QED
        BY <1>1, <2>1, Zenon DEF Init, PipesOK
<1>4. ReadersOK
    <2>1. <<>> \in Seq({"client eof", "child eof", "read error"}) /\ Len(<<>>) <= 2
        OBVIOUS
    <2>2. \A e \in Ends : Len(Nothing[e]) <= 1
        BY <1>1
    <2>3. [e \in Ends |-> "reading"] \in [Ends -> {"reading", "done"}]
        OBVIOUS
    <2> QED
        BY <1>1, <2>1, <2>2, <2>3, Zenon DEF Init, ReadersOK
<1>5. BusyWrites /\ DoneReaders /\ ErrorsOfDone /\ MessagesOnly
    BY <1>1 DEF Init, BusyWrites, DoneReaders, ErrorsOfDone, MessagesOnly
<1> QED
    BY <1>2, <1>3, <1>4, <1>5 DEF PathInv, TypeOK

\* What an end does except to write keeps the invariant.
LEMMA EndsStep ==
    ASSUME PathInv, NEW e \in Ends,
           BeginsLine(e) \/ ReadsLine(e) \/ ClosesOutput(e) \/ Leaves(e)
    PROVE  PathInv'
<1> USE DEF PathInv, TypeOK, pipeVars, readVars, loopVars
<1>1. CASE BeginsLine(e)
    BY <1>1 DEF BeginsLine, EndsOK, PipesOK, ReadersOK, LoopOK, BusyWrites, DoneReaders, ErrorsOfDone, MessagesOnly
<1>2. CASE ReadsLine(e)
    <2>1. got \in Streams /\ output \in Streams /\ output[e] # <<>>
            /\ \A d \in Ends : Len(output[d]) <= PipeMax
        BY <1>2 DEF ReadsLine, EndsOK, PipesOK
    <2>2. output' = [output EXCEPT ![e] = Tail(output[e])]
            /\ got' = [got EXCEPT ![e] = Append(got[e], Head(output[e]))]
        BY <1>2 DEF ReadsLine
    <2>3. Append(got[e], Head(output[e])) \in Seq(Lines)
        BY <2>1, StreamTypes
    <2>4. got' \in Streams
        BY <2>1, <2>2, <2>3 DEF Streams
    <2>5. output' \in Streams /\ \A d \in Ends : output'[d] = IF d = e THEN Tail(output[e]) ELSE output[d]
        <3>1. Tail(output[e]) \in Seq(Lines)
            BY <2>1, StreamTypes
        <3> QED
            BY <2>1, <2>2, <3>1 DEF Streams
    <2>6. \A d \in Ends : Len(output'[d]) <= PipeMax
        <3>1. Len(Tail(output[e])) <= PipeMax
            BY <2>1, StreamTypes, Bounds
        <3> QED
            BY <2>1, <2>5, <3>1
    <2> QED
        BY <1>2, <2>4, <2>5, <2>6 DEF ReadsLine, EndsOK, PipesOK, ReadersOK, LoopOK, BusyWrites, DoneReaders, ErrorsOfDone, MessagesOnly
<1>3. CASE ClosesOutput(e)
    BY <1>3 DEF ClosesOutput, EndsOK, PipesOK, ReadersOK, LoopOK, BusyWrites, DoneReaders, ErrorsOfDone, MessagesOnly
<1>4. CASE Leaves(e)
    <2> DEFINE none == <<>>
    <2>1. output' = [output EXCEPT ![e] = none] /\ output \in Streams
        BY <1>4 DEF Leaves, PipesOK
    <2>2. none \in Seq(Lines) /\ Len(none) = 0
        BY EmptyLine
    <2> HIDE DEF none
    <2>3. output' \in Streams /\ \A d \in Ends : output'[d] = IF d = e THEN none ELSE output[d]
        BY <2>1, <2>2 DEF Streams
    <2>4. \A d \in Ends : Len(output[d]) <= PipeMax
        BY DEF PipesOK
    <2>5. \A d \in Ends : Len(output'[d]) <= PipeMax
        BY <2>2, <2>3, <2>4, Bounds
    <2> QED
        BY <1>4, <2>3, <2>5 DEF Leaves, EndsOK, PipesOK, ReadersOK, LoopOK, BusyWrites, DoneReaders, ErrorsOfDone, MessagesOnly
<1> QED
    BY <1>1, <1>2, <1>3, <1>4

\* An end writes only what it began, so that no end exceeds its lines and no line
\* joins the pipe of a reader that is done.
LEMMA WritesStep ==
    ASSUME PathInv, NEW e \in Ends, NEW kind \in Kinds, WritesLine(e, kind)
    PROVE  PathInv'
<1> USE DEF PathInv, TypeOK, pipeVars, readVars, loopVars
<1> DEFINE line == [n |-> Len(wrote[e]) + 1, kind |-> kind]
<1>1. /\ wrote \in Streams /\ input \in Streams /\ e \in busy
      /\ wrote' = [wrote EXCEPT ![e] = Append(wrote[e], line)]
      /\ input' = [input EXCEPT ![e] = Append(input[e], line)]
      /\ Len(wrote[e]) < MaxLines[e] /\ Len(input[e]) < PipeMax
      /\ life[e] = "open"
    BY DEF WritesLine, EndsOK, PipesOK, BusyWrites
<1>2. line \in Lines
    <2>1. Len(wrote[e]) + 1 \in 1 .. MaxLines[e]
        BY <1>1, StreamTypes, Bounds
    <2> QED
        BY <2>1 DEF Lines
<1>3. UNCHANGED <<life, got, output, reaped, readVars, loopVars>> /\ busy' = busy \ {e}
    BY DEF WritesLine
<1> HIDE DEF line
<1>4. /\ Append(wrote[e], line) \in Seq(Lines)
      /\ Append(input[e], line) \in Seq(Lines) /\ Len(Append(input[e], line)) <= PipeMax
    BY <1>1, <1>2, StreamTypes, Bounds
<1>5. wrote' \in Streams /\ input' \in Streams
    BY <1>1, <1>4 DEF Streams
<1>6. \A d \in Ends : d # e => wrote'[d] = wrote[d] /\ input'[d] = input[d]
    BY <1>1 DEF Streams
<1>7. input'[e] = Append(input[e], line)
    BY <1>1 DEF Streams
<1>8. \A d \in Ends : Len(input'[d]) <= PipeMax
    BY <1>4, <1>6, <1>7 DEF PipesOK
<1>9. EndsOK' /\ LoopOK' /\ BusyWrites'
    BY <1>3, <1>5, <1>6 DEF EndsOK, LoopOK, BusyWrites
<1>10. PipesOK' /\ ReadersOK'
    BY <1>3, <1>5, <1>8 DEF PipesOK, ReadersOK
<1>11. DoneReaders' /\ ErrorsOfDone' /\ MessagesOnly'
    <2>1. reader[e] # "done"
        BY <1>1 DEF DoneReaders
    <2> QED
        BY <2>1, <1>3, <1>6 DEF DoneReaders, ErrorsOfDone, MessagesOnly
<1> QED
    BY <1>9, <1>10, <1>11

\* cmd.Wait takes what the pipe holds (process.go:326-336).
LEMMA ReapStep ==
    ASSUME PathInv, Reap
    PROVE  PathInv'
<1> USE DEF PathInv, TypeOK, pipeVars, readVars, loopVars
<1> DEFINE none == <<>>
<1>1. /\ input \in Streams /\ "child" \in Ends
      /\ input' = [input EXCEPT !["child"] = none]
      /\ reaped' = TRUE
      /\ UNCHANGED <<endVars, output, readVars, loopVars>>
    BY DEF Reap, PipesOK, Ends
<1>2. none \in Seq(Lines) /\ Len(none) = 0
    BY EmptyLine
<1>3. input' \in Streams /\ \A d \in Ends : input'[d] = none \/ input'[d] = input[d]
    <2> HIDE DEF none
    <2> QED
        BY <1>1, <1>2 DEF Streams
<1>4. \A d \in Ends : Len(input'[d]) <= PipeMax
    BY <1>2, <1>3, Bounds DEF PipesOK
<1>5. EndsOK' /\ LoopOK' /\ BusyWrites' /\ ErrorsOfDone' /\ MessagesOnly'
    BY <1>1 DEF endVars, EndsOK, LoopOK, BusyWrites, ErrorsOfDone, MessagesOnly
<1>6. PipesOK' /\ ReadersOK'
    BY <1>1, <1>3, <1>4 DEF PipesOK, ReadersOK
<1>7. DoneReaders'
    BY <1>1, <1>3 DEF endVars, DoneReaders
<1> QED
    BY <1>5, <1>6, <1>7

\* A read of the pipe moves lines, and makes none (stdio.go:59-73).
LEMMA FillStep ==
    ASSUME PathInv, NEW e \in Ends, Fill(e)
    PROVE  PathInv'
<1> USE DEF PathInv, TypeOK, pipeVars, readVars, loopVars
<1>1. PICK k \in 1 .. Len(input[e]) :
        /\ buffer' = [buffer EXCEPT ![e] = SubSeq(input[e], 1, k)]
        /\ input' = [input EXCEPT ![e] = SubSeq(input[e], k + 1, Len(input[e]))]
    BY DEF Fill
<1>2. /\ UNCHANGED <<endVars, output, reaped, offer, reader, errs, loopVars>>
      /\ reader[e] = "reading" /\ input \in Streams /\ buffer \in Streams
    BY DEF Fill, Idle, PipesOK, ReadersOK
<1>3. /\ SubSeq(input[e], 1, k) \in Seq(Lines)
      /\ SubSeq(input[e], k + 1, Len(input[e])) \in Seq(Lines)
      /\ Len(SubSeq(input[e], k + 1, Len(input[e]))) <= Len(input[e])
    BY <1>1, <1>2, StreamTypes
<1>4. /\ buffer' \in Streams /\ input' \in Streams
      /\ input'[e] = SubSeq(input[e], k + 1, Len(input[e]))
      /\ \A d \in Ends : d # e => buffer'[d] = buffer[d] /\ input'[d] = input[d]
    BY <1>1, <1>2, <1>3 DEF Streams
<1>5. \A d \in Ends : Len(input'[d]) <= PipeMax
    <2>1. Len(input[e]) <= PipeMax /\ Len(input[e]) \in Nat /\ Len(input'[e]) \in Nat
        BY <1>2, <1>4, StreamTypes DEF PipesOK
    <2>2. Len(input'[e]) <= PipeMax
        BY <2>1, <1>3, <1>4, Bounds
    <2> QED
        BY <2>2, <1>4 DEF PipesOK
<1>6. EndsOK' /\ LoopOK' /\ BusyWrites' /\ ErrorsOfDone' /\ MessagesOnly'
    BY <1>2 DEF endVars, EndsOK, LoopOK, BusyWrites, ErrorsOfDone, MessagesOnly
<1>7. PipesOK' /\ ReadersOK'
    BY <1>2, <1>4, <1>5 DEF PipesOK, ReadersOK
<1>8. DoneReaders'
    BY <1>2, <1>4 DEF endVars, DoneReaders
<1> QED
    BY <1>6, <1>7, <1>8

\* Only a message is offered to the loop (proxy.go:194-206).
LEMMA TakeLineStep ==
    ASSUME PathInv, NEW e \in Ends, TakeLine(e)
    PROVE  PathInv'
<1> USE DEF PathInv, TypeOK, pipeVars, readVars, loopVars
<1> DEFINE next == IF Passes(Head(buffer[e])) THEN <<Head(buffer[e])>> ELSE <<>>
<1>1. /\ offer \in Streams /\ buffer \in Streams /\ buffer[e] # <<>>
      /\ offer' = [offer EXCEPT ![e] = next]
      /\ buffer' = [buffer EXCEPT ![e] = Tail(buffer[e])]
      /\ UNCHANGED <<endVars, pipeVars, reader, errs, loopVars>>
    BY DEF TakeLine, ReadersOK
<1>2. /\ Tail(buffer[e]) \in Seq(Lines) /\ Head(buffer[e]) \in Lines
    BY <1>1, StreamTypes
<1>3. next \in Seq(Lines) /\ Len(next) <= 1 /\ (next # <<>> => next[1] \in Messages)
    <2>1. CASE Passes(Head(buffer[e]))
        <3>1. Head(buffer[e]) \in Messages
            BY <2>1, <1>2 DEF Messages
        <3> QED
            BY <2>1, <3>1, <1>2
    <2>2. CASE ~Passes(Head(buffer[e]))
        BY <2>2
    <2> QED
        BY <2>1, <2>2
<1> HIDE DEF next
<1>4. /\ offer' \in Streams /\ buffer' \in Streams /\ offer'[e] = next
      /\ \A d \in Ends : d # e => offer'[d] = offer[d] /\ buffer'[d] = buffer[d]
    BY <1>1, <1>2, <1>3 DEF Streams
<1>5. EndsOK' /\ LoopOK' /\ PipesOK' /\ BusyWrites' /\ ErrorsOfDone'
    BY <1>1 DEF endVars, EndsOK, LoopOK, PipesOK, BusyWrites, ErrorsOfDone
<1>6. ReadersOK'
    BY <1>1, <1>3, <1>4 DEF ReadersOK
<1>7. MessagesOnly'
    BY <1>1, <1>3, <1>4 DEF MessagesOnly
<1>8. DoneReaders'
    BY <1>1, <1>4 DEF endVars, DoneReaders
<1> QED
    BY <1>5, <1>6, <1>7, <1>8

ErrorKinds == {"client eof", "child eof", "read error"}

\* A reader sends one error at most, and so errCh, with room for two, never blocks it
\* (proxy.go:149-154).
LEMMA ReadFailsStep ==
    ASSUME PathInv, NEW e \in Ends, ReadFails(e)
    PROVE  PathInv'
<1> USE DEF PathInv, TypeOK, pipeVars, readVars, loopVars
<1> DEFINE err == ReadError(e)
<1>1. /\ errs' = Append(errs, err) /\ reader' = [reader EXCEPT ![e] = "done"]
      /\ UNCHANGED <<endVars, pipeVars, buffer, offer, loopVars>>
      /\ reader[e] = "reading" /\ life[e] # "open"
      /\ input[e] = <<>> /\ buffer[e] = <<>> /\ offer[e] = <<>>
      /\ reader \in [Ends -> {"reading", "done"}]
    BY DEF ReadFails, AtEnd, Idle, ReadersOK
<1>2. errs \in Seq(ErrorKinds) /\ Len(errs) \in Nat /\ Len(errs) <= 2
    <2>1. errs \in Seq(ErrorKinds) /\ Len(errs) <= 2
        BY Zenon DEF ReadersOK, ErrorKinds
    <2> QED
        BY <2>1
<1>3. err \in ErrorsOf(e) /\ err \in ErrorKinds /\ err \notin ErrorsOf(Other(e))
    BY DEF Ends, Other, ReadError, ErrorsOf, ErrorKinds
<1>4. \A i \in DOMAIN errs : errs[i] \notin ErrorsOf(e)
    BY <1>1 DEF ErrorsOfDone
<1>5. Len(errs) # 2
    <2> SUFFICES ASSUME Len(errs) = 2 PROVE FALSE
        OBVIOUS
    <2>1. 1 \in DOMAIN errs /\ 2 \in DOMAIN errs /\ errs[1] \in ErrorKinds /\ errs[2] \in ErrorKinds
        BY <1>2
    <2>2. errs[1] \in ErrorsOf(Other(e)) /\ errs[2] \in ErrorsOf(Other(e))
        BY <1>4, <2>1 DEF Ends, Other, ErrorsOf, ErrorKinds
    <2>3. 1 = 2
        BY <2>1, <2>2, TwoEnds DEF ErrorsOfDone
    <2> QED
        BY <2>3
<1> HIDE DEF err
<1>6. errs' \in Seq(ErrorKinds) /\ Len(errs') <= 2
    <2>1. errs' = Append(errs, err) /\ err \in ErrorKinds
        BY <1>1, <1>3
    <2>2. errs' \in Seq(ErrorKinds) /\ Len(errs') = Len(errs) + 1
        BY <2>1, <1>2
    <2>3. \A n \in Nat : n <= 2 /\ n # 2 => n + 1 <= 2
        OBVIOUS
    <2> QED
        BY <2>2, <2>3, <1>2, <1>5, Zenon
<1>7. /\ reader' \in [Ends -> {"reading", "done"}] /\ reader'[e] = "done"
      /\ \A d \in Ends : d # e => reader'[d] = reader[d]
    BY <1>1
<1>8. EndsOK' /\ LoopOK' /\ PipesOK' /\ BusyWrites' /\ MessagesOnly'
    BY <1>1 DEF endVars, EndsOK, LoopOK, PipesOK, BusyWrites, MessagesOnly
<1>9. ReadersOK'
    BY <1>1, <1>6, <1>7 DEF ReadersOK, ErrorKinds
<1>10. DoneReaders'
    BY <1>1, <1>7 DEF endVars, DoneReaders
<1>11. ErrorsOfDone'
    <2>1. /\ DOMAIN errs = 1 .. Len(errs) /\ DOMAIN errs' = 1 .. Len(errs) + 1
          /\ errs'[Len(errs) + 1] = err /\ \A i \in 1 .. Len(errs) : errs'[i] = errs[i]
        BY <1>1, <1>2, <1>3
    <2>2. ASSUME NEW d \in Ends, NEW i \in DOMAIN errs', errs'[i] \in ErrorsOf(d)
          PROVE  \/ d = e /\ i = Len(errs) + 1
                 \/ d # e /\ i \in DOMAIN errs /\ errs[i] \in ErrorsOf(d)
        <3>1. CASE i = Len(errs) + 1
            BY <2>1, <2>2, <3>1, <1>3, TwoEnds
        <3>2. CASE i \in DOMAIN errs
            BY <2>1, <2>2, <3>2, <1>4
        <3> QED
            BY <2>1, <3>1, <3>2, <1>2
    <2> QED
        BY <2>2, <1>7 DEF ErrorsOfDone
<1> QED
    BY <1>8, <1>9, <1>10, <1>11

\* What the loop takes and forwards are messages.
LEMMA LoopStepKeeps ==
    ASSUME PathInv, NEW e \in Ends, Take(e) \/ Forward \/ ForwardFails
    PROVE  PathInv'
<1> USE DEF PathInv, TypeOK, pipeVars, readVars, loopVars
<1> DEFINE none == <<>>
<1>1. CASE Take(e)
    <2>1. /\ offer \in Streams /\ offer[e] # <<>>
          /\ offer' = [offer EXCEPT ![e] = none]
          /\ writing' = <<[to |-> Other(e), line |-> Head(offer[e])]>>
          /\ UNCHANGED <<endVars, pipeVars, buffer, reader, errs, ended>>
        BY <1>1 DEF Take, ReadersOK
    <2>2. Head(offer[e]) \in Lines /\ Head(offer[e]) \in Messages
        <3>1. Head(offer[e]) = offer[e][1]
            BY <2>1 DEF Streams
        <3> QED
            BY <2>1, <3>1, StreamTypes DEF MessagesOnly
    <2>3. none \in Seq(Lines) /\ Len(none) = 0
        BY EmptyLine
    <2>4. offer' \in Streams /\ offer'[e] = none /\ \A d \in Ends : d # e => offer'[d] = offer[d]
        <3> HIDE DEF none
        <3> QED
            BY <2>1, <2>3 DEF Streams
    <2>5. EndsOK' /\ PipesOK' /\ BusyWrites' /\ ErrorsOfDone'
        BY <2>1 DEF endVars, EndsOK, PipesOK, BusyWrites, ErrorsOfDone
    <2>6. LoopOK'
        <3>1. [to |-> Other(e), line |-> Head(offer[e])] \in [to : Ends, line : Lines]
            BY <2>2, TwoEnds
        <3> QED
            BY <2>1, <3>1 DEF LoopOK
    <2>7. ReadersOK'
        <3>1. Len(offer'[e]) <= 1
            BY <2>3, <2>4
        <3>2. \A d \in Ends : Len(offer'[d]) <= 1
            BY <2>4, <3>1 DEF ReadersOK
        <3> QED
            BY <2>1, <2>4, <3>2 DEF ReadersOK
    <2>8. DoneReaders' /\ MessagesOnly'
        BY <2>1, <2>2, <2>4 DEF endVars, DoneReaders, MessagesOnly
    <2> QED
        BY <2>5, <2>6, <2>7, <2>8
<1>2. CASE Forward
    <2> DEFINE w == Head(writing)
    <2>1. /\ output \in Streams /\ writing # <<>> /\ writing' = <<>>
          /\ w \in [to : Ends, line : Lines]
          /\ Len(output[w.to]) < PipeMax
          /\ output' = [output EXCEPT ![w.to] = Append(output[w.to], w.line)]
          /\ UNCHANGED <<endVars, input, reaped, readVars, ended>>
        <3>1. writing # <<>> /\ writing \in {<<>>} \cup {<<x>> : x \in [to : Ends, line : Lines]}
            BY <1>2 DEF Forward, LoopOK
        <3>2. w \in [to : Ends, line : Lines]
            <4>1. PICK x \in [to : Ends, line : Lines] : writing = <<x>>
                BY <3>1
            <4>2. Head(<<x>>) = x
                OBVIOUS
            <4> QED
                BY <4>1, <4>2
        <3> QED
            BY <1>2, <3>1, <3>2 DEF Forward, PipesOK
    <2> HIDE DEF w
    <2>2. Append(output[w.to], w.line) \in Seq(Lines) /\ Len(Append(output[w.to], w.line)) <= PipeMax
        BY <2>1, StreamTypes, Bounds
    <2>3. output' \in Streams /\ \A d \in Ends : Len(output'[d]) <= PipeMax
        BY <2>1, <2>2 DEF Streams, PipesOK
    <2>4. EndsOK' /\ ReadersOK' /\ BusyWrites' /\ ErrorsOfDone' /\ DoneReaders' /\ MessagesOnly'
        BY <2>1 DEF endVars, EndsOK, ReadersOK, BusyWrites, ErrorsOfDone, DoneReaders, MessagesOnly
    <2>5. PipesOK' /\ LoopOK'
        BY <2>1, <2>3 DEF PipesOK, LoopOK
    <2> QED
        BY <2>4, <2>5
<1>3. CASE ForwardFails
    <2>1. UNCHANGED <<endVars, pipeVars, readVars, ended>> /\ writing' = <<>>
        BY <1>3 DEF ForwardFails
    <2>2. LoopOK'
        BY <2>1 DEF LoopOK
    <2> QED
        BY <2>1, <2>2 DEF endVars, EndsOK, PipesOK, ReadersOK, BusyWrites, DoneReaders, ErrorsOfDone, MessagesOnly
<1> QED
    BY <1>1, <1>2, <1>3

\* The end of the program leaves nothing inside it.
LEMMA EndProgramKeeps ==
    ASSUME PathInv, NEW how \in ErrorKinds \cup {"sigpipe"}, EndProgram(how)
    PROVE  PathInv'
<1> USE DEF PathInv, TypeOK
<1>1. /\ ended' = how /\ input' = Nothing /\ buffer' = Nothing /\ offer' = Nothing
      /\ errs' = <<>> /\ writing' = <<>> /\ busy' = {}
      /\ UNCHANGED <<life, wrote, got, output, reaped, reader>>
    BY DEF EndProgram
<1>2. Nothing \in Streams /\ \A d \in Ends : Nothing[d] = <<>> /\ Len(Nothing[d]) = 0
    BY EmptyLine DEF Streams, Nothing
<1>3. EndsOK' /\ LoopOK'
    BY <1>1 DEF EndsOK, LoopOK, ErrorKinds
<1>4. PipesOK'
    <2>1. \A d \in Ends : Len(input'[d]) <= PipeMax
        BY <1>1, <1>2, Bounds
    <2> QED
        BY <1>1, <1>2, <2>1 DEF PipesOK
<1>5. ReadersOK'
    <2>1. errs' \in Seq(ErrorKinds) /\ Len(errs') <= 2
        BY <1>1
    <2>2. \A d \in Ends : Len(offer'[d]) <= 1
        BY <1>1, <1>2
    <2> QED
        BY <1>1, <1>2, <2>1, <2>2 DEF ReadersOK, ErrorKinds
<1>6. BusyWrites' /\ ErrorsOfDone'
    BY <1>1 DEF BusyWrites, ErrorsOfDone
<1>7. DoneReaders' /\ MessagesOnly'
    BY <1>1, <1>2 DEF DoneReaders, MessagesOnly
<1> QED
    BY <1>3, <1>4, <1>5, <1>6, <1>7

\* The loop ends with an error that a reader sent, or by SIGPIPE.
LEMMA EndOfProgram ==
    ASSUME PathInv, BrokenPipe \/ TakeError
    PROVE  \E how \in ErrorKinds \cup {"sigpipe"} : EndProgram(how)
<1>1. CASE BrokenPipe
    BY <1>1 DEF BrokenPipe
<1>2. CASE TakeError
    <2>1. errs # <<>> /\ errs \in Seq(ErrorKinds) /\ EndProgram(Head(errs))
        BY <1>2 DEF TakeError, PathInv, TypeOK, ReadersOK, ErrorKinds
    <2>2. Head(errs) \in ErrorKinds
        BY <2>1
    <2> QED
        BY <2>1, <2>2
<1> QED
    BY <1>1, <1>2

\* The invariant is inductive.
LEMMA PathInvStep == PathInv /\ [Next]_vars => PathInv'
<1> SUFFICES ASSUME PathInv, [Next]_vars PROVE PathInv'
    OBVIOUS
<1>1. CASE Next
    <2>1. ASSUME NEW e \in Ends, BeginsLine(e) \/ Writes(e) \/ ReadsLine(e) \/ ClosesOutput(e) \/ Leaves(e)
          PROVE  PathInv'
        BY <2>1, EndsStep, WritesStep DEF Writes
    <2>2. CASE Reap
        BY <2>2, ReapStep
    <2>3. ASSUME NEW e \in Ends, ReaderStep(e)
          PROVE  PathInv'
        BY <2>3, FillStep, TakeLineStep, ReadFailsStep DEF ReaderStep
    <2>4. CASE LoopStep
        <3>1. "client" \in Ends
            BY DEF Ends
        <3> QED
            BY <2>4, <3>1, LoopStepKeeps, EndOfProgram, EndProgramKeeps DEF LoopStep
    <2>5. CASE Rest
        BY <2>5 DEF Rest, vars, endVars, pipeVars, readVars, loopVars, PathInv, TypeOK, EndsOK,
           PipesOK, ReadersOK, LoopOK, BusyWrites, DoneReaders, ErrorsOfDone, MessagesOnly
    <2> QED
        BY <1>1, <2>1, <2>2, <2>3, <2>4, <2>5 DEF Next
<1>2. CASE UNCHANGED vars
    BY <1>2 DEF vars, endVars, pipeVars, readVars, loopVars, PathInv, TypeOK, EndsOK,
       PipesOK, ReadersOK, LoopOK, BusyWrites, DoneReaders, ErrorsOfDone, MessagesOnly
<1> QED
    BY <1>1, <1>2

\* Every variable has its type; the pipes hold what they can hold, a reader offers one
\* message at a time and errCh never has more than two errors (proxy.go:149-208).
THEOREM PathTyping == Spec => []TypeOK
<1>1. Spec => []PathInv
    BY InitPath, PathInvStep, PTL DEF Spec
<1>2. PathInv => TypeOK
    BY DEF PathInv
<1> QED
    BY <1>1, <1>2, PTL

\* The messages among some lines are lines.
LEMMA MessagesOfType ==
    ASSUME NEW s \in Seq(Lines)
    PROVE  MessagesOf(s) \in Seq(Lines)
<1>1. Selected(s, Messages) \in Seq(Lines \cap Messages)
    BY SelectedType
<1>2. Lines \cap Messages \subseteq Lines
    OBVIOUS
<1>3. Selected(s, Messages) \in Seq(Lines)
    BY <1>1, <1>2, SeqMonotonic
<1> QED
    BY <1>3 DEF MessagesOf

\* There are none in nothing.
LEMMA NoMessages == MessagesOf(<<>>) = <<>>
BY SelectedOfNone DEF MessagesOf

\* What the loop is writing to an end is a line, or nothing.
LEMMA WritingType ==
    ASSUME LoopOK, NEW e \in Ends
    PROVE  WritingTo(e) \in Seq(Lines)
<1>1. CASE writing = <<>>
    BY <1>1 DEF WritingTo
<1>2. CASE writing # <<>>
    <2>1. PICK w \in [to : Ends, line : Lines] : writing = <<w>>
        BY <1>2 DEF LoopOK
    <2>2. Head(writing) = w /\ w.line \in Lines
        BY <2>1
    <2>3. WritingTo(e) \in {<<>>, <<w.line>>}
        BY <2>2 DEF WritingTo
    <2>4. <<>> \in Seq(Lines) /\ <<w.line>> \in Seq(Lines)
        BY <2>2
    <2> QED
        BY <2>3, <2>4
<1> QED
    BY <1>1, <1>2

\* The five places on the way of a line hold lines.
LEMMA PartTypes ==
    ASSUME TypeOK, NEW e \in Ends
    PROVE  /\ output[Other(e)] \in Seq(Lines) /\ WritingTo(Other(e)) \in Seq(Lines)
           /\ offer[e] \in Seq(Lines)
           /\ MessagesOf(buffer[e]) \in Seq(Lines) /\ MessagesOf(input[e]) \in Seq(Lines)
<1>1. /\ output \in Streams /\ offer \in Streams /\ buffer \in Streams /\ input \in Streams
      /\ LoopOK /\ Other(e) \in Ends
    BY TwoEnds DEF TypeOK, PipesOK, ReadersOK
<1>2. /\ output[Other(e)] \in Seq(Lines) /\ offer[e] \in Seq(Lines)
      /\ buffer[e] \in Seq(Lines) /\ input[e] \in Seq(Lines)
    BY <1>1, StreamTypes
<1> QED
    BY <1>1, <1>2, WritingType, MessagesOfType

Near(e) == output[Other(e)]
Held(e) == WritingTo(Other(e))
Buffered(e) == MessagesOf(buffer[e])
Piped(e) == MessagesOf(input[e])

\* What is on its way, with any two neighbours of it taken together.
FlowForms(e) ==
    /\ life[Other(e)] = "gone" => OnItsWay(e) = <<>>
    /\ life[Other(e)] # "gone" =>
        /\ OnItsWay(e) = Cat(Near(e), Cat(Held(e), Cat(offer[e], Cat(Buffered(e), Piped(e)))))
        /\ OnItsWay(e) = Cat(Near(e), Cat(Held(e), Cat(Cat(offer[e], Buffered(e)), Piped(e))))
        /\ OnItsWay(e) = Cat(Near(e), Cat(Cat(Held(e), offer[e]), Cat(Buffered(e), Piped(e))))
        /\ OnItsWay(e) = Cat(Cat(Near(e), Held(e)), Cat(offer[e], Cat(Buffered(e), Piped(e))))
        /\ OnItsWay(e) = Cat(Cat(Near(e), Cat(Held(e), Cat(offer[e], Buffered(e)))), Piped(e))

\* Five sequences one after the other, however they are grouped.
LEMMA FiveForms ==
    ASSUME NEW S, NEW a \in Seq(S), NEW b \in Seq(S), NEW c \in Seq(S), NEW d \in Seq(S), NEW f \in Seq(S)
    PROVE  LET all == Cat(Cat(Cat(Cat(a, b), c), d), f)
           IN  /\ all = Cat(a, Cat(b, Cat(c, Cat(d, f))))
               /\ all = Cat(a, Cat(b, Cat(Cat(c, d), f)))
               /\ all = Cat(a, Cat(Cat(b, c), Cat(d, f)))
               /\ all = Cat(Cat(a, b), Cat(c, Cat(d, f)))
               /\ all = Cat(Cat(a, Cat(b, Cat(c, d))), f)
<1>1. /\ Cat(a, b) \in Seq(S) /\ Cat(Cat(a, b), c) \in Seq(S) /\ Cat(b, c) \in Seq(S)
      /\ Cat(c, d) \in Seq(S) /\ Cat(d, f) \in Seq(S)
    BY CatType
<1>2. Cat(c, Cat(d, f)) \in Seq(S) /\ Cat(b, Cat(c, d)) \in Seq(S)
    BY <1>1, CatType
<1>3. Cat(Cat(Cat(Cat(a, b), c), d), f) = Cat(Cat(Cat(a, b), c), Cat(d, f))
    BY <1>1, CatAssoc
<1>4. Cat(Cat(Cat(a, b), c), Cat(d, f)) = Cat(Cat(a, b), Cat(c, Cat(d, f)))
    BY <1>1, CatAssoc
<1>5. Cat(Cat(a, b), Cat(c, Cat(d, f))) = Cat(a, Cat(b, Cat(c, Cat(d, f))))
    BY <1>2, CatAssoc
<1>6. Cat(c, Cat(d, f)) = Cat(Cat(c, d), f)
    BY CatAssoc
<1>7. Cat(b, Cat(c, Cat(d, f))) = Cat(Cat(b, c), Cat(d, f))
    BY <1>1, CatAssoc
<1>8. Cat(Cat(a, Cat(b, Cat(c, d))), f) = Cat(a, Cat(Cat(b, Cat(c, d)), f))
    BY <1>2, CatAssoc
<1>9. Cat(Cat(b, Cat(c, d)), f) = Cat(b, Cat(Cat(c, d), f))
    BY <1>1, CatAssoc
<1> QED
    BY <1>3, <1>4, <1>5, <1>6, <1>7, <1>8, <1>9

\* What is on its way, grouped as each step needs it.
LEMMA FlowHasForms == TypeOK => \A e \in Ends : FlowForms(e)
<1> SUFFICES ASSUME TypeOK, NEW e \in Ends PROVE FlowForms(e)
    OBVIOUS
<1> DEFINE a == Near(e)
           b == Held(e)
           c == offer[e]
           d == Buffered(e)
           f == Piped(e)
<1>1. OnItsWay(e) = IF life[Other(e)] = "gone" THEN <<>> ELSE Cat(Cat(Cat(Cat(a, b), c), d), f)
    BY Zenon DEF OnItsWay, Cat, Near, Held, Buffered, Piped
<1>2. a \in Seq(Lines) /\ b \in Seq(Lines) /\ c \in Seq(Lines) /\ d \in Seq(Lines) /\ f \in Seq(Lines)
    BY PartTypes DEF Near, Held, Buffered, Piped
<1> DEFINE all == Cat(Cat(Cat(Cat(a, b), c), d), f)
<1>3. /\ all = Cat(a, Cat(b, Cat(c, Cat(d, f)))) /\ all = Cat(a, Cat(b, Cat(Cat(c, d), f)))
      /\ all = Cat(a, Cat(Cat(b, c), Cat(d, f))) /\ all = Cat(Cat(a, b), Cat(c, Cat(d, f)))
      /\ all = Cat(Cat(a, Cat(b, Cat(c, d))), f)
    <2> HIDE DEF a, b, c, d, f
    <2> QED
        BY <1>2, FiveForms
<1> QED
    BY <1>1, <1>3, Zenon DEF FlowForms

\* The same after a step.
LEMMA PrimedForms == TypeOK' => \A e \in Ends : FlowForms(e)'
<1>1. (TypeOK => \A e \in Ends : FlowForms(e))'
    BY FlowHasForms, PTL
<1> QED
    BY <1>1

\* What is on its way are lines.
LEMMA FlowType == TypeOK => \A e \in Ends : OnItsWay(e) \in Seq(Lines)
<1> SUFFICES ASSUME TypeOK, NEW e \in Ends PROVE OnItsWay(e) \in Seq(Lines)
    OBVIOUS
<1>1. Near(e) \in Seq(Lines) /\ Held(e) \in Seq(Lines) /\ offer[e] \in Seq(Lines)
    BY PartTypes DEF Near, Held
<1>2. Buffered(e) \in Seq(Lines) /\ Piped(e) \in Seq(Lines)
    BY PartTypes DEF Buffered, Piped
<1>3. Cat(offer[e], Cat(Buffered(e), Piped(e))) \in Seq(Lines)
    BY <1>1, <1>2, CatType
<1>4. Cat(Near(e), Cat(Held(e), Cat(offer[e], Cat(Buffered(e), Piped(e))))) \in Seq(Lines)
    BY <1>1, <1>3, CatType
<1>5. <<>> \in Seq(Lines)
    OBVIOUS
<1> QED
    BY <1>4, <1>5, FlowHasForms DEF FlowForms

EofOf(e) == IF e = "client" THEN "client eof" ELSE "child eof"

Whole(e) ==
    /\ Running /\ life[Other(e)] # "gone"
    /\ e = "child" => ~reaped \/ \E i \in DOMAIN errs : errs[i] = "child eof"

Unmoved ==
    /\ UNCHANGED <<got, wrote, BrokenLines>>
    /\ \A e \in Ends : OnItsWay(e)' = OnItsWay(e) /\ (Whole(e)' => Whole(e))

\* To begin a line, to close an output and to meet the end of a pipe move no message,
\* and only the error of a pipe that was read to its end marks the child's as whole.
LEMMA QuietSteps ==
    ASSUME PathInv, NEW e \in Ends, BeginsLine(e) \/ ClosesOutput(e) \/ ReadFails(e) \/ Rest
    PROVE  Unmoved
<1> USE DEF pipeVars, readVars, loopVars, endVars
<1>1. /\ UNCHANGED <<got, wrote, output, input, buffer, offer, writing, ended, reaped>>
      /\ \A d \in Ends : life'[d] = "gone" <=> life[d] = "gone"
    BY Zenon DEF BeginsLine, ClosesOutput, ReadFails, Rest, vars, PathInv, TypeOK, EndsOK
<1>2. \A d \in Ends : OnItsWay(d)' = OnItsWay(d)
    <2> SUFFICES ASSUME NEW d \in Ends PROVE OnItsWay(d)' = OnItsWay(d)
        OBVIOUS
    <2>1. WritingTo(Other(d))' = WritingTo(Other(d))
        BY <1>1 DEF WritingTo
    <2>2. life'[Other(d)] = "gone" <=> life[Other(d)] = "gone"
        BY <1>1, TwoEnds
    <2> QED
        BY <1>1, <2>1, <2>2 DEF OnItsWay, MessagesOf
<1>3. BrokenLines' = BrokenLines
    BY <1>1, TwoEnds DEF BrokenLines, Running
<1>4. \A d \in Ends : Whole(d)' => Whole(d)
    <2> SUFFICES ASSUME NEW d \in Ends, Whole(d)' PROVE Whole(d)
        OBVIOUS
    <2>1. Running /\ life[Other(d)] # "gone"
        BY <1>1, TwoEnds DEF Whole, Running
    <2>2. ASSUME d = "child", reaped
          PROVE  \E i \in DOMAIN errs : errs[i] = "child eof"
        <3>1. PICK i \in DOMAIN errs' : errs'[i] = "child eof"
            BY <1>1, <2>2 DEF Whole
        <3>2. CASE errs' = errs
            BY <3>1, <3>2
        <3>3. CASE ReadFails(e)
            <4> DEFINE err == ReadError(e)
            <4>1. errs' = Append(errs, err) /\ err # "child eof" /\ err \in ErrorKinds
                BY <3>3, <2>2 DEF ReadFails, ReadError, Ends, ErrorKinds
            <4>2. errs \in Seq(ErrorKinds)
                BY Zenon DEF PathInv, TypeOK, ReadersOK, ErrorKinds
            <4> HIDE DEF err
            <4>3. /\ DOMAIN errs' = 1 .. Len(errs) + 1 /\ DOMAIN errs = 1 .. Len(errs)
                  /\ errs'[Len(errs) + 1] = err /\ \A j \in 1 .. Len(errs) : errs'[j] = errs[j]
                <5>1. errs' = Append(errs, err) /\ err \in ErrorKinds
                    BY <4>1
                <5>2. Len(errs) \in Nat
                    BY <4>2
                <5> QED
                    BY <4>2, <5>1, <5>2
            <4>4. \A n \in Nat : \A j \in 1 .. n + 1 : j # n + 1 => j \in 1 .. n
                OBVIOUS
            <4>5. Len(errs) \in Nat
                BY <4>2
            <4>6. i # Len(errs) + 1
                BY <4>1, <4>3, <3>1, Zenon
            <4>7. i \in 1 .. Len(errs)
                BY <4>3, <4>4, <4>5, <4>6, Zenon
            <4> QED
                BY <4>3, <4>7, <3>1, Zenon
        <3> QED
            BY <3>2, <3>3, Zenon DEF BeginsLine, ClosesOutput, ReadFails, Rest, vars
    <2> QED
        BY <2>1, <2>2 DEF Whole
<1> QED
    BY <1>1, <1>2, <1>3, <1>4 DEF Unmoved

\* A step that moves messages inside hydra keeps the rest as it is.
LEMMA UnmovedByParts ==
    ASSUME PathInv, PathInv', UNCHANGED <<got, wrote, life, ended, reaped, errs>>, NEW e \in Ends,
           OnItsWay(e)' = OnItsWay(e), OnItsWay(Other(e))' = OnItsWay(Other(e))
    PROVE  Unmoved
<1>1. \A d \in Ends : OnItsWay(d)' = OnItsWay(d)
    BY TwoEnds
<1>2. BrokenLines' = BrokenLines
    BY DEF BrokenLines, Running
<1>3. \A d \in Ends : Whole(d)' => Whole(d)
    BY DEF Whole, Running
<1> QED
    BY <1>1, <1>2, <1>3 DEF Unmoved

\* The messages of two pieces are those of the first and then those of the second.
LEMMA SelectedLines ==
    \A s, t \in Seq(Lines) : MessagesOf(Cat(s, t)) = Cat(MessagesOf(s), MessagesOf(t))
BY SelectedCat DEF MessagesOf

\* A read of the pipe moves no message past another.
LEMMA FillMoves ==
    ASSUME PathInv, PathInv', NEW e \in Ends, Fill(e)
    PROVE  Unmoved
<1> DEFINE o == Other(e)
<1>1. o \in Ends /\ o # e /\ Other(o) = e
    BY TwoEnds
<1>2. PICK k \in 1 .. Len(input[e]) :
        /\ buffer' = [buffer EXCEPT ![e] = SubSeq(input[e], 1, k)]
        /\ input' = [input EXCEPT ![e] = SubSeq(input[e], k + 1, Len(input[e]))]
    BY DEF Fill
<1>3. /\ UNCHANGED <<life, got, wrote, ended, output, reaped, offer, errs, writing>>
      /\ buffer[e] = <<>> /\ buffer \in Streams /\ input \in Streams
    BY DEF Fill, Idle, endVars, loopVars, PathInv, TypeOK, PipesOK, ReadersOK
<1>4. TypeOK /\ TypeOK' /\ input[e] \in Seq(Lines)
    BY <1>3, StreamTypes DEF PathInv
<1>5. /\ buffer'[e] = SubSeq(input[e], 1, k) /\ buffer'[o] = buffer[o]
      /\ input'[e] = SubSeq(input[e], k + 1, Len(input[e])) /\ input'[o] = input[o]
    BY <1>1, <1>2, <1>3 DEF Streams
<1>6. buffer'[e] \in Seq(Lines) /\ input'[e] \in Seq(Lines)
    BY <1>2, <1>4, <1>5
<1>7. input[e] = Cat(buffer'[e], input'[e])
    BY <1>2, <1>4, <1>5, SplitAt
<1>8. Cat(Buffered(e)', Piped(e)') = Cat(Buffered(e), Piped(e))
    <2>1. MessagesOf(input[e]) = Cat(MessagesOf(buffer'[e]), MessagesOf(input'[e]))
        BY <1>6, <1>7, SelectedLines
    <2>2. MessagesOf(buffer[e]) = <<>> /\ MessagesOf(input[e]) \in Seq(Lines)
        BY <1>3, <1>4, NoMessages, MessagesOfType
    <2>3. Cat(<<>>, MessagesOf(input[e])) = MessagesOf(input[e])
        BY <2>2, CatNothing
    <2> QED
        BY <2>1, <2>2, <2>3 DEF Buffered, Piped, MessagesOf
<1>9. \A d \in Ends : Near(d)' = Near(d) /\ Held(d)' = Held(d) /\ offer'[d] = offer[d] /\ life'[d] = life[d]
    BY <1>3 DEF Near, Held, WritingTo
<1>10. OnItsWay(e)' = OnItsWay(e)
    BY <1>1, <1>4, <1>8, <1>9, FlowHasForms, PrimedForms DEF FlowForms
<1>11. OnItsWay(o)' = OnItsWay(o)
    BY <1>1, <1>3, <1>5, Zenon DEF OnItsWay, MessagesOf, WritingTo
<1> QED
    BY <1>3, <1>10, <1>11, UnmovedByParts

\* Nor does the reader that discards what is no message, and offers what is one.
LEMMA TakeLineMoves ==
    ASSUME PathInv, PathInv', NEW e \in Ends, TakeLine(e)
    PROVE  Unmoved
<1> DEFINE o == Other(e)
           h == <<Head(buffer[e])>>
           t == Tail(buffer[e])
<1>1. o \in Ends /\ o # e /\ Other(o) = e
    BY TwoEnds
<1>2. /\ UNCHANGED <<life, got, wrote, ended, output, input, reaped, errs, writing>>
      /\ offer[e] = <<>> /\ buffer[e] # <<>> /\ buffer \in Streams /\ offer \in Streams
      /\ offer' = [offer EXCEPT ![e] = IF Passes(Head(buffer[e])) THEN h ELSE <<>>]
      /\ buffer' = [buffer EXCEPT ![e] = t]
    BY DEF TakeLine, endVars, pipeVars, loopVars, PathInv, TypeOK, PipesOK, ReadersOK
<1>3. TypeOK /\ TypeOK' /\ buffer[e] \in Seq(Lines)
    BY <1>2, StreamTypes DEF PathInv
<1>4. Head(buffer[e]) \in Lines /\ t \in Seq(Lines) /\ h \in Seq(Lines) /\ buffer[e] = Cat(h, t)
    BY <1>2, <1>3, HeadAndTail
<1>5. /\ offer'[e] = MessagesOf(h) /\ offer'[o] = offer[o]
      /\ buffer'[e] = t /\ buffer'[o] = buffer[o]
    <2>1. Selected(h, Messages) = IF Head(buffer[e]) \in Messages THEN h ELSE <<>>
        BY <1>4, SelectedOne
    <2>2. Head(buffer[e]) \in Messages <=> Passes(Head(buffer[e]))
        BY <1>4 DEF Messages
    <2> HIDE DEF h, t
    <2>3. MessagesOf(h) = IF Passes(Head(buffer[e])) THEN h ELSE <<>>
        BY <2>1, <2>2 DEF MessagesOf
    <2> QED
        BY <1>1, <1>2, <2>3 DEF Streams
<1>6. MessagesOf(h) \in Seq(Lines) /\ MessagesOf(t) \in Seq(Lines)
    BY <1>4, MessagesOfType
<1> HIDE DEF h, t, o
<1>7. Cat(offer'[e], Buffered(e)') = Cat(offer[e], Buffered(e))
    <2>1. MessagesOf(buffer[e]) = Cat(MessagesOf(h), MessagesOf(t))
        BY <1>4, SelectedLines
    <2>2. Cat(<<>>, MessagesOf(buffer[e])) = MessagesOf(buffer[e])
        BY <1>3, MessagesOfType, CatNothing
    <2> QED
        BY <1>2, <1>5, <2>1, <2>2 DEF Buffered, MessagesOf
<1>8. \A d \in Ends : Near(d)' = Near(d) /\ Held(d)' = Held(d) /\ Piped(d)' = Piped(d) /\ life'[d] = life[d]
    BY <1>2 DEF Near, Held, WritingTo, Piped, MessagesOf
<1>9. OnItsWay(e)' = OnItsWay(e)
    BY <1>3, <1>7, <1>8, TwoEnds, FlowHasForms, PrimedForms DEF FlowForms
<1>10. OnItsWay(o)' = OnItsWay(o)
    BY <1>1, <1>2, <1>5 DEF OnItsWay, MessagesOf, WritingTo
<1> QED
    BY <1>2, <1>9, <1>10, UnmovedByParts DEF o

\* A sequence of at most one line is nothing or its head.
LEMMA OneElement == \A s \in Seq(Lines) : s # <<>> /\ Len(s) <= 1 => s = <<Head(s)>>
<1> SUFFICES ASSUME NEW s \in Seq(Lines), s # <<>>, Len(s) <= 1
             PROVE  s = <<Head(s)>>
    OBVIOUS
<1>1. Len(s) = 1 /\ Head(s) = s[1]
    <2>1. Len(s) \in Nat \ {0} /\ Head(s) = s[1]
        BY EmptySeq
    <2>2. \A n \in Nat \ {0} : n <= 1 => n = 1
        OBVIOUS
    <2> QED
        BY <2>1, <2>2, Zenon
<1>2. <<Head(s)>> \in Seq(Lines) /\ Len(<<Head(s)>>) = 1 /\ <<Head(s)>>[1] = Head(s)
    BY <1>1
<1> QED
    BY <1>1, <1>2, SeqEqual

\* Nor does the loop that takes an offer.
LEMMA TakeMoves ==
    ASSUME PathInv, PathInv', NEW e \in Ends, Take(e)
    PROVE  Unmoved
<1> DEFINE o == Other(e)
           h == <<Head(offer[e])>>
<1>1. o \in Ends /\ o # e /\ Other(o) = e
    BY TwoEnds
<1>2. /\ UNCHANGED <<life, got, wrote, ended, output, input, reaped, errs, buffer>>
      /\ writing = <<>> /\ offer[e] # <<>> /\ offer \in Streams /\ Len(offer[e]) <= 1
      /\ writing' = <<[to |-> o, line |-> Head(offer[e])]>>
      /\ offer' = [offer EXCEPT ![e] = <<>>]
    BY DEF Take, Selecting, endVars, pipeVars, loopVars, PathInv, TypeOK, PipesOK, ReadersOK
<1>3. TypeOK /\ TypeOK' /\ offer[e] \in Seq(Lines) /\ offer[e] = h
    <2>1. offer[e] \in Seq(Lines)
        BY <1>2, StreamTypes
    <2> QED
        BY <1>2, <2>1, OneElement DEF PathInv
<1>4. /\ Held(e) = <<>> /\ WritingTo(e) = <<>>
      /\ Held(e)' = h /\ WritingTo(e)' = <<>>
      /\ offer'[e] = <<>> /\ offer'[o] = offer[o]
    <2>1. offer'[e] = <<>> /\ offer'[o] = offer[o]
        BY <1>1, <1>2 DEF Streams
    <2>2. Head(writing').to = o /\ Head(writing').line = Head(offer[e]) /\ writing' # <<>>
        BY <1>2
    <2> QED
        BY <1>1, <1>2, <2>1, <2>2 DEF Held, WritingTo
<1> HIDE DEF h, o
<1>5. Cat(Held(e)', offer'[e]) = Cat(Held(e), offer[e])
    BY <1>3, <1>4, CatNothing
<1>6. \A d \in Ends : Near(d)' = Near(d) /\ Buffered(d)' = Buffered(d) /\ Piped(d)' = Piped(d) /\ life'[d] = life[d]
    BY <1>2 DEF Near, Buffered, Piped, MessagesOf
<1>7. OnItsWay(e)' = OnItsWay(e)
    BY <1>3, <1>5, <1>6, TwoEnds, FlowHasForms, PrimedForms DEF FlowForms
<1>8. OnItsWay(o)' = OnItsWay(o)
    BY <1>1, <1>2, <1>4 DEF OnItsWay, MessagesOf
<1> QED
    BY <1>2, <1>7, <1>8, UnmovedByParts DEF o

\* Nor does a write.
LEMMA ForwardMoves ==
    ASSUME PathInv, PathInv', Forward
    PROVE  Unmoved
<1>1. PICK w \in [to : Ends, line : Lines] : writing = <<w>>
    BY DEF Forward, PathInv, TypeOK, LoopOK
<1> DEFINE o == w.to
           e == Other(o)
<1>2. o \in Ends /\ e \in Ends /\ o # e /\ Other(e) = o /\ Other(o) = e /\ w.line \in Lines
    BY TwoEnds
<1>3. /\ UNCHANGED <<life, got, wrote, ended, input, reaped, errs, buffer, offer>>
      /\ output \in Streams /\ writing' = <<>>
      /\ output' = [output EXCEPT ![o] = Append(output[o], w.line)]
    BY <1>1 DEF Forward, endVars, readVars, PathInv, TypeOK, PipesOK
<1>4. TypeOK /\ TypeOK' /\ output[o] \in Seq(Lines)
    BY <1>2, <1>3, StreamTypes DEF PathInv
<1>5. Held(e) = <<w.line>> /\ Held(e)' = <<>> /\ WritingTo(e) = <<>> /\ WritingTo(e)' = <<>>
    BY <1>1, <1>2, <1>3 DEF Held, WritingTo
<1> HIDE DEF e, o
<1>6. output'[o] = Cat(output[o], <<w.line>>) /\ output'[e] = output[e]
    <2>1. output'[o] = Append(output[o], w.line) /\ output'[e] = output[e]
        BY <1>2, <1>3 DEF Streams
    <2>2. Append(output[o], w.line) = Cat(output[o], <<w.line>>)
        BY <1>2, <1>4, AppendIsConcat DEF Cat
    <2> QED
        BY <2>1, <2>2
<1>7. Cat(Near(e)', Held(e)') = Cat(Near(e), Held(e))
    <2>1. Near(e)' = Cat(output[o], <<w.line>>) /\ Near(e) = output[o] /\ Near(e)' \in Seq(Lines)
        <3>1. output'[o] \in Seq(Lines)
            BY <1>2, <1>4, StreamTypes DEF TypeOK, PipesOK, Streams
        <3> QED
            BY <1>2, <1>6, <3>1 DEF Near
    <2> QED
        BY <1>5, <2>1, CatNothing
<1>8. \A d \in Ends : Buffered(d)' = Buffered(d) /\ Piped(d)' = Piped(d) /\ life'[d] = life[d] /\ offer'[d] = offer[d]
    BY <1>3 DEF Buffered, Piped, MessagesOf
<1>9. OnItsWay(e)' = OnItsWay(e)
    BY <1>2, <1>4, <1>7, <1>8, TwoEnds, FlowHasForms, PrimedForms DEF FlowForms
<1>10. OnItsWay(o)' = OnItsWay(o)
    BY <1>2, <1>3, <1>5, <1>6 DEF OnItsWay, MessagesOf
<1> QED
    BY <1>2, <1>3, <1>9, <1>10, UnmovedByParts

\* A write that fails loses only what a child that is gone would not have read
\* (forwarding.go:20-23).
LEMMA ForwardFailsMoves ==
    ASSUME PathInv, PathInv', ForwardFails
    PROVE  Unmoved
<1>1. /\ UNCHANGED <<life, got, wrote, ended, input, output, reaped, errs, buffer, offer>>
      /\ writing # <<>> /\ Head(writing).to = "child" /\ life["child"] = "gone" /\ writing' = <<>>
    BY DEF ForwardFails, WriteError, endVars, pipeVars, readVars
<1>2. /\ "client" \in Ends /\ "child" \in Ends /\ Other("client") = "child" /\ Other("child") = "client"
    BY DEF Ends, Other
<1>3. OnItsWay("client")' = OnItsWay("client")
    BY <1>1, <1>2 DEF OnItsWay
<1>4. WritingTo("client")' = WritingTo("client")
    BY <1>1 DEF WritingTo
<1>5. OnItsWay("child")' = OnItsWay("child")
    BY <1>1, <1>2, <1>4 DEF OnItsWay, MessagesOf
<1> QED
    BY <1>1, <1>2, <1>3, <1>5, UnmovedByParts

\* A line more is a message more if it is one.
LEMMA SelectedAppended ==
    \A s \in Seq(Lines), x \in Lines :
        MessagesOf(Append(s, x)) = IF x \in Messages THEN Append(MessagesOf(s), x) ELSE MessagesOf(s)
BY SelectedAppend DEF MessagesOf

\* A line written joins the end of what is on its way, if it is a message and the
\* other end is there.
Said(e, line) ==
    /\ UNCHANGED <<got, BrokenLines>>
    /\ wrote'[Other(e)] = wrote[Other(e)] /\ OnItsWay(Other(e))' = OnItsWay(Other(e))
    /\ MessagesOf(wrote[e])' =
            IF line \in Messages THEN Append(MessagesOf(wrote[e]), line) ELSE MessagesOf(wrote[e])
    /\ IF line \in Messages /\ life[Other(e)] # "gone"
       THEN e \notin BrokenLines /\ OnItsWay(e)' = Append(OnItsWay(e), line)
       ELSE OnItsWay(e)' = OnItsWay(e)
    /\ \A d \in Ends : Whole(d)' => Whole(d)

\* A line written joins the end of the way.
LEMMA WritesMoves ==
    ASSUME PathInv, PathInv', NEW e \in Ends, NEW kind \in Kinds, WritesLine(e, kind)
    PROVE  \E line \in Lines : Said(e, line)
<1> DEFINE o == Other(e)
           n == Len(wrote[e]) + 1
           line == [n |-> n, kind |-> kind]
<1>1. o \in Ends /\ o # e /\ Other(o) = e
    BY TwoEnds
<1>2. /\ UNCHANGED <<life, got, output, reaped, buffer, offer, reader, errs, writing, ended>>
      /\ wrote' = [wrote EXCEPT ![e] = Append(wrote[e], line)]
      /\ input' = [input EXCEPT ![e] = Append(input[e], line)]
      /\ wrote \in Streams /\ input \in Streams
      /\ Running /\ life[e] = "open" /\ Len(wrote[e]) < MaxLines[e]
    BY DEF WritesLine, readVars, loopVars, PathInv, TypeOK, EndsOK, PipesOK, BusyWrites
<1>3. line \in Lines
    <2>1. Len(wrote[e]) + 1 \in 1 .. MaxLines[e]
        BY <1>2, StreamTypes, Bounds
    <2> QED
        BY <2>1 DEF Lines
<1> HIDE DEF line, o
<1>4. /\ wrote'[e] = Append(wrote[e], line) /\ wrote'[o] = wrote[o]
      /\ input'[e] = Append(input[e], line) /\ input'[o] = input[o]
      /\ wrote[e] \in Seq(Lines) /\ input[e] \in Seq(Lines)
    BY <1>1, <1>2 DEF Streams
<1>5. /\ MessagesOf(wrote[e])' =
            IF line \in Messages THEN Append(MessagesOf(wrote[e]), line) ELSE MessagesOf(wrote[e])
      /\ Piped(e)' = IF line \in Messages THEN Append(Piped(e), line) ELSE Piped(e)
    BY <1>3, <1>4, SelectedAppended DEF Piped, MessagesOf
<1>6. OnItsWay(o)' = OnItsWay(o)
    <2>1. UNCHANGED <<life, output, writing, offer, buffer>> /\ input'[o] = input[o] /\ Other(o) = e
        BY <1>1, <1>2, <1>4
    <2> QED
        BY <2>1 DEF OnItsWay, MessagesOf, WritingTo
<1>7. BrokenLines' = BrokenLines /\ \A d \in Ends : Whole(d)' => Whole(d)
    BY <1>2 DEF BrokenLines, Whole, Running
<1>8. /\ Near(e)' = Near(e) /\ Held(e)' = Held(e) /\ offer'[e] = offer[e] /\ Buffered(e)' = Buffered(e)
      /\ life'[o] = life[o]
    BY <1>2 DEF Near, Held, Buffered, WritingTo, MessagesOf
<1> DEFINE front == Cat(Near(e), Cat(Held(e), Cat(offer[e], Buffered(e))))
<1>9. front \in Seq(Lines) /\ Piped(e) \in Seq(Lines)
    <2>1. Near(e) \in Seq(Lines) /\ Held(e) \in Seq(Lines) /\ offer[e] \in Seq(Lines)
        BY PartTypes DEF Near, Held, PathInv
    <2>2. Buffered(e) \in Seq(Lines) /\ Piped(e) \in Seq(Lines)
        BY PartTypes DEF Buffered, Piped, PathInv
    <2>3. Cat(offer[e], Buffered(e)) \in Seq(Lines)
        BY <2>1, <2>2, CatType
    <2>4. Cat(Held(e), Cat(offer[e], Buffered(e))) \in Seq(Lines)
        BY <2>1, <2>3, CatType
    <2> QED
        BY <2>1, <2>2, <2>4, CatType
<1>10. life[o] # "gone" => OnItsWay(e) = Cat(front, Piped(e)) /\ OnItsWay(e)' = Cat(front, Piped(e)')
    BY <1>8, FlowHasForms, PrimedForms DEF FlowForms, PathInv, o
<1> HIDE DEF front
<1>11. life[o] # "gone" =>
        OnItsWay(e)' = IF line \in Messages THEN Append(OnItsWay(e), line) ELSE OnItsWay(e)
    <2>1. Cat(front, Append(Piped(e), line)) = Append(Cat(front, Piped(e)), line)
        BY <1>3, <1>9, CatAppend
    <2> QED
        BY <1>5, <1>10, <2>1
<1>12. life[o] = "gone" => OnItsWay(e)' = OnItsWay(e)
    BY <1>8, FlowHasForms, PrimedForms DEF FlowForms, PathInv, o
<1>13. life[o] # "gone" => e \notin BrokenLines
    BY <1>2 DEF BrokenLines, o
<1> QED
    BY <1>2, <1>3, <1>4, <1>5, <1>6, <1>7, <1>11, <1>12, <1>13 DEF Said, o

Heard(e) ==
    /\ UNCHANGED <<wrote, BrokenLines>>
    /\ OnItsWay(e)' = OnItsWay(e)
    /\ OnItsWay(Other(e)) # <<>>
    /\ got' = [got EXCEPT ![e] = Append(got[e], Head(OnItsWay(Other(e))))]
    /\ OnItsWay(Other(e))' = Tail(OnItsWay(Other(e)))
    /\ \A d \in Ends : Whole(d)' => Whole(d)

\* An end reads the first of the messages on their way to it.
LEMMA ReadsMoves ==
    ASSUME PathInv, PathInv', NEW e \in Ends, ReadsLine(e)
    PROVE  Heard(e)
<1> DEFINE o == Other(e)
<1>1. o \in Ends /\ o # e /\ Other(o) = e
    BY TwoEnds
<1>2. /\ UNCHANGED <<life, wrote, input, reaped, buffer, offer, reader, errs, writing, ended>>
      /\ got' = [got EXCEPT ![e] = Append(got[e], Head(output[e]))]
      /\ output' = [output EXCEPT ![e] = Tail(output[e])]
      /\ output \in Streams /\ output[e] # <<>> /\ life[e] # "gone"
    BY DEF ReadsLine, readVars, loopVars, PathInv, TypeOK, PipesOK
<1> HIDE DEF o
<1>3. output'[e] = Tail(output[e]) /\ output'[o] = output[o] /\ output[e] \in Seq(Lines)
    BY <1>1, <1>2 DEF Streams
<1>4. OnItsWay(e)' = OnItsWay(e)
    BY <1>1, <1>2, <1>3 DEF OnItsWay, MessagesOf, WritingTo, o
<1>5. BrokenLines' = BrokenLines /\ \A d \in Ends : Whole(d)' => Whole(d)
    BY <1>2 DEF BrokenLines, Whole, Running
<1> DEFINE tail == Cat(Held(o), Cat(offer[o], Cat(Buffered(o), Piped(o))))
<1>6. tail \in Seq(Lines)
    <2>1. Held(o) \in Seq(Lines) /\ offer[o] \in Seq(Lines)
        BY <1>1, PartTypes DEF Held, PathInv
    <2>2. Buffered(o) \in Seq(Lines) /\ Piped(o) \in Seq(Lines)
        BY <1>1, PartTypes DEF Buffered, Piped, PathInv
    <2>3. Cat(offer[o], Cat(Buffered(o), Piped(o))) \in Seq(Lines)
        BY <2>1, <2>2, CatType
    <2> QED
        BY <2>1, <2>3, CatType
<1>7. OnItsWay(o) = Cat(output[e], tail) /\ OnItsWay(o)' = Cat(output'[e], tail)
    <2>1. Held(o)' = Held(o) /\ offer'[o] = offer[o] /\ Buffered(o)' = Buffered(o) /\ Piped(o)' = Piped(o)
        BY <1>2 DEF Held, Buffered, Piped, WritingTo, MessagesOf
    <2>2. Near(o) = output[e] /\ Near(o)' = output'[e]
        BY <1>1 DEF Near
    <2> QED
        BY <1>1, <1>2, <2>1, <2>2, FlowHasForms, PrimedForms DEF FlowForms, PathInv
<1> HIDE DEF tail
<1>8. /\ OnItsWay(o) # <<>> /\ Head(OnItsWay(o)) = Head(output[e])
      /\ OnItsWay(o)' = Tail(OnItsWay(o))
    BY <1>2, <1>3, <1>6, <1>7, FirstOfCat
<1> QED
    BY <1>2, <1>4, <1>5, <1>8 DEF Heard, o

\* Messages are lost only as a line breaks: what is left of them is what was nearest
\* to the end that stays.
Lost ==
    /\ UNCHANGED <<got, wrote>>
    /\ BrokenLines' = Ends
    /\ \A e \in Ends : OnItsWay(e)' = OnItsWay(e) \/ Starts(OnItsWay(e)', OnItsWay(e))

\* Nothing is the beginning of everything.
LEMMA NothingStarts == \A s \in Seq(Lines) : Starts(<<>>, s)
<1> SUFFICES ASSUME NEW s \in Seq(Lines) PROVE Starts(<<>>, s)
    OBVIOUS
<1> DEFINE none == <<>>
<1>1. none \in Seq(Lines)
    OBVIOUS
<1> HIDE DEF none
<1>2. Starts(none, Cat(none, s))
    BY <1>1, PrefixOfCat
<1>3. Cat(none, s) = s
    BY CatNothing DEF none
<1> QED
    BY <1>2, <1>3 DEF none

\* An end that leaves takes with it what was on its way to it, and nothing else.
LEMMA LeavesLoses ==
    ASSUME PathInv, PathInv', NEW e \in Ends, Leaves(e)
    PROVE  Lost /\ OnItsWay(e)' = OnItsWay(e) /\ (Whole(e)' => Whole(e)) /\ ~Whole(Other(e))'
<1> DEFINE o == Other(e)
<1>1. o \in Ends /\ o # e /\ Other(o) = e /\ Ends = {e, o}
    BY TwoEnds
<1>2. /\ UNCHANGED <<got, wrote, input, reaped, buffer, offer, reader, errs, writing, ended>>
      /\ life \in [Ends -> {"open", "quiet", "gone"}] /\ output \in Streams
      /\ life' = [life EXCEPT ![e] = "gone"] /\ output' = [output EXCEPT ![e] = <<>>]
      /\ life[e] # "gone" /\ Running
    BY DEF Leaves, readVars, loopVars, PathInv, TypeOK, EndsOK, PipesOK
<1>3. life'[e] = "gone" /\ life'[o] = life[o] /\ output'[o] = output[o]
    BY <1>1, <1>2 DEF Streams
<1>4. OnItsWay(o)' = <<>>
    BY <1>1, <1>3 DEF OnItsWay
<1>5. OnItsWay(e)' = OnItsWay(e)
    BY <1>2, <1>3 DEF OnItsWay, MessagesOf, WritingTo
<1>6. Starts(OnItsWay(o)', OnItsWay(o))
    BY <1>1, <1>4, FlowType, NothingStarts DEF PathInv
<1>7. BrokenLines' = Ends
    BY <1>1, <1>3 DEF BrokenLines
<1>8. (Whole(e)' => Whole(e)) /\ ~Whole(o)'
    BY <1>1, <1>2, <1>3 DEF Whole, Running
<1> HIDE DEF o
<1> QED
    BY <1>1, <1>2, <1>5, <1>6, <1>7, <1>8 DEF Lost, o

\* cmd.Wait loses the last lines of a child only if its reader has not read them to
\* their end.
LEMMA ReapLoses ==
    ASSUME PathInv, PathInv', Reap
    PROVE  /\ Lost
           /\ \A e \in Ends : Whole(e)' => Whole(e) /\ OnItsWay(e)' = OnItsWay(e)
<1>1. /\ UNCHANGED <<life, got, wrote, output, buffer, offer, reader, errs, writing, ended>>
      /\ input \in Streams /\ input' = [input EXCEPT !["child"] = <<>>]
      /\ life["child"] = "gone" /\ Running /\ ~reaped /\ reaped'
    BY DEF Reap, endVars, readVars, loopVars, PathInv, TypeOK, PipesOK
<1>2. /\ Ends = {"client", "child"} /\ "client" # "child"
      /\ Other("client") = "child" /\ Other("child") = "client"
    BY DEF Ends, Other
<1>3. input'["child"] = <<>> /\ input'["client"] = input["client"]
    BY <1>1, <1>2 DEF Streams
<1>4. OnItsWay("client")' = OnItsWay("client")
    BY <1>1, <1>2 DEF OnItsWay
<1>5. BrokenLines' = Ends
    BY <1>1, <1>2 DEF BrokenLines
<1> DEFINE c == "child"
           front == Cat(Near(c), Cat(Held(c), Cat(offer[c], Buffered(c))))
<1>6. /\ Near(c)' = Near(c) /\ Held(c)' = Held(c) /\ offer'[c] = offer[c] /\ Buffered(c)' = Buffered(c)
      /\ Piped(c)' = <<>> /\ life'[Other(c)] = life[Other(c)]
    BY <1>1, <1>3, NoMessages DEF Near, Held, Buffered, Piped, WritingTo, MessagesOf
<1>7. Starts(OnItsWay(c)', OnItsWay(c))
    <2>1. /\ Near(c) \in Seq(Lines) /\ Held(c) \in Seq(Lines) /\ offer[c] \in Seq(Lines)
          /\ Buffered(c) \in Seq(Lines) /\ Piped(c) \in Seq(Lines)
        <3>1. c \in Ends /\ TypeOK
            BY <1>2 DEF PathInv
        <3> HIDE DEF c
        <3> QED
            BY <3>1, PartTypes DEF Near, Held, Buffered, Piped
    <2> HIDE DEF c
    <2>2. Cat(offer[c], Buffered(c)) \in Seq(Lines)
        BY <2>1, CatType
    <2>3. Cat(Held(c), Cat(offer[c], Buffered(c))) \in Seq(Lines)
        BY <2>1, <2>2, CatType
    <2>4. front \in Seq(Lines)
        BY <2>1, <2>3, CatType
    <2>5. c \in Ends /\ TypeOK /\ TypeOK'
        BY <1>2 DEF c, PathInv
    <2>6. CASE life[Other(c)] = "gone"
        <3>1. OnItsWay(c)' = <<>> /\ OnItsWay(c) \in Seq(Lines)
            BY <1>6, <2>5, <2>6, PrimedForms, FlowType DEF FlowForms
        <3> QED
            BY <3>1, NothingStarts
    <2>7. CASE life[Other(c)] # "gone"
        <3>1. OnItsWay(c) = Cat(front, Piped(c)) /\ OnItsWay(c)' = Cat(front, <<>>)
            BY <1>6, <2>5, <2>7, FlowHasForms, PrimedForms DEF FlowForms
        <3> HIDE DEF front
        <3> QED
            BY <2>1, <2>4, <3>1, CatNothing, PrefixOfCat
    <2> QED
        BY <2>6, <2>7
<1>8. ASSUME NEW e \in Ends, Whole(e)'
      PROVE  Whole(e) /\ OnItsWay(e)' = OnItsWay(e)
    <2>1. e = "child"
        BY <1>1, <1>2, <1>8 DEF Whole
    <2>2. PICK i \in DOMAIN errs : errs[i] = "child eof"
        BY <1>1, <1>8, <2>1 DEF Whole
    <2>3. reader["child"] = "done"
        BY <1>2, <2>2 DEF PathInv, ErrorsOfDone, ErrorsOf
    <2>4. input["child"] = <<>>
        BY <1>2, <2>3 DEF PathInv, DoneReaders
    <2>5. OnItsWay(e)' = OnItsWay(e)
        BY <1>1, <1>3, <2>1, <2>4 DEF OnItsWay, MessagesOf, WritingTo
    <2> QED
        BY <1>1, <1>8, <2>5 DEF Whole, Running
<1> QED
    BY <1>1, <1>2, <1>4, <1>5, <1>7, <1>8 DEF Lost

\* The end of the program leaves of the messages those that were written.
LEMMA EndLoses ==
    ASSUME PathInv, PathInv', NEW how \in ErrorKinds \cup {"sigpipe"}, EndProgram(how)
    PROVE  Lost
<1>1. /\ UNCHANGED <<life, got, wrote, output>> /\ ended' = how
      /\ input' = Nothing /\ buffer' = Nothing /\ offer' = Nothing /\ writing' = <<>>
    BY DEF EndProgram
<1>2. BrokenLines' = Ends
    BY <1>1 DEF BrokenLines, Running, ErrorKinds
<1>3. ASSUME NEW e \in Ends
      PROVE  Starts(OnItsWay(e)', OnItsWay(e))
    <2>1. TypeOK /\ TypeOK'
        BY DEF PathInv
    <2>2. CASE life[Other(e)] = "gone"
        <3>1. OnItsWay(e)' = <<>> /\ OnItsWay(e) \in Seq(Lines)
            BY <1>1, <2>1, <2>2, FlowType DEF OnItsWay
        <3> QED
            BY <3>1, NothingStarts
    <2>3. CASE life[Other(e)] # "gone"
        <3> DEFINE tail == Cat(Held(e), Cat(offer[e], Cat(Buffered(e), Piped(e))))
        <3>1. /\ Near(e) \in Seq(Lines) /\ Held(e) \in Seq(Lines) /\ offer[e] \in Seq(Lines)
              /\ Buffered(e) \in Seq(Lines) /\ Piped(e) \in Seq(Lines)
            BY <2>1, PartTypes DEF Near, Held, Buffered, Piped
        <3>2. Cat(Buffered(e), Piped(e)) \in Seq(Lines)
            BY <3>1, CatType
        <3>3. Cat(offer[e], Cat(Buffered(e), Piped(e))) \in Seq(Lines)
            BY <3>1, <3>2, CatType
        <3>4. tail \in Seq(Lines)
            BY <3>1, <3>3, CatType
        <3>5. OnItsWay(e) = Cat(Near(e), tail)
            BY <2>1, <2>3, FlowHasForms DEF FlowForms
        <3> HIDE DEF tail
        <3>6. OnItsWay(e)' = Near(e)
            <4>1. /\ Near(e)' = Near(e) /\ Held(e)' = <<>> /\ offer'[e] = <<>>
                  /\ Buffered(e)' = <<>> /\ Piped(e)' = <<>>
                BY <1>1, NoMessages DEF Near, Held, Buffered, Piped, WritingTo, Nothing, MessagesOf
            <4>2. <<>> \in Seq(Lines) /\ Cat(<<>>, <<>>) = <<>> /\ Cat(Near(e), <<>>) = Near(e)
                BY <3>1, CatNothing, EmptyLine
            <4>3. OnItsWay(e)' = Cat(Near(e), Cat(<<>>, Cat(<<>>, Cat(<<>>, <<>>))))
                BY <1>1, <2>1, <2>3, <4>1, PrimedForms DEF FlowForms
            <4> QED
                BY <4>2, <4>3
        <3> QED
            BY <3>1, <3>4, <3>5, <3>6, PrefixOfCat
    <2> QED
        BY <2>2, <2>3
<1> QED
    BY <1>1, <1>2, <1>3 DEF Lost

\* So that is all that a step can do.
LEMMA EveryStep ==
    ASSUME PathInv, PathInv', [Next]_vars
    PROVE  \/ Unmoved
           \/ \E e \in Ends, line \in Lines : Said(e, line)
           \/ \E e \in Ends : Heard(e)
           \/ Lost
<1>1. CASE UNCHANGED vars
    BY <1>1 DEF vars, endVars, pipeVars, readVars, loopVars, Unmoved, BrokenLines, OnItsWay, WritingTo,
       MessagesOf, Whole, Running
<1>2. ASSUME NEW e \in Ends, BeginsLine(e) \/ Writes(e) \/ ReadsLine(e) \/ ClosesOutput(e) \/ Leaves(e)
      PROVE  Unmoved \/ (\E line \in Lines : Said(e, line)) \/ Heard(e) \/ Lost
    BY <1>2, QuietSteps, WritesMoves, ReadsMoves, LeavesLoses DEF Writes
<1>3. CASE Reap
    BY <1>3, ReapLoses
<1>4. ASSUME NEW e \in Ends, ReaderStep(e)
      PROVE  Unmoved
    BY <1>4, FillMoves, TakeLineMoves, QuietSteps DEF ReaderStep
<1>5. CASE LoopStep
    BY <1>5, TakeMoves, ForwardMoves, ForwardFailsMoves, EndOfProgram, EndLoses DEF LoopStep
<1>6. CASE Rest
    <2>1. "child" \in Ends
        BY DEF Ends
    <2> QED
        BY <1>6, <2>1, QuietSteps
<1> QED
    BY <1>1, <1>2, <1>3, <1>4, <1>5, <1>6 DEF Next

\* At the start nothing is on its way.
LEMMA RelayInit == Init => R!Init
<1> SUFFICES ASSUME Init PROVE R!Init
    OBVIOUS
<1>1. PathInv
    BY InitPath
<1>2. BrokenLines = {}
    BY TwoEnds DEF Init, BrokenLines, Running
<1>3. got = [e \in Ends |-> <<>>]
    BY DEF Init, Nothing
<1>4. ASSUME NEW e \in Ends
      PROVE  OnItsWay(e) = <<>>
    <2>1. /\ life[Other(e)] # "gone" /\ Near(e) = <<>> /\ Held(e) = <<>> /\ offer[e] = <<>>
          /\ Buffered(e) = <<>> /\ Piped(e) = <<>>
        BY TwoEnds, NoMessages DEF Init, Near, Held, Buffered, Piped, WritingTo, Nothing
    <2>2. <<>> \in Seq(Lines) /\ Cat(<<>>, <<>>) = <<>>
        BY CatNothing, EmptyLine
    <2>3. OnItsWay(e) = Cat(<<>>, Cat(<<>>, Cat(<<>>, Cat(<<>>, <<>>))))
        BY <1>1, <2>1, FlowHasForms DEF FlowForms, PathInv
    <2> QED
        BY <2>2, <2>3
<1>5. Flow = [e \in Ends |-> <<>>]
    BY <1>4 DEF Flow
<1> QED
    BY <1>2, <1>3, <1>5 DEF R!Init

\* Each of the four kinds of step is one of the relay, or none.
LEMMA RelayStep ==
    ASSUME PathInv, PathInv', [Next]_vars
    PROVE  [R!Next]_(R!relayVars)
<1>1. CASE Unmoved
    <2>1. Flow' = Flow
        BY <1>1 DEF Unmoved, Flow
    <2> QED
        BY <1>1, <2>1 DEF Unmoved, R!relayVars
<1>2. ASSUME NEW e \in Ends, NEW line \in Lines, Said(e, line)
      PROVE  [R!Next]_(R!relayVars)
    <2>1. CASE line \in Messages /\ life[Other(e)] # "gone"
        <3>1. Flow' = [Flow EXCEPT ![e] = Append(Flow[e], line)]
            <4> DEFINE o == Other(e)
                       f == Append(Flow[e], line)
            <4>1. Flow[e] = OnItsWay(e) /\ Ends = {e, o} /\ o # e
                BY TwoEnds DEF Flow
            <4>2. OnItsWay(e)' = f /\ OnItsWay(o)' = OnItsWay(o)
                BY <1>2, <2>1, <4>1 DEF Said
            <4> HIDE DEF o, f
            <4>3. Flow' = [Flow EXCEPT ![e] = f]
                BY <4>1, <4>2 DEF Flow
            <4> QED
                BY <4>3 DEF f
        <3>2. R!Say(e, line)
            BY <1>2, <2>1, <3>1 DEF Said, R!Say
        <3> QED
            BY <2>1, <3>2 DEF R!Next
    <2>2. CASE ~(line \in Messages /\ life[Other(e)] # "gone")
        <3>1. OnItsWay(e)' = OnItsWay(e) /\ OnItsWay(Other(e))' = OnItsWay(Other(e))
            BY <1>2, <2>2 DEF Said
        <3>2. Flow' = Flow
            BY <3>1, TwoEnds DEF Flow
        <3> QED
            BY <1>2, <3>2 DEF Said, R!relayVars
    <2> QED
        BY <2>1, <2>2
<1>3. ASSUME NEW e \in Ends, Heard(e)
      PROVE  [R!Next]_(R!relayVars)
    <2> DEFINE from == Other(e)
    <2>1. from \in Ends \ {e} /\ Flow[from] = OnItsWay(from) /\ Ends = {e, from}
        BY TwoEnds DEF Flow
    <2>2. /\ OnItsWay(e)' = OnItsWay(e) /\ OnItsWay(from)' = Tail(Flow[from])
          /\ Flow[from] # <<>> /\ got' = [got EXCEPT ![e] = Append(got[e], Head(Flow[from]))]
          /\ UNCHANGED BrokenLines
        BY <1>3, <2>1 DEF Heard
    <2> HIDE DEF from
    <2>3. Flow' = [Flow EXCEPT ![from] = Tail(Flow[from])]
        BY <2>1, <2>2 DEF Flow
    <2>4. R!Hear(e)
        BY <2>1, <2>2, <2>3 DEF R!Hear
    <2> QED
        BY <2>4 DEF R!Next
<1>4. CASE Lost
    <2>1. /\ BrokenLines \subseteq BrokenLines' /\ BrokenLines' = Ends
          /\ DOMAIN Flow' = Ends /\ UNCHANGED got
        BY <1>4 DEF Lost, BrokenLines, Flow
    <2>2. ASSUME NEW e \in Ends
          PROVE  Flow'[e] = Flow[e] \/ R!IsPrefix(Flow'[e], Flow[e])
        <3>1. Flow'[e] = OnItsWay(e)' /\ Flow[e] = OnItsWay(e)
            BY DEF Flow
        <3>2. OnItsWay(e)' = OnItsWay(e) \/ Starts(OnItsWay(e)', OnItsWay(e))
            BY <1>4 DEF Lost
        <3> QED
            BY <3>1, <3>2 DEF Starts, R!IsPrefix
    <2>3. R!Break
        BY <2>1, <2>2 DEF R!Break
    <2> QED
        BY <2>3 DEF R!Next
<1> QED
    BY <1>1, <1>2, <1>3, <1>4, EveryStep

\* hydra run implements the relay, for any pipes, any lines and any order of the
\* goroutines: what one end says reaches the other in order, once, and nothing else
\* does; only when an end leaves or the program ends are the last messages lost
\* (proxy.go:149-208, forwarding.go:16-35).
THEOREM HydraRunIsARelay == Spec => IsARelay
<1>1. Spec => []PathInv
    BY InitPath, PathInvStep, PTL DEF Spec
<1>2. PathInv /\ PathInv' /\ [Next]_vars => [R!Next]_(R!relayVars)
    BY RelayStep
<1> QED
    BY <1>1, <1>2, RelayInit, PTL DEF Spec, IsARelay, R!Spec

AllAccounted ==
    \A e \in Ends : Whole(e) => MessagesOf(wrote[e]) = Cat(got[Other(e)], OnItsWay(e))

AccountInv == PathInv /\ AllAccounted /\ EofComesLast

\* At the start nothing was said.
LEMMA AccountInit == Init => AccountInv
<1> SUFFICES ASSUME Init PROVE AccountInv
    OBVIOUS
<1>1. PathInv
    BY InitPath
<1>2. EofComesLast
    BY DEF Init, EofComesLast
<1>3. ASSUME NEW e \in Ends
      PROVE  MessagesOf(wrote[e]) = Cat(got[Other(e)], OnItsWay(e))
    <2>1. OnItsWay(e) = <<>>
        BY RelayInit DEF R!Init, Flow
    <2>2. MessagesOf(wrote[e]) = <<>> /\ got[Other(e)] = <<>>
        BY NoMessages, TwoEnds DEF Init, Nothing
    <2>3. Cat(<<>>, <<>>) = <<>>
        BY EmptyLine, CatNothing
    <2> QED
        BY <2>1, <2>2, <2>3
<1> QED
    BY <1>1, <1>2, <1>3 DEF AccountInv, AllAccounted

\* A step that moves no message keeps the account.
LEMMA AccountedWhenUnmoved ==
    ASSUME AllAccounted, Unmoved
    PROVE  AllAccounted'
BY DEF AllAccounted, Unmoved, MessagesOf

\* A message said is one more on its way.
LEMMA AccountedWhenSaid ==
    ASSUME PathInv, AllAccounted, NEW e \in Ends, NEW line \in Lines, Said(e, line)
    PROVE  AllAccounted'
<1> DEFINE o == Other(e)
<1>1. o \in Ends /\ Ends = {e, o} /\ Other(o) = e
    BY TwoEnds
<1>2. Whole(o)' => MessagesOf(wrote[o])' = Cat(got'[e], OnItsWay(o)')
    BY <1>1 DEF AllAccounted, Said, MessagesOf
<1>3. Whole(e)' => MessagesOf(wrote[e])' = Cat(got'[o], OnItsWay(e)')
    <2> SUFFICES ASSUME Whole(e)' PROVE MessagesOf(wrote[e])' = Cat(got'[o], OnItsWay(e)')
        OBVIOUS
    <2>1. MessagesOf(wrote[e]) = Cat(got[o], OnItsWay(e)) /\ life[o] # "gone"
        BY <1>1 DEF Said, AllAccounted, Whole
    <2>2. got[o] \in Seq(Lines) /\ OnItsWay(e) \in Seq(Lines)
        BY <1>1, FlowType, StreamTypes DEF PathInv, TypeOK, EndsOK
    <2> HIDE DEF o
    <2>3. Cat(got[o], Append(OnItsWay(e), line)) = Append(Cat(got[o], OnItsWay(e)), line)
        BY <2>2, CatAppend
    <2> QED
        BY <2>1, <2>3 DEF Said, o
<1> QED
    BY <1>1, <1>2, <1>3 DEF AllAccounted

\* A message heard is one fewer.
LEMMA AccountedWhenHeard ==
    ASSUME PathInv, AllAccounted, NEW e \in Ends, Heard(e)
    PROVE  AllAccounted'
<1> DEFINE o == Other(e)
<1>1. o \in Ends /\ o # e /\ Ends = {e, o} /\ Other(o) = e
    BY TwoEnds
<1>2. /\ got \in Streams /\ got[e] \in Seq(Lines) /\ OnItsWay(o) \in Seq(Lines)
    BY <1>1, FlowType, StreamTypes DEF PathInv, TypeOK, EndsOK
<1>3. /\ got' = [got EXCEPT ![e] = Append(got[e], Head(OnItsWay(o)))]
      /\ OnItsWay(o)' = Tail(OnItsWay(o)) /\ OnItsWay(o) # <<>> /\ OnItsWay(e)' = OnItsWay(e)
      /\ wrote' = wrote /\ (Whole(o)' => Whole(o)) /\ (Whole(e)' => Whole(e))
    BY <1>1 DEF Heard
<1> HIDE DEF o
<1>4. got'[e] = Append(got[e], Head(OnItsWay(o))) /\ got'[o] = got[o]
    BY <1>1, <1>2, <1>3 DEF Streams
<1>5. Cat(Append(got[e], Head(OnItsWay(o))), Tail(OnItsWay(o))) = Cat(got[e], OnItsWay(o))
    BY <1>2, <1>3, CatMoves
<1>6. Whole(o)' => MessagesOf(wrote[o])' = Cat(got'[e], OnItsWay(o)')
    BY <1>1, <1>3, <1>4, <1>5 DEF AllAccounted, MessagesOf
<1>7. Whole(e)' => MessagesOf(wrote[e])' = Cat(got'[o], OnItsWay(e)')
    BY <1>1, <1>3, <1>4 DEF AllAccounted, MessagesOf, o
<1> QED
    BY <1>1, <1>6, <1>7 DEF AllAccounted, o

\* The account is kept as long as the way is whole.
LEMMA AccountedStep ==
    ASSUME PathInv, PathInv', AllAccounted, [Next]_vars
    PROVE  AllAccounted'
<1>1. CASE UNCHANGED vars
    <2>1. Unmoved
        BY <1>1 DEF vars, endVars, pipeVars, readVars, loopVars, Unmoved, BrokenLines, OnItsWay, WritingTo,
           MessagesOf, Whole, Running
    <2> QED
        BY <2>1, AccountedWhenUnmoved
<1>2. ASSUME NEW e \in Ends, BeginsLine(e) \/ ClosesOutput(e)
      PROVE  AllAccounted'
    BY <1>2, QuietSteps, AccountedWhenUnmoved
<1>3. ASSUME NEW e \in Ends, Writes(e) \/ ReadsLine(e)
      PROVE  AllAccounted'
    BY <1>3, WritesMoves, ReadsMoves, AccountedWhenSaid, AccountedWhenHeard DEF Writes
<1>4. ASSUME NEW e \in Ends, Leaves(e)
      PROVE  AllAccounted'
    <2>1. /\ UNCHANGED <<got, wrote>> /\ OnItsWay(e)' = OnItsWay(e)
          /\ (Whole(e)' => Whole(e)) /\ ~Whole(Other(e))'
        BY <1>4, LeavesLoses DEF Lost
    <2> QED
        BY <2>1, TwoEnds DEF AllAccounted, MessagesOf
<1>5. CASE Reap
    <2>1. /\ UNCHANGED <<got, wrote>>
          /\ \A e \in Ends : Whole(e)' => Whole(e) /\ OnItsWay(e)' = OnItsWay(e)
        BY <1>5, ReapLoses DEF Lost
    <2> QED
        BY <2>1 DEF AllAccounted, MessagesOf
<1>6. ASSUME NEW e \in Ends, ReaderStep(e)
      PROVE  AllAccounted'
    BY <1>6, FillMoves, TakeLineMoves, QuietSteps, AccountedWhenUnmoved DEF ReaderStep
<1>7. CASE LoopStep
    <2>1. CASE BrokenPipe \/ TakeError
        <3>1. ~Running'
            BY <2>1, EndOfProgram DEF EndProgram, Running, ErrorKinds
        <3> QED
            BY <3>1 DEF AllAccounted, Whole
    <2> QED
        BY <1>7, <2>1, TakeMoves, ForwardMoves, ForwardFailsMoves, AccountedWhenUnmoved DEF LoopStep
<1>8. CASE Rest
    <2>1. "child" \in Ends
        BY DEF Ends
    <2> QED
        BY <1>8, <2>1, QuietSteps, AccountedWhenUnmoved
<1> QED
    BY <1>1, <1>2, <1>3, <1>4, <1>5, <1>6, <1>7, <1>8 DEF Next

\* An error taken at an end of file finds the way empty but for the pipe to the other
\* end.
LEMMA EofStep ==
    ASSUME PathInv, PathInv', AllAccounted, EofComesLast, [Next]_vars
    PROVE  EofComesLast'
<1>1. CASE ended' = "no"
    BY <1>1 DEF EofComesLast
<1>2. CASE ended' # "no" /\ ended = "no"
    <2>1. BrokenPipe \/ TakeError
        BY <1>2 DEF Next, vars, loopVars, BeginsLine, Writes, WritesLine, ReadsLine, ClosesOutput, Leaves, Reap,
           ReaderStep, Fill, TakeLine, ReadFails, LoopStep, Take, Forward, ForwardFails, Rest
    <2>2. CASE BrokenPipe
        <3>1. ended' = "sigpipe"
            BY <2>2 DEF BrokenPipe, EndProgram
        <3> QED
            BY <3>1 DEF EofComesLast
    <2>3. CASE TakeError
        <3>1. /\ writing = <<>> /\ errs # <<>> /\ Running /\ ended' = Head(errs)
              /\ UNCHANGED <<life, wrote, got, output>>
            BY <2>3 DEF TakeError, Selecting, EndProgram
        <3>2. 1 \in DOMAIN errs /\ Head(errs) = errs[1]
            <4>1. errs \in Seq(ErrorKinds)
                BY Zenon DEF PathInv, TypeOK, ReadersOK, ErrorKinds
            <4> QED
                BY <3>1, <4>1
        <3> SUFFICES ASSUME NEW e \in Ends, ended' = EofOf(e), life'[Other(e)] # "gone"
                     PROVE  (MessagesOf(wrote[e]) = got[Other(e)] \o output[Other(e)])'
            BY DEF EofComesLast, EofOf
        <3> DEFINE o == Other(e)
        <3>3. errs[1] = EofOf(e) /\ life[o] # "gone"
            BY <3>1, <3>2
        <3>4. reader[e] = "done"
            BY <3>2, <3>3 DEF PathInv, ErrorsOfDone, ErrorsOf, EofOf, Ends
        <3>5. input[e] = <<>> /\ buffer[e] = <<>> /\ offer[e] = <<>>
            BY <3>4 DEF PathInv, DoneReaders
        <3>6. Whole(e)
            BY <3>1, <3>2, <3>3 DEF Whole, EofOf
        <3>7. /\ Near(e) = output[o] /\ Held(e) = <<>> /\ Buffered(e) = <<>> /\ Piped(e) = <<>>
            BY <3>1, <3>5, NoMessages DEF Near, Held, WritingTo, Buffered, Piped
        <3>8. output[o] \in Seq(Lines)
            BY TwoEnds, StreamTypes DEF PathInv, TypeOK, PipesOK
        <3>9. /\ Cat(<<>>, <<>>) = <<>> /\ Cat(output[o], <<>>) = output[o]
            BY <3>8, CatNothing, EmptyLine
        <3>10. OnItsWay(e) = Cat(output[o], Cat(<<>>, Cat(<<>>, Cat(<<>>, <<>>))))
            BY <3>3, <3>5, <3>7, FlowHasForms DEF FlowForms, PathInv
        <3>11. MessagesOf(wrote[e]) = Cat(got[o], output[o])
            BY <3>6, <3>9, <3>10 DEF AllAccounted
        <3> QED
            BY <3>1, <3>11 DEF Cat, MessagesOf
    <2> QED
        BY <2>1, <2>2, <2>3
<1>3. CASE ended' # "no" /\ ended # "no"
    <2>1. (\E e \in Ends : ReadsLine(e)) \/ UNCHANGED vars
        BY <1>3 DEF Next, Running, Selecting, BeginsLine, Writes, WritesLine, ClosesOutput, Leaves, Reap,
           ReaderStep, Fill, Idle, TakeLine, ReadFails, AtEnd, LoopStep, Take, Forward, ForwardFails,
           BrokenPipe, TakeError, Rest
    <2>2. CASE UNCHANGED vars
        BY <2>2 DEF vars, endVars, pipeVars, loopVars, EofComesLast, MessagesOf
    <2>3. ASSUME NEW r \in Ends, ReadsLine(r)
          PROVE  EofComesLast'
        <3>1. /\ UNCHANGED <<ended, life, wrote>> /\ output[r] # <<>>
              /\ got' = [got EXCEPT ![r] = Append(got[r], Head(output[r]))]
              /\ output' = [output EXCEPT ![r] = Tail(output[r])]
              /\ got \in Streams /\ output \in Streams
            BY <2>3 DEF ReadsLine, loopVars, PathInv, TypeOK, EndsOK, PipesOK
        <3>2. /\ got[r] \in Seq(Lines) /\ output[r] \in Seq(Lines)
              /\ got'[r] = Append(got[r], Head(output[r])) /\ output'[r] = Tail(output[r])
              /\ \A d \in Ends : d # r => got'[d] = got[d] /\ output'[d] = output[d]
            BY <3>1 DEF Streams
        <3>3. Cat(got'[r], output'[r]) = Cat(got[r], output[r])
            BY <3>1, <3>2, CatMoves
        <3>4. \A d \in Ends : Cat(got'[d], output'[d]) = Cat(got[d], output[d])
            BY <3>2, <3>3
        <3> SUFFICES ASSUME NEW e \in Ends, ended' = EofOf(e), life'[Other(e)] # "gone"
                     PROVE  (MessagesOf(wrote[e]) = got[Other(e)] \o output[Other(e)])'
            BY DEF EofComesLast, EofOf
        <3>5. MessagesOf(wrote[e]) = Cat(got[Other(e)], output[Other(e)])
            BY <3>1 DEF EofComesLast, EofOf, Cat
        <3>6. MessagesOf(wrote'[e]) = Cat(got'[Other(e)], output'[Other(e)])
            BY <3>1, <3>4, <3>5, TwoEnds
        <3> QED
            BY <3>6 DEF Cat, MessagesOf
    <2> QED
        BY <2>1, <2>2, <2>3
<1> QED
    BY <1>1, <1>2, <1>3

\* The error of a reader never overtakes its messages: a loop that ends at an end of
\* file has forwarded all that was said before it (proxy.go:149-163, 183-205).
THEOREM EofNeverOvertakes == Spec => []EofComesLast
<1>1. AccountInv /\ [Next]_vars => AccountInv'
    BY PathInvStep, AccountedStep, EofStep DEF AccountInv
<1>2. Spec => []AccountInv
    BY <1>1, AccountInit, PTL DEF Spec
<1>3. AccountInv => EofComesLast
    BY DEF AccountInv
<1> QED
    BY <1>2, <1>3, PTL
==============================================================================
