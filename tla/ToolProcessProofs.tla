-------------------------- MODULE ToolProcessProofs --------------------------
(***************************************************************************)
(* Proofs about ToolProcess, for any cap, block and amount of output.      *)
(***************************************************************************)
EXTENDS Integers, ToolProcess, TLAPS

PcSet == {"idle", "copy", "next", "spawned", "wait", "poll", "grace", "reap",
          "join", "close stdout", "close stderr", "closed", "ended"}
CallSet == {"transform", "smoke", "probe", "head", "status", "wrong head", "version"}
ToolSet == [pc : PcSet, calls : Seq(CallSet), timedOut : BOOLEAN, unwinding : BOOLEAN,
            outcome : {"none", "ok", "error", "interrupted"}]
GroupSet == [leader : {"none", "running", "exited", "reaped"}, child : {"none", "running", "gone"},
             holds : BOOLEAN, code : {0, 1, 9, 15}, signalled : BOOLEAN]
ReaderSet == {"none", "read", "got", "locked", "done"}
StreamSet == [taken : Nat, kept : Nat, reader : ReaderSet, chunk : Nat, room : Nat]

(* While a call runs, it is the first of the calls that are left.          *)
InCall == {"spawned", "wait", "poll", "grace", "reap", "join", "close stdout",
           "close stderr", "closed"}
CallsLeft == tool.pc \in InCall => tool.calls # << >>

(* The caller's side of a step.                                            *)
CallerOK == tool \in ToolSet /\ group \in GroupSet /\ CallsLeft /\ interrupts \in Nat

(* The readers' side: one of them holds the lock and knows what room there *)
(* is; who has nothing in hand holds nothing.                              *)
Clean == stream = [s \in Streams |-> NoStream] /\ lock = "free"

ReaderOK(s) ==
    /\ stream[s].reader = "locked" <=> lock = s
    /\ stream[s].reader = "locked" => stream[s].room = Room
    /\ stream[s].reader \notin {"got", "locked"} => stream[s].chunk = 0

ReadersOK ==
    /\ stream \in [Streams -> StreamSet]
    /\ lock \in Streams \union {"free"} /\ truncated \in BOOLEAN
    /\ \A s \in Streams : ReaderOK(s)
    /\ RetainedIsHonest

ToolInv == CallerOK /\ ReadersOK /\ (tool.pc = "spawned" => Clean)

LEMMA CallsTyped == \A kind \in NodeKinds : CallsOf[kind] \in Seq(CallSet)
<1>1. Fingerprint \in Seq(CallSet) /\ <<"transform">> \in Seq(CallSet)
         /\ <<"smoke">> \in Seq(CallSet)
  BY DEF Fingerprint, CallSet
<1>2. \A a, b \in Seq(CallSet) : a \o b \in Seq(CallSet)
  OBVIOUS
<1>3. <<"transform">> \o Fingerprint \in Seq(CallSet) /\ <<"smoke">> \o Fingerprint \in Seq(CallSet)
  BY <1>1, <1>2
<1> DEFINE F == Fingerprint  T == <<"transform">> \o Fingerprint  S == <<"smoke">> \o Fingerprint
<1>4. CallsOf["source"] = F /\ CallsOf["convert"] = T /\ CallsOf["quantize"] = T /\ CallsOf["smoke"] = S
  <2> HIDE DEF F, T, S
  <2>1. CallsOf = [source |-> F, convert |-> T, quantize |-> T, smoke |-> S]
    BY DEF CallsOf, F, T, S
  <2>2. QED
    BY <2>1
<1>5. QED
  BY <1>1, <1>3, <1>4 DEF NodeKinds

LEMMA CleanIsHonest ==
    ASSUME stream = [s \in Streams |-> NoStream], lock = "free", truncated = FALSE
    PROVE  ReadersOK
<1>1. NoStream \in StreamSet
  BY DEF NoStream, StreamSet, ReaderSet
<1>2. stream["stdout"] = NoStream /\ stream["stderr"] = NoStream
  BY DEF Streams
<1>3. RetainedIsHonest
  BY <1>2, ToolAssumption DEF RetainedIsHonest, NoStream, Kept, Least
<1>4. \A s \in Streams : ReaderOK(s)
  BY DEF ReaderOK, NoStream, Streams
<1>5. QED
  BY <1>1, <1>3, <1>4 DEF ReadersOK

LEMMA InitInv == ToolInit => ToolInv
<1> SUFFICES ASSUME ToolInit PROVE ToolInv
  OBVIOUS
<1>1. CallerOK
  BY DEF ToolInit, Idle, NoGroup, CallerOK, ToolSet, GroupSet, PcSet, CallsLeft, InCall
<1>2. ReadersOK /\ Clean
  BY CleanIsHonest DEF ToolInit, Clean
<1>3. QED
  BY <1>1, <1>2 DEF ToolInv

-----------------------------------------------------------------------------
(* Steps of the caller and the processes that leave the readers alone.     *)
LEMMA ReadersStay ==
    ASSUME ToolInv, UNCHANGED <<stream, lock, truncated>>,
           tool'.pc = "spawned" => tool.pc = "spawned", CallerOK'
    PROVE  ToolInv'
<1>1. ReadersOK'
  BY DEF ToolInv, ReadersOK, ReaderOK, RetainedIsHonest, Room, Kept
<1>2. QED
  BY <1>1 DEF ToolInv, Clean

LEMMA PcStep ==
    ASSUME ToolInv, NEW label \in PcSet, tool' = [tool EXCEPT !.pc = label],
           label \in InCall => tool.pc \in InCall
    PROVE  /\ tool' \in ToolSet /\ CallsLeft'
           /\ tool'.pc = label
<1>1. tool \in ToolSet /\ CallsLeft
  BY DEF ToolInv, CallerOK
<1>2. tool' \in ToolSet /\ tool'.pc = label /\ tool'.calls = tool.calls
  BY <1>1 DEF ToolSet
<1>3. QED
  BY <1>1, <1>2 DEF CallsLeft

LEMMA EndStep ==
    ASSUME ToolInv, NEW outcome \in {"ok", "error", "interrupted"}, tool' = End(outcome)
    PROVE  tool' \in ToolSet /\ CallsLeft' /\ tool'.pc = "ended"
BY DEF End, ToolInv, CallerOK, ToolSet, PcSet, CallsLeft, InCall

LEMMA ReapStep ==
    ASSUME ToolInv, NEW label \in {"join"}, ReapAnd(label), tool.pc \in InCall
    PROVE  ToolInv'
<1>1. tool' \in ToolSet /\ CallsLeft' /\ tool'.pc = label
  BY PcStep DEF ReapAnd, Goto, PcSet, InCall
<1>2. group' \in GroupSet
  BY DEF ToolInv, CallerOK, ReapAnd, GroupSet
<1>3. CallerOK'
  BY <1>1, <1>2 DEF CallerOK, ToolInv, ReapAnd
<1>4. QED
  BY <1>1, <1>3, ReadersStay DEF ReapAnd

LEMMA CallerQuiet ==
    ASSUME ToolInv,
           \/ WaitReturns \/ WaitTimesOut \/ PollFindsExit \/ TermGroup \/ GraceReturns
           \/ KillGroup \/ ReapKilled \/ JoinReaders \/ JoinTimesOut
           \/ CloseStdout \/ CloseStderr
    PROVE  ToolInv'
<1>1. CASE WaitReturns \/ PollFindsExit \/ GraceReturns \/ ReapKilled
  BY <1>1, ReapStep DEF WaitReturns, PollFindsExit, GraceReturns, ReapKilled, InCall
<1>2. CASE WaitTimesOut
  <2>1. tool' = [tool EXCEPT !.pc = "poll", !.timedOut = TRUE]
    BY <1>2 DEF WaitTimesOut
  <2>2. tool' \in ToolSet /\ CallsLeft' /\ tool'.pc = "poll"
    BY <1>2, <2>1 DEF WaitTimesOut, ToolInv, CallerOK, ToolSet, PcSet, CallsLeft, InCall
  <2>3. CallerOK'
    BY <1>2, <2>2 DEF WaitTimesOut, ToolInv, CallerOK
  <2>4. QED
    BY <1>2, <2>2, <2>3, ReadersStay DEF WaitTimesOut
<1>3. CASE TermGroup
  <2>1. tool' \in ToolSet /\ CallsLeft' /\ tool'.pc = "grace"
    BY <1>3, PcStep DEF TermGroup, Goto, PcSet, InCall
  <2>2. group' \in GroupSet
    BY <1>3 DEF TermGroup, ToolInv, CallerOK, GroupSet
  <2>3. CallerOK'
    BY <1>3, <2>1, <2>2 DEF TermGroup, ToolInv, CallerOK
  <2>4. QED
    BY <1>3, <2>1, <2>3, ReadersStay DEF TermGroup
<1>4. CASE KillGroup
  <2>1. tool' \in ToolSet /\ CallsLeft' /\ tool'.pc = "reap"
    BY <1>4, PcStep DEF KillGroup, Goto, PcSet, InCall
  <2>2. group' \in GroupSet
    BY <1>4 DEF KillGroup, ToolInv, CallerOK, GroupSet
  <2>3. CallerOK'
    BY <1>4, <2>1, <2>2 DEF KillGroup, ToolInv, CallerOK
  <2>4. QED
    BY <1>4, <2>1, <2>3, ReadersStay DEF KillGroup
<1>5. CASE JoinReaders \/ JoinTimesOut
  <2>1. tool' \in ToolSet /\ CallsLeft' /\ tool'.pc = "close stdout"
    BY <1>5, PcStep DEF JoinReaders, JoinTimesOut, Goto, PcSet, InCall
  <2>2. CallerOK'
    BY <1>5, <2>1 DEF JoinReaders, JoinTimesOut, ToolInv, CallerOK
  <2>3. QED
    BY <1>5, <2>1, <2>2, ReadersStay DEF JoinReaders, JoinTimesOut
<1>6. CASE CloseStdout \/ CloseStderr
  <2>1. tool' \in ToolSet /\ CallsLeft' /\ tool'.pc \in {"close stderr", "closed"}
    BY <1>6, PcStep DEF CloseStdout, CloseStderr, ClosePipe, Goto, PcSet, InCall
  <2>2. CallerOK'
    BY <1>6, <2>1 DEF CloseStdout, CloseStderr, ClosePipe, ToolInv, CallerOK
  <2>3. QED
    BY <1>6, <2>1, <2>2, ReadersStay DEF CloseStdout, CloseStderr, ClosePipe
<1>7. QED
  BY <1>1, <1>2, <1>3, <1>4, <1>5, <1>6

-----------------------------------------------------------------------------
(* Steps of the caller that begin or end a call.                           *)
LEMMA ToolStartStep == ASSUME ToolInv, NEW kind \in NodeKinds, ToolStart(kind) PROVE ToolInv'
<1>1. CallsOf[kind] \in Seq(CallSet)
  BY CallsTyped
<1>2. tool' \in ToolSet /\ tool'.pc \in {"copy", "next"}
  BY <1>1 DEF ToolStart, Idle, ToolSet, PcSet
<1>3. CallerOK'
  BY <1>2 DEF ToolStart, ToolInv, CallerOK, CallsLeft, InCall
<1>4. QED
  BY <1>2, <1>3, ReadersStay DEF ToolStart

LEMMA BetweenCalls ==
    ASSUME ToolInv, CopySource \/ PopenFails \/ RunReturns
    PROVE  ToolInv'
<1>1. CASE CopySource /\ Goto("next")
  <2>1. tool' \in ToolSet /\ CallsLeft' /\ tool'.pc = "next"
    BY <1>1, PcStep DEF Goto, PcSet, InCall
  <2>2. CallerOK'
    BY <1>1, <2>1 DEF CopySource, ToolInv, CallerOK
  <2>3. QED
    BY <1>1, <2>1, <2>2, ReadersStay DEF CopySource
<1>2. CASE (CopySource \/ PopenFails) /\ tool' = End("error")
  <2>1. tool' \in ToolSet /\ CallsLeft' /\ tool'.pc = "ended"
    BY <1>2, EndStep
  <2>2. group' \in GroupSet
    <3>1. NoGroup \in GroupSet
      BY DEF NoGroup, GroupSet
    <3>2. QED
      BY <1>2, <3>1 DEF CopySource, PopenFails, ToolInv, CallerOK
  <2>3. CallerOK'
    BY <1>2, <2>1, <2>2 DEF CopySource, PopenFails, ToolInv, CallerOK
  <2>4. QED
    BY <1>2, <2>1, <2>3, ReadersStay DEF CopySource, PopenFails
<1>3. CASE RunReturns
  <2>1. tool' \in ToolSet /\ CallsLeft' /\ tool'.pc = "ended"
    BY <1>3, EndStep DEF RunReturns
  <2>2. CallerOK'
    BY <1>3, <2>1 DEF RunReturns, ToolInv, CallerOK
  <2>3. QED
    BY <1>3, <2>1, <2>2, ReadersStay DEF RunReturns
<1>4. CASE PopenFails /\ tool' = [tool EXCEPT !.calls = Tail(@)]
  <2>1. tool \in ToolSet /\ tool.calls # << >> /\ tool.pc = "next"
    BY <1>4 DEF PopenFails, ToolInv, CallerOK
  <2>2. Tail(tool.calls) \in Seq(CallSet)
    BY <2>1 DEF ToolSet
  <2>3. tool' \in ToolSet /\ tool'.pc = "next"
    BY <1>4, <2>1, <2>2 DEF ToolSet
  <2>4. CallerOK'
    <3>1. CallsLeft'
      BY <2>3 DEF CallsLeft, InCall
    <3>2. group' \in GroupSet /\ interrupts' \in Nat
      <4>1. NoGroup \in GroupSet
        BY DEF NoGroup, GroupSet
      <4>2. QED
        BY <1>4, <4>1 DEF PopenFails, ToolInv, CallerOK
    <3>3. QED
      BY <2>3, <3>1, <3>2 DEF CallerOK
  <2>5. QED
    BY <1>4, <2>3, <2>4, ReadersStay DEF PopenFails
<1>5. QED
  BY <1>1, <1>2, <1>3, <1>4 DEF CopySource, PopenFails

LEMMA CleanAfter ==
    ASSUME Clean', truncated' = FALSE
    PROVE  ReadersOK'
<1>1. (Clean /\ truncated = FALSE => ReadersOK)'
  BY CleanIsHonest, PTL DEF Clean
<1>2. QED
  BY <1>1

LEMMA PopenStep == ASSUME ToolInv, Popen PROVE ToolInv'
<1>1. tool \in ToolSet /\ tool.calls # << >>
  BY DEF Popen, ToolInv, CallerOK
<1>2. tool' \in ToolSet /\ tool'.calls = tool.calls
  BY <1>1 DEF Popen, ToolSet, PcSet
<1>3. group' \in GroupSet
  BY DEF Popen, NoGroup, GroupSet
<1>4. CallerOK'
  BY <1>1, <1>2, <1>3 DEF Popen, ToolInv, CallerOK, CallsLeft
<1>5. Clean' /\ truncated' = FALSE
  BY DEF Popen, Clean
<1>6. QED
  BY <1>4, <1>5, CleanAfter DEF ToolInv

(* What CallsAfter may leave is a sequence of calls.                       *)
LEMMA CallsAfterTyped ==
    ASSUME ToolInv, tool.pc = "closed", NEW calls \in CallsAfter(Head(tool.calls))
    PROVE  calls \in Seq(CallSet)
<1>1. tool.calls \in Seq(CallSet) /\ tool.calls # << >>
  BY DEF ToolInv, CallerOK, ToolSet, CallsLeft, InCall
<1>2. Tail(tool.calls) \in Seq(CallSet)
  BY <1>1
<1>3. <<"version">> \in Seq(CallSet) /\ <<"wrong head">> \in Seq(CallSet)
  BY DEF CallSet
<1>4. calls \in {Tail(tool.calls), <<"version">>, <<"wrong head">>}
  BY DEF CallsAfter
<1>5. QED
  BY <1>2, <1>3, <1>4

LEMMA CallReturnsStep == ASSUME ToolInv, CallReturns PROVE ToolInv'
<1>1. Clean' /\ truncated' = FALSE /\ interrupts' = interrupts
  BY DEF CallReturns, Clean
<1>2. CASE \/ tool' = End("interrupted") /\ UNCHANGED group
           \/ tool' = End("error") /\ UNCHANGED group
  <2>1. tool' \in ToolSet /\ CallsLeft' /\ tool'.pc = "ended"
    BY <1>2, EndStep
  <2>2. QED
    BY <1>1, <1>2, <2>1, CleanAfter DEF ToolInv, CallerOK
<1>3. CASE /\ \E calls \in CallsAfter(Head(tool.calls)) :
                tool' = [tool EXCEPT !.pc = "next", !.calls = calls, !.timedOut = FALSE]
           /\ group' = NoGroup
  <2>1. PICK calls \in CallsAfter(Head(tool.calls)) :
           tool' = [tool EXCEPT !.pc = "next", !.calls = calls, !.timedOut = FALSE]
    BY <1>3
  <2>2. calls \in Seq(CallSet)
    BY CallsAfterTyped DEF CallReturns
  <2>3. tool' \in ToolSet /\ tool'.pc = "next"
    BY <2>1, <2>2 DEF ToolInv, CallerOK, ToolSet, PcSet
  <2>4. CallerOK'
    BY <1>1, <1>3, <2>3 DEF ToolInv, CallerOK, CallsLeft, InCall, NoGroup, GroupSet
  <2>5. QED
    BY <1>1, <2>3, <2>4, CleanAfter DEF ToolInv
<1>4. QED
  BY <1>2, <1>3 DEF CallReturns

LEMMA InterruptStep == ASSUME ToolInv, ToolInterrupt PROVE ToolInv'
<1>1. tool \in ToolSet /\ CallsLeft /\ interrupts \in Nat
  BY DEF ToolInv, CallerOK
<1>2. /\ tool' \in ToolSet /\ CallsLeft'
      /\ tool'.pc # "spawned"
  <2>1. CASE tool' = End("interrupted")
    BY <2>1, EndStep
  <2>2. CASE tool.pc = "wait" /\ tool' = [tool EXCEPT !.pc = "poll", !.unwinding = TRUE]
    BY <1>1, <2>2 DEF ToolSet, PcSet, CallsLeft, InCall
  <2>3. CASE /\ tool.pc \in {"poll", "grace", "reap"}
             /\ tool' = [tool EXCEPT !.pc = "join", !.unwinding = TRUE]
    BY <1>1, <2>3 DEF ToolSet, PcSet, CallsLeft, InCall
  <2>4. QED
    BY <2>1, <2>2, <2>3 DEF ToolInterrupt
<1>3. CallerOK'
  BY <1>1, <1>2 DEF ToolInterrupt, ToolInv, CallerOK
<1>4. QED
  BY <1>2, <1>3, ReadersStay DEF ToolInterrupt

LEMMA ProcessStep ==
    ASSUME ToolInv, LeaderExits \/ LeaderObeys \/ ChildExits
    PROVE  ToolInv'
<1>1. group' \in GroupSet
  BY DEF ToolInv, CallerOK, GroupSet, LeaderExits, LeaderObeys, ChildExits
<1>2. CallerOK'
  BY <1>1 DEF ToolInv, CallerOK, CallsLeft, LeaderExits, LeaderObeys, ChildExits
<1>3. QED
  BY <1>2, ReadersStay DEF LeaderExits, LeaderObeys, ChildExits

-----------------------------------------------------------------------------
(* Steps of the reader threads.                                            *)
Other(s) == IF s = "stdout" THEN "stderr" ELSE "stdout"

LEMMA OneStream ==
    ASSUME NEW s \in Streams, stream \in [Streams -> StreamSet], NEW rec \in StreamSet,
           stream' = [stream EXCEPT ![s] = rec]
    PROVE  /\ stream' \in [Streams -> StreamSet]
           /\ stream'[s] = rec /\ stream'[Other(s)] = stream[Other(s)]
BY DEF Other, Streams

LEMMA RoomStays ==
    ASSUME NEW s \in Streams, stream'[s].kept = stream[s].kept,
           stream'[Other(s)] = stream[Other(s)]
    PROVE  Kept' = Kept /\ Room' = Room
<1>1. Kept' = Kept
  BY DEF Kept, Other, Streams
<1>2. QED
  BY <1>1 DEF Room

(* What the step of a reader leaves of the rest of the state.              *)
LEMMA ReaderAlone ==
    ASSUME ToolInv, NEW s \in Streams, UNCHANGED <<tool, group, interrupts>>,
           stream[s].reader # "none", ReadersOK'
    PROVE  ToolInv'
<1>1. tool.pc # "spawned"
  BY DEF ToolInv, Clean, NoStream
<1>2. QED
  BY <1>1 DEF ToolInv, CallerOK, CallsLeft

LEMMA ReadChunkStep == ASSUME ToolInv, NEW s \in Streams, ReadChunk(s) PROVE ToolInv'
<1>1. PICK n \in 0 .. Least(Block, MaxBytes - Delivered) :
         stream' = [stream EXCEPT ![s].taken = @ + n, ![s].chunk = n,
                                  ![s].reader = IF n = 0 THEN "done" ELSE "got"]
  BY DEF ReadChunk
<1>2. /\ stream \in [Streams -> StreamSet] /\ stream[s] \in StreamSet
      /\ stream[Other(s)] \in StreamSet
      /\ lock \in Streams \union {"free"} /\ truncated \in BOOLEAN
      /\ ReaderOK(s) /\ ReaderOK(Other(s)) /\ stream[s].chunk = 0
  BY DEF ToolInv, ReadersOK, ReadChunk, Other, Streams, ReaderOK
<1>3. /\ stream'[s] \in StreamSet /\ stream' \in [Streams -> StreamSet]
      /\ stream'[s].taken = stream[s].taken + n /\ stream'[s].chunk = n
      /\ stream'[s].kept = stream[s].kept
      /\ stream'[s].reader = IF n = 0 THEN "done" ELSE "got"
      /\ stream'[Other(s)] = stream[Other(s)]
  <2> DEFINE sum == stream[s].taken + n
             label == IF n = 0 THEN "done" ELSE "got"
             rec == [stream[s] EXCEPT !.taken = sum, !.chunk = n, !.reader = label]
  <2>1. sum \in Nat /\ n \in Nat /\ label \in {"done", "got"}
    BY <1>2 DEF StreamSet
  <2> HIDE DEF sum, label
  <2>2. /\ rec \in StreamSet /\ rec.taken = sum /\ rec.chunk = n
        /\ rec.kept = stream[s].kept /\ rec.reader = label
    BY <1>2, <2>1 DEF StreamSet, ReaderSet
  <2>3. stream' = [stream EXCEPT ![s] = rec]
    BY <1>1, <1>2 DEF sum, label, StreamSet
  <2> HIDE DEF rec
  <2>4. /\ stream' \in [Streams -> StreamSet]
        /\ stream'[s] = rec /\ stream'[Other(s)] = stream[Other(s)]
    BY <1>2, <2>2, <2>3, OneStream
  <2>5. QED
    BY <2>2, <2>4 DEF sum, label
<1>4. Room' = Room /\ lock' = lock /\ truncated' = truncated
  BY <1>3, RoomStays DEF ReadChunk
<1>5. ReaderOK(s)' /\ ReaderOK(Other(s))'
  BY <1>2, <1>3, <1>4 DEF ReaderOK, ReadChunk
<1>6. RetainedIsHonest'
  <2>1. stream'[s].taken - stream'[s].chunk = stream[s].taken - stream[s].chunk
    BY <1>2, <1>3 DEF StreamSet
  <2>2. QED
    BY <1>2, <1>3, <1>4, <2>1 DEF RetainedIsHonest, ToolInv, ReadersOK, Kept, Other, Streams,
       StreamSet
<1>7. ReadersOK'
  BY <1>2, <1>3, <1>4, <1>5, <1>6 DEF ReadersOK, Other, Streams
<1>8. QED
  BY <1>7, ReaderAlone DEF ReadChunk

LEMMA TakeLockStep == ASSUME ToolInv, NEW s \in Streams, TakeLock(s) PROVE ToolInv'
<1>1. stream' = [stream EXCEPT ![s] = [@ EXCEPT !.reader = "locked", !.room = Room]]
  BY DEF TakeLock, ToolInv, ReadersOK, StreamSet
<1>2. /\ stream \in [Streams -> StreamSet] /\ stream[s] \in StreamSet
      /\ stream[Other(s)] \in StreamSet
      /\ ReaderOK(s) /\ ReaderOK(Other(s)) /\ lock = "free" /\ truncated \in BOOLEAN
  BY DEF ToolInv, ReadersOK, TakeLock, Other, Streams
<1>3. Room \in Nat
  BY <1>2, ToolAssumption DEF Room, Kept, StreamSet, Other, Streams
<1>4. /\ stream'[s] \in StreamSet /\ stream' \in [Streams -> StreamSet]
      /\ stream'[s].taken = stream[s].taken /\ stream'[s].chunk = stream[s].chunk
      /\ stream'[s].kept = stream[s].kept
      /\ stream'[s].reader = "locked" /\ stream'[s].room = Room
      /\ stream'[Other(s)] = stream[Other(s)]
  <2> DEFINE rec == [stream[s] EXCEPT !.reader = "locked", !.room = Room]
  <2>1. /\ rec \in StreamSet /\ rec.taken = stream[s].taken /\ rec.chunk = stream[s].chunk
        /\ rec.kept = stream[s].kept /\ rec.reader = "locked" /\ rec.room = Room
    BY <1>2, <1>3 DEF StreamSet, ReaderSet
  <2> HIDE DEF rec
  <2>2. stream' = [stream EXCEPT ![s] = rec]
    BY <1>1 DEF rec
  <2>3. QED
    BY <1>2, <2>1, <2>2, OneStream
<1>5. Room' = Room /\ lock' = s /\ truncated' = truncated
  BY <1>4, RoomStays DEF TakeLock
<1>6. ReaderOK(s)' /\ ReaderOK(Other(s))'
  BY <1>2, <1>4, <1>5 DEF ReaderOK, Other, Streams
<1>7. RetainedIsHonest'
  BY <1>2, <1>4, <1>5 DEF RetainedIsHonest, ToolInv, ReadersOK, Kept, Other, Streams
<1>8. ReadersOK'
  BY <1>2, <1>4, <1>5, <1>6, <1>7 DEF ReadersOK, Other, Streams
<1>9. QED
  BY <1>8, ReaderAlone DEF TakeLock

LEMMA KeepChunkStep == ASSUME ToolInv, NEW s \in Streams, KeepChunk(s) PROVE ToolInv'
<1> DEFINE k == Least(stream[s].chunk, stream[s].room)
<1>1. stream' = [stream EXCEPT ![s].kept = @ + k, ![s].reader = "read", ![s].chunk = 0,
                               ![s].room = 0]
  BY DEF KeepChunk
<1>2. /\ stream \in [Streams -> StreamSet] /\ stream[s] \in StreamSet
      /\ stream[Other(s)] \in StreamSet
      /\ ReaderOK(s) /\ ReaderOK(Other(s)) /\ truncated \in BOOLEAN
      /\ lock = s /\ stream[s].room = Room
  BY DEF ToolInv, ReadersOK, KeepChunk, Other, Streams, ReaderOK
<1>3. k \in Nat
  BY <1>2 DEF StreamSet, Least
<1> HIDE DEF k
<1>4. /\ stream'[s] \in StreamSet /\ stream' \in [Streams -> StreamSet]
      /\ stream'[s].taken = stream[s].taken /\ stream'[s].chunk = 0
      /\ stream'[s].kept = stream[s].kept + k
      /\ stream'[s].reader = "read"
      /\ stream'[Other(s)] = stream[Other(s)]
  <2> DEFINE sum == stream[s].kept + k
             rec == [stream[s] EXCEPT !.kept = sum, !.reader = "read", !.chunk = 0, !.room = 0]
  <2>1. sum \in Nat
    BY <1>2, <1>3 DEF StreamSet
  <2> HIDE DEF sum
  <2>2. /\ rec \in StreamSet /\ rec.taken = stream[s].taken /\ rec.chunk = 0
        /\ rec.kept = sum /\ rec.reader = "read"
    BY <1>2, <2>1 DEF StreamSet, ReaderSet
  <2>3. stream' = [stream EXCEPT ![s] = rec]
    BY <1>1, <1>2 DEF sum, StreamSet
  <2> HIDE DEF rec
  <2>4. /\ stream' \in [Streams -> StreamSet]
        /\ stream'[s] = rec /\ stream'[Other(s)] = stream[Other(s)]
    BY <1>2, <2>2, <2>3, OneStream
  <2>5. QED
    BY <2>2, <2>4 DEF sum
<1>5. lock' = "free" /\ truncated' \in BOOLEAN
  BY <1>2 DEF KeepChunk
<1>6. stream[Other(s)].reader # "locked"
  BY <1>2 DEF ReaderOK, Other, Streams
<1>7. ReaderOK(s)' /\ ReaderOK(Other(s))'
  BY <1>2, <1>4, <1>5, <1>6 DEF ReaderOK, Other, Streams
<1>8. RetainedIsHonest'
  <2> DEFINE read == stream[s].taken + stream[Other(s)].taken
                       - stream[s].chunk - stream[Other(s)].chunk
             readNext == stream'[s].taken + stream'[Other(s)].taken
                       - stream'[s].chunk - stream'[Other(s)].chunk
             sum == stream[s].kept + stream[Other(s)].kept
             chunk == stream[s].chunk
             room == stream[s].room
  <2>1. /\ read \in Int /\ sum \in Nat /\ chunk \in Nat /\ room \in Nat /\ Cap \in Nat
        /\ readNext = read + chunk /\ Kept' = sum + k /\ Kept = sum
    BY <1>2, <1>3, <1>4, ToolAssumption DEF StreamSet, Kept, Other, Streams
  <2>2. sum = Least(read, Cap) /\ (truncated <=> read > Cap)
    BY <1>2, <2>1 DEF RetainedIsHonest, ToolInv, ReadersOK, Kept, Other, Streams, StreamSet
  <2>3. room = IF sum < Cap THEN Cap - sum ELSE 0
    BY <1>2, <2>1 DEF Room
  <2>4. k = Least(chunk, room) /\ truncated' = (truncated \/ chunk > room)
    BY DEF k, KeepChunk
  <2>5. RetainedIsHonest' <=> /\ Kept' = Least(readNext, Cap)
                              /\ truncated' <=> readNext > Cap
    <3>1. /\ stream'["stdout"] \in StreamSet /\ stream'["stderr"] \in StreamSet
      BY <1>4 DEF Streams
    <3> DEFINE both == stream'["stdout"].taken + stream'["stderr"].taken
                         - stream'["stdout"].chunk - stream'["stderr"].chunk
    <3>2. readNext = both
      BY <3>1 DEF Other, Streams, StreamSet
    <3>3. RetainedIsHonest' <=> /\ Kept' = Least(both, Cap)
                                /\ truncated' <=> both > Cap
      BY DEF RetainedIsHonest
    <3> HIDE DEF readNext, both
    <3>4. QED
      BY <3>2, <3>3
  <2> HIDE DEF read, readNext, sum, chunk, room
  <2>6. sum + k = Least(read + chunk, Cap)
    BY <1>3, <2>1, <2>2, <2>3, <2>4 DEF Least
  <2>7. (read > Cap \/ chunk > room) <=> read + chunk > Cap
    BY <2>1, <2>2, <2>3 DEF Least
  <2>8. QED
    BY <2>1, <2>2, <2>4, <2>5, <2>6, <2>7
<1>9. ReadersOK'
  BY <1>2, <1>4, <1>5, <1>7, <1>8 DEF ReadersOK, Other, Streams
<1>10. QED
  BY <1>9, ReaderAlone DEF KeepChunk

LEMMA ReadClosedStep == ASSUME ToolInv, NEW s \in Streams, ReadClosed(s) PROVE ToolInv'
<1>1. stream' = [stream EXCEPT ![s] = [@ EXCEPT !.reader = "done"]]
  BY DEF ReadClosed, ToolInv, ReadersOK, StreamSet
<1>2. /\ stream \in [Streams -> StreamSet] /\ stream[s] \in StreamSet
      /\ stream[Other(s)] \in StreamSet
      /\ ReaderOK(s) /\ ReaderOK(Other(s))
  BY DEF ToolInv, ReadersOK, Other, Streams
<1>3. /\ stream'[s] \in StreamSet /\ stream' \in [Streams -> StreamSet]
      /\ stream'[s].taken = stream[s].taken /\ stream'[s].chunk = stream[s].chunk
      /\ stream'[s].kept = stream[s].kept /\ stream'[s].reader = "done"
      /\ stream'[Other(s)] = stream[Other(s)]
  BY <1>1, <1>2 DEF StreamSet, ReaderSet, Other, Streams
<1>4. Room' = Room /\ lock' = lock /\ truncated' = truncated
  BY <1>3, RoomStays DEF ReadClosed
<1>5. ReaderOK(s)' /\ ReaderOK(Other(s))'
  BY <1>2, <1>3, <1>4 DEF ReaderOK, ReadClosed
<1>6. RetainedIsHonest'
  BY <1>2, <1>3, <1>4 DEF RetainedIsHonest, ToolInv, ReadersOK, Kept, Other, Streams
<1>7. ReadersOK'
  BY <1>2, <1>3, <1>4, <1>5, <1>6 DEF ReadersOK, ToolInv, Other, Streams
<1>8. QED
  BY <1>7, ReaderAlone DEF ReadClosed

LEMMA StartReadersStep == ASSUME ToolInv, StartReaders PROVE ToolInv'
<1>1. tool' \in ToolSet /\ CallsLeft' /\ tool'.pc = "wait"
  BY PcStep DEF StartReaders, Goto, PcSet, InCall
<1>2. CallerOK'
  BY <1>1 DEF StartReaders, ToolInv, CallerOK
<1>3. /\ stream = [s \in Streams |-> NoStream] /\ lock = "free"
      /\ lock' = lock /\ truncated' = truncated
  BY DEF StartReaders, ToolInv, Clean
<1> DEFINE Fresh == [NoStream EXCEPT !.reader = "read"]
<1>4. Fresh \in StreamSet /\ Fresh.taken = 0 /\ Fresh.chunk = 0 /\ Fresh.kept = 0
      /\ Fresh.reader = "read"
  BY DEF NoStream, StreamSet, ReaderSet
<1>5. stream' = [s \in Streams |-> Fresh]
  BY <1>3 DEF StartReaders
<1> HIDE DEF Fresh
<1>6. \A s \in Streams : ReaderOK(s)'
  BY <1>3, <1>4, <1>5 DEF ReaderOK, Streams
<1>7. RetainedIsHonest'
  <2>1. /\ stream["stdout"] = NoStream /\ stream["stderr"] = NoStream
        /\ stream'["stdout"] = Fresh /\ stream'["stderr"] = Fresh
    BY <1>3, <1>5 DEF Streams
  <2>2. RetainedIsHonest
    BY DEF ToolInv, ReadersOK
  <2>3. QED
    BY <1>3, <1>4, <2>1, <2>2, ToolAssumption DEF RetainedIsHonest, Kept, NoStream, Least
<1>8. ReadersOK'
  BY <1>3, <1>4, <1>5, <1>6, <1>7 DEF ReadersOK, ToolInv
<1>9. QED
  BY <1>1, <1>2, <1>8 DEF ToolInv

-----------------------------------------------------------------------------
LEMMA StepInv == ToolInv /\ [ToolNext]_toolVars => ToolInv'
<1> SUFFICES ASSUME ToolInv, [ToolNext]_toolVars PROVE ToolInv'
  OBVIOUS
<1>1. CASE UNCHANGED toolVars
  BY <1>1 DEF toolVars, ToolInv, CallerOK, CallsLeft, ReadersOK, ReaderOK, Clean,
     RetainedIsHonest, Room, Kept
<1>2. CASE \E kind \in NodeKinds : ToolStart(kind)
  BY <1>2, ToolStartStep
<1>3. CASE Caller
  BY <1>3, BetweenCalls, PopenStep, StartReadersStep, CallerQuiet, CallReturnsStep DEF Caller
<1>4. CASE ToolInterrupt \/ LeaderExits \/ LeaderObeys \/ ChildExits
  BY <1>4, InterruptStep, ProcessStep
<1>5. CASE \E s \in Streams : Reader(s)
  BY <1>5, ReadChunkStep, TakeLockStep, KeepChunkStep, ReadClosedStep DEF Reader
<1>6. QED
  BY <1>1, <1>2, <1>3, <1>4, <1>5 DEF ToolNext

(* The state of a node's tool calls keeps its type, for any cap and block. *)
THEOREM ToolTypeCorrect == ToolSpec => []ToolTypeOK
<1>1. ToolInv => ToolTypeOK
  BY DEF ToolInv, CallerOK, ReadersOK, ToolTypeOK, ToolSet, GroupSet, StreamSet, PcSet, CallSet,
     ReaderSet
<1>2. QED
  BY InitInv, StepInv, <1>1, PTL DEF ToolSpec

(* For any cap, block and amount of output, and whichever of the two       *)
(* threads runs when: what is kept is the output read so far up to the     *)
(* cap, and the flag says exactly whether some of it was thrown away.      *)
THEOREM RetainedHonest == ToolSpec => []RetainedIsHonest
<1>1. ToolInv => RetainedIsHonest
  BY DEF ToolInv, ReadersOK
<1>2. QED
  BY InitInv, StepInv, <1>1, PTL DEF ToolSpec
=============================================================================
