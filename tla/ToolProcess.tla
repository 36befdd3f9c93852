---------------------------- MODULE ToolProcess ----------------------------
(***************************************************************************)
(* The processes of a configured llama.cpp tool (adapters/llamacpp.py):    *)
(* one node's run() makes a list of calls of _run_capped, each with a      *)
(* process group (the tool itself, the leader, and at most one descendant),*)
(* two pipes, two reader threads that share one cap, a timeout, and an     *)
(* interrupt (cli.py turns SIGTERM into KeyboardInterrupt) at any step.    *)
(*                                                                         *)
(* A byte is a unit, Block what stream.read(8192) asks for: the read       *)
(* returns a whole block or, at the end of the stream, what is left.       *)
(***************************************************************************)
EXTENDS Naturals, Sequences

CONSTANTS
    Cap,            \* max_log_bytes, what both pipes may leave together
    Block,          \* what one read asks for
    MaxBytes,       \* bound: bytes the two pipes of a call deliver
    MaxInterrupts   \* bound: interrupts of one run

ASSUME ToolAssumption ==
    /\ {Cap, MaxBytes, MaxInterrupts} \subseteq Nat
    /\ Block \in Nat \ {0}

Streams == {"stdout", "stderr"}
NodeKinds == {"source", "convert", "quantize", "smoke"}

VARIABLES
    tool,       \* the node's run: kind, calls left, position, verdict
    group,      \* the process group of the current call
    stream,     \* per pipe: taken by reads, kept; its reader
    lock,       \* the reader that holds the lock, or "free"
    truncated,  \* the flag the readers share
    interrupts

toolVars == <<tool, group, stream, lock, truncated, interrupts>>

(* fingerprint()'s calls: every handler makes them after its own.  One     *)
(* "version" stands for the three, of python, quantize and runner.         *)
Fingerprint == <<"probe", "head", "status", "version">>
CallsOf == [source |-> Fingerprint, convert |-> <<"transform">> \o Fingerprint,
            quantize |-> <<"transform">> \o Fingerprint, smoke |-> <<"smoke">> \o Fingerprint]

NoGroup == [leader |-> "none", child |-> "none", holds |-> FALSE,
            code |-> 0, signalled |-> FALSE]
NoStream == [taken |-> 0, kept |-> 0, reader |-> "none", chunk |-> 0, room |-> 0]
Idle == [pc |-> "idle", calls |-> << >>, timedOut |-> FALSE,
         unwinding |-> FALSE, outcome |-> "none"]
ToolInit ==
    /\ tool = Idle
    /\ group = NoGroup
    /\ stream = [s \in Streams |-> NoStream]
    /\ lock = "free" /\ truncated = FALSE
    /\ interrupts = 0

Goto(label) == tool' = [tool EXCEPT !.pc = label]
End(outcome) == [tool EXCEPT !.pc = "ended", !.outcome = outcome]

Kept == stream["stdout"].kept + stream["stderr"].kept
Room == IF Kept < Cap THEN Cap - Kept ELSE 0
Least(m, n) == IF m < n THEN m ELSE n

(* Nobody can write to the pipes any more.                                 *)
Eof == group.leader # "running" /\ ~(group.child = "running" /\ group.holds)

-----------------------------------------------------------------------------
(* run() and the handlers: the node's calls.                               *)

ToolStart(kind) ==
    /\ tool.pc = "idle"
    /\ tool' = [Idle EXCEPT !.pc = IF kind = "source" THEN "copy" ELSE "next",
                            !.calls = CallsOf[kind]]
    /\ UNCHANGED <<group, stream, lock, truncated, interrupts>>

(* _source: the tree is hashed before and after it is copied, and its copy *)
(* is hashed too.                                                          *)
CopySource ==
    /\ tool.pc = "copy"
    /\ \/ Goto("next")
       \/ tool' = End("error")
    /\ UNCHANGED <<group, stream, lock, truncated, interrupts>>

(* Popen.  Whether the tool starts a descendant, and whether that one      *)
(* keeps the pipes, is the tool's own choice.                              *)
Popen ==
    /\ tool.pc = "next" /\ tool.calls # << >>
    /\ \E child \in {"none", "running"}, holds \in BOOLEAN :
          /\ holds => child = "running"
          /\ group' = [NoGroup EXCEPT !.leader = "running", !.child = child, !.holds = holds]
    /\ tool' = [tool EXCEPT !.pc = "spawned", !.timedOut = FALSE]
    /\ stream' = [s \in Streams |-> NoStream]
    /\ lock' = "free" /\ truncated' = FALSE
    /\ UNCHANGED <<interrupts>>

(* An executable that cannot be started: _execute fails the node, _version *)
(* records it, fingerprint() lets it escape.                               *)
PopenFails ==
    /\ tool.pc = "next" /\ tool.calls # << >>
    /\ IF Head(tool.calls) = "version"
       THEN tool' = [tool EXCEPT !.calls = Tail(@)]
       ELSE tool' = End("error")
    /\ group' = NoGroup
    /\ UNCHANGED <<stream, lock, truncated, interrupts>>

RunReturns ==
    /\ tool.pc = "next" /\ tool.calls = << >>
    /\ tool' = End("ok")
    /\ UNCHANGED <<group, stream, lock, truncated, interrupts>>

-----------------------------------------------------------------------------
(* The tool and its descendant.                                            *)

LeaderExits ==
    /\ group.leader = "running"
    /\ \E code \in {0, 1} : group' = [group EXCEPT !.leader = "exited", !.code = code]
    /\ UNCHANGED <<tool, stream, lock, truncated, interrupts>>

(* SIGTERM ends the leader some time later, or never if it ignores it.     *)
LeaderObeys ==
    /\ group.signalled /\ group.leader = "running"
    /\ group' = [group EXCEPT !.leader = "exited", !.code = 15]
    /\ UNCHANGED <<tool, stream, lock, truncated, interrupts>>

(* The descendant ends by itself or of the SIGTERM.                        *)
ChildExits ==
    /\ group.child = "running"
    /\ group' = [group EXCEPT !.child = "gone"]
    /\ UNCHANGED <<tool, stream, lock, truncated, interrupts>>

-----------------------------------------------------------------------------
(* What the tool has written and a thread has read, over both pipes. *)
Delivered == stream["stdout"].taken + stream["stderr"].taken

(* drain: one thread per pipe.  What the tool writes, and when, shows in   *)
(* what a read returns; a read can be short only at the end of the stream. *)

ReadChunk(s) ==
    /\ stream[s].reader = "read"
    /\ \E n \in 0 .. Least(Block, MaxBytes - Delivered) :
          /\ n < Block => Eof
          /\ n > 0 => stream[s].taken % Block = 0
          /\ stream' = [stream EXCEPT ![s].taken = @ + n, ![s].chunk = n,
                                      ![s].reader = IF n = 0 THEN "done" ELSE "got"]
    /\ UNCHANGED <<tool, group, lock, truncated, interrupts>>

(* Mutant of TakeLock: the cap is read without the lock.                   *)
TakeNoLock(s) ==
    /\ stream[s].reader = "got"
    /\ lock' = s
    /\ stream' = [stream EXCEPT ![s].reader = "locked", ![s].room = Room]
    /\ UNCHANGED <<tool, group, truncated, interrupts>>

TakeLock(s) ==
    /\ stream[s].reader = "got" /\ lock = "free"
    /\ lock' = s
    /\ stream' = [stream EXCEPT ![s].reader = "locked", ![s].room = Room]
    /\ UNCHANGED <<tool, group, truncated, interrupts>>

KeepChunk(s) ==
    /\ stream[s].reader = "locked"
    /\ stream' = [stream EXCEPT ![s].kept = @ + Least(stream[s].chunk, stream[s].room),
                                ![s].reader = "read", ![s].chunk = 0, ![s].room = 0]
    /\ truncated' = (truncated \/ stream[s].chunk > stream[s].room)
    /\ lock' = "free"
    /\ UNCHANGED <<tool, group, interrupts>>

-----------------------------------------------------------------------------
(* _run_capped.                                                            *)

StartReaders ==
    /\ tool.pc = "spawned"
    /\ stream' = [s \in Streams |-> [stream[s] EXCEPT !.reader = "read"]]
    /\ Goto("wait")
    /\ UNCHANGED <<group, lock, truncated, interrupts>>

(* process.wait() that finds the leader's status reaps it.                 *)
ReapAnd(label) ==
    /\ group.leader = "exited"
    /\ group' = [group EXCEPT !.leader = "reaped"]
    /\ Goto(label)
    /\ UNCHANGED <<stream, lock, truncated, interrupts>>

WaitReturns == tool.pc = "wait" /\ ReapAnd("join")

WaitTimesOut ==
    /\ tool.pc = "wait" /\ group.leader = "running"
    /\ tool' = [tool EXCEPT !.pc = "poll", !.timedOut = TRUE]
    /\ UNCHANGED <<group, stream, lock, truncated, interrupts>>

(* _terminate_process_tree: a leader that is gone by now ends it, whatever *)
(* its descendants do.                                                     *)
PollFindsExit == tool.pc = "poll" /\ ReapAnd("join")

TermGroup ==
    /\ tool.pc = "poll" /\ group.leader = "running"
    /\ group' = [group EXCEPT !.signalled = TRUE]
    /\ Goto("grace")
    /\ UNCHANGED <<stream, lock, truncated, interrupts>>

GraceReturns == tool.pc = "grace" /\ ReapAnd("join")

(* Mutant of KillGroup: after the two seconds it only waits.               *)
KillNobody ==
    /\ tool.pc = "grace" /\ group.leader = "running"
    /\ Goto("reap")
    /\ UNCHANGED <<group, stream, lock, truncated, interrupts>>

KillGroup ==
    /\ tool.pc = "grace" /\ group.leader = "running"
    /\ group' = [group EXCEPT !.leader = "exited", !.code = 9,
                              !.child = IF @ = "running" THEN "gone" ELSE @]
    /\ Goto("reap")
    /\ UNCHANGED <<stream, lock, truncated, interrupts>>

ReapKilled == tool.pc = "reap" /\ ReapAnd("join")

(* The finally block: each reader is joined for five seconds at most.      *)
JoinReaders ==
    /\ tool.pc = "join"
    /\ \A s \in Streams : stream[s].reader = "done"
    /\ Goto("close stdout")
    /\ UNCHANGED <<group, stream, lock, truncated, interrupts>>

JoinTimesOut ==
    /\ tool.pc = "join"
    /\ \E s \in Streams : stream[s].reader # "done"
    /\ Goto("close stdout")
    /\ UNCHANGED <<group, stream, lock, truncated, interrupts>>

(* close() waits for the thread that is inside read() of the same stream;  *)
(* the reader's next read of a closed stream ends its thread.              *)
ClosePipe(s, label, next) ==
    /\ tool.pc = label
    /\ stream[s].reader # "read"
    /\ Goto(next)
    /\ UNCHANGED <<group, stream, lock, truncated, interrupts>>

CloseStdout == ClosePipe("stdout", "close stdout", "close stderr")
CloseStderr == ClosePipe("stderr", "close stderr", "closed")

ReadClosed(s) ==
    /\ stream[s].reader = "read"
    /\ \/ s = "stdout" /\ tool.pc \in {"close stderr", "closed"}
       \/ s = "stderr" /\ tool.pc = "closed"
    /\ stream' = [stream EXCEPT ![s].reader = "done"]
    /\ UNCHANGED <<tool, group, lock, truncated, interrupts>>

-----------------------------------------------------------------------------
(* What the callers make of the result.                                    *)

(* _execute refuses a timeout and a failure, and the handlers of convert   *)
(* and quantize a missing output; fingerprint() refuses a bad probe, and   *)
(* after the status call a head that is unknown or not the declared one;   *)
(* it only records the status call and the versions.                       *)
Failed == tool.timedOut \/ group.code # 0

MayRefuse(call) ==
    CASE call = "smoke" -> Failed
      [] call \in {"transform", "probe", "wrong head"} -> TRUE
      [] OTHER -> FALSE

MayAccept(call) ==
    CASE call \in {"transform", "smoke"} -> ~Failed
      [] call = "probe" -> ~Failed /\ ~truncated
      [] call = "wrong head" -> FALSE
      [] OTHER -> TRUE

(* Without a checkout, or without git, the head and status calls are left  *)
(* out.                                                                    *)
CallsAfter(call) ==
    CASE call = "probe" -> {Tail(tool.calls), <<"version">>}
      [] call = "head" -> {<<"wrong head">>} \union (IF Failed THEN {} ELSE {Tail(tool.calls)})
      [] OTHER -> {Tail(tool.calls)}

(* The buffers, the lock and the flag were the call's own and go with it;  *)
(* of a call that was good enough nobody asks any more what became of its  *)
(* processes.                                                              *)
CallReturns ==
    /\ tool.pc = "closed"
    /\ \/ tool.unwinding /\ tool' = End("interrupted") /\ UNCHANGED group
       \/ /\ ~tool.unwinding /\ MayRefuse(Head(tool.calls))
          /\ tool' = End("error") /\ UNCHANGED group
       \/ /\ ~tool.unwinding /\ MayAccept(Head(tool.calls))
          /\ \E calls \in CallsAfter(Head(tool.calls)) :
                tool' = [tool EXCEPT !.pc = "next", !.calls = calls, !.timedOut = FALSE]
          /\ group' = NoGroup
    /\ stream' = [s \in Streams |-> NoStream]
    /\ lock' = "free" /\ truncated' = FALSE
    /\ UNCHANGED interrupts

(* KeyboardInterrupt: in wait() it terminates the group first, in          *)
(* terminate it goes straight to the finally block, and outside of the try *)
(* or in the finally block it leaves _run_capped at once.  close() does    *)
(* not notice it.                                                          *)
ToolInterrupt ==
    /\ interrupts < MaxInterrupts
    /\ \/ /\ tool.pc = "wait"
          /\ tool' = [tool EXCEPT !.pc = "poll", !.unwinding = TRUE]
       \/ /\ tool.pc \in {"poll", "grace", "reap"}
          /\ tool' = [tool EXCEPT !.pc = "join", !.unwinding = TRUE]
       \/ /\ tool.pc \in {"copy", "next", "spawned", "join"}
          /\ tool' = End("interrupted")
    /\ interrupts' = interrupts + 1
    /\ UNCHANGED <<group, stream, lock, truncated>>

Caller ==
    \/ CopySource \/ Popen \/ PopenFails \/ RunReturns
    \/ StartReaders \/ WaitReturns \/ WaitTimesOut
    \/ PollFindsExit \/ TermGroup \/ GraceReturns \/ KillGroup \/ ReapKilled
    \/ JoinReaders \/ JoinTimesOut \/ CloseStdout \/ CloseStderr \/ CallReturns

Reader(s) == ReadChunk(s) \/ TakeLock(s) \/ KeepChunk(s) \/ ReadClosed(s)

ToolNext ==
    \/ \E kind \in NodeKinds : ToolStart(kind)
    \/ Caller
    \/ ToolInterrupt
    \/ LeaderExits \/ LeaderObeys \/ ChildExits
    \/ \E s \in Streams : Reader(s)

ToolSpec == ToolInit /\ [][ToolNext]_toolVars

(* Time passes and threads run.  No process of the tool need ever end.     *)
ToolFairness ==
    /\ WF_toolVars(Caller)
    /\ \A s \in Streams : WF_toolVars(Reader(s))

FairToolSpec == ToolSpec /\ ToolFairness

-----------------------------------------------------------------------------
ToolTypeOK ==
    /\ tool \in [pc : {"idle", "copy", "next", "spawned", "wait", "poll", "grace", "reap",
                       "join", "close stdout", "close stderr", "closed", "ended"},
                 calls : Seq({"transform", "smoke", "probe", "head", "status", "wrong head",
                              "version"}),
                 timedOut : BOOLEAN, unwinding : BOOLEAN,
                 outcome : {"none", "ok", "error", "interrupted"}]
    /\ group \in [leader : {"none", "running", "exited", "reaped"},
                  child : {"none", "running", "gone"},
                  holds : BOOLEAN,
                  code : {0, 1, 9, 15}, signalled : BOOLEAN]
    /\ stream \in [Streams -> [taken : Nat, kept : Nat,
                               reader : {"none", "read", "got", "locked", "done"},
                               chunk : Nat, room : Nat]]
    /\ lock \in Streams \union {"free"}
    /\ truncated \in BOOLEAN
    /\ interrupts \in Nat

(* "Drain both pipes while retaining at most cap bytes in total": what is  *)
(* kept is the start of what was read, up to the cap, and the flag is set  *)
(* if and only if something that was read has been thrown away, at every   *)
(* step of the two threads (llamacpp.py:161-170).                          *)
RetainedIsHonest ==
    LET InHand(s) == stream[s].chunk
        Read == stream["stdout"].taken + stream["stderr"].taken
                  - InHand("stdout") - InHand("stderr")
    IN /\ Kept = Least(Read, Cap)
       /\ truncated <=> Read > Cap

(* Every call ends with its leader reaped, also of a tool that never       *)
(* exits, ignores SIGTERM or leaves a descendant (llamacpp.py:179-193), but*)
(* for three cases.  A descendant that never ends keeps a pipe open, and   *)
(* close() waits for its reader for ever.  An interrupt leaves the call.   *)
(* And one that cuts _terminate_process_tree short leaves close() to wait  *)
(* for a leader that nobody kills.                                         *)
HeldOpen ==
    /\ tool.pc \in {"close stdout", "close stderr"} /\ group.leader # "running"
    /\ group.child = "running" /\ group.holds

LeaderAbandoned == tool.pc \in {"join", "close stdout"} /\ group.leader = "running"

ToolCallReturns ==
    []<>~HeldOpen =>
        (tool.pc = "spawned" ~> \/ tool.pc = "closed" /\ group.leader = "reaped"
                                \/ tool.outcome = "interrupted"
                                \/ LeaderAbandoned)

(* "All subprocesses use [...] a configured timeout [...]. Timeouts        *)
(* terminate the process group on POSIX so child processes do not outlive  *)
(* the failed node" (docs/ADAPTERS.md:32): a node of which a call has timed*)
(* out ends, and leaves no process of its tool.                            *)
TimeoutEndsNode == tool.timedOut ~> tool.pc = "ended" /\ group.child # "running"
=============================================================================
