--------------------------- MODULE BaselineLedger ---------------------------
(***************************************************************************)
(* The local baseline store (baseline.py): processes that run `baseline    *)
(* review', `accept', `check' and `verify' over one directory tree.        *)
(*                                                                         *)
(*   manifests/<digest>.json, reviews/<digest>.json   shared, write-once   *)
(*   ledgers/<channel>/decisions/<seq>-<digest>.json  a hash chain         *)
(*   ledgers/<channel>/current.json                   atomically replaced  *)
(*   locks/<channel>.lock                             flock, per channel   *)
(*                                                                         *)
(* One action is one file-system step, so that another process, an error   *)
(* (OSError or KeyboardInterrupt, after which the `finally' blocks run) or *)
(* a kill can fall between any two.  A manifest stands for its bytes and   *)
(* its SHA-256 name; receipts and decisions carry a microsecond timestamp, *)
(* so their digests are fresh: `issued' numbers them.                      *)
(***************************************************************************)
EXTENDS Naturals, FiniteSets

CONSTANTS
    Procs, Channels,
    Manifests,      \* the bytes of succeeded run manifests
    Projects,
    ProjectOf,      \* the `project' field of each manifest
    Paths,          \* where candidate manifests are kept
    InitialAt,      \* the manifest first found at each path
    ReceiptPaths,   \* the --review files
    Operations,     \* the commands that are run
    NoManifest, NoProc, NoJob,
    MaxOps,         \* bound: commands started
    MaxFaults,      \* bound: errors and kills
    MaxEdits        \* bound: changes of candidates and artifacts

ASSUME ConstantsAssumption ==
    /\ ProjectOf \in [Manifests -> Projects]
    /\ InitialAt \in [Paths -> Manifests]
    /\ Operations \subseteq {"review", "accept", "legacy", "check", "verify"}
    /\ NoManifest \notin Manifests
    /\ NoProc \notin Procs
    /\ NoJob \notin [kind : {"review", "accept", "legacy", "check", "verify"},
                     channel : Channels, path : Paths, receipt : ReceiptPaths]
    /\ {MaxOps, MaxFaults, MaxEdits} \subseteq Nat

(* A decision: id is its record digest and review its receipt's digest, 0  *)
(* for a v1 record.  Genesis is the absence of a decision (None).          *)
Decision == [id : Nat \ {0}, seq : Nat \ {0}, pred : Nat,
             manifest : Manifests, project : Projects, review : Nat]
Genesis == [id |-> 0, seq |-> 0, pred |-> 0,
            manifest |-> NoManifest, project |-> NoManifest, review |-> 0]

(* A receipt: pred is the predecessor decision (0: `initial'), `compared'  *)
(* the candidate bytes its comparison was computed from.                   *)
Receipt == [id : Nat \ {0}, channel : Channels, project : Projects,
            manifest : Manifests, pred : Nat, compared : Manifests]
NoReceipt == [id |-> 0]

Job == [kind : {"review", "accept", "legacy", "check", "verify"},
        channel : Channels, path : Paths, receipt : ReceiptPaths]

RecordKinds == {"manifest", "review", "decision", "pointer"}

VARIABLES
    candidate,  \* the manifest at each path
    live,       \* manifests whose artifacts' bytes match
    receipts,   \* the receipt at each --review path
    manifests,  \* manifests/
    reviews,    \* reviews/: [name, content]
    channelDir, \* "absent", "bare" (no decisions directory) or "ready"
    decisions,  \* ledgers/<channel>/decisions
    pointer,    \* current.json, Genesis when there is none
    debris,     \* temporary files of killed processes: [kind, channel]
    lock,       \* the holder of each channel's flock
    pc, job, mem,   \* each process: position, arguments, local variables
    outcome,    \* what its last command reported
    issued, started, faults, edits

storeVars == <<manifests, reviews, channelDir, decisions, pointer>>
ownerVars == <<candidate, live, edits>>
vars == <<candidate, live, receipts, manifests, reviews, channelDir, decisions,
          pointer, debris, lock, pc, job, mem, outcome, issued, started,
          faults, edits>>

Fresh == [before |-> NoManifest, parsed |-> NoManifest, listed |-> {},
          terminal |-> Genesis, bytes |-> NoReceipt, receipt |-> NoReceipt,
          writing |-> "manifest", draft |-> Genesis]

Init ==
    /\ candidate = InitialAt
    /\ live = Manifests
    /\ receipts = [r \in ReceiptPaths |-> NoReceipt]
    /\ manifests = {} /\ reviews = {}
    /\ channelDir = [c \in Channels |-> "absent"]
    /\ decisions = [c \in Channels |-> {}]
    /\ pointer = [c \in Channels |-> Genesis]
    /\ debris = {}
    /\ lock = [c \in Channels |-> NoProc]
    /\ pc = [p \in Procs |-> "idle"]
    /\ job = [p \in Procs |-> NoJob]
    /\ mem = [p \in Procs |-> Fresh]
    /\ outcome = [p \in Procs |-> "none"]
    /\ issued = 0 /\ started = 0 /\ faults = 0 /\ edits = 0

-----------------------------------------------------------------------------
(* What the verifier requires of what it finds on disk.                    *)

(* mkstemp's file exists until its unlink, or until os.replace renames it. *)
TempOf(p) ==
    IF pc[p] \in {"link", "unlink", "replace"}
    THEN {[kind |-> mem[p].writing, channel |-> job[p].channel]} ELSE {}

TempFiles == debris \union UNION {TempOf(p) : p \in Procs}

(* A listing of the directory of these records shows a name it must not.   *)
Foreign(kind, c) ==
    \E t \in TempFiles :
        t.kind = kind /\ (kind \in {"manifest", "review"} \/ t.channel = c)

(* Sequence numbers without gap or repetition, each on its predecessor.    *)
Chained(D) ==
    /\ \A d, e \in D : d.seq = e.seq => d = e
    /\ \A d \in D : \/ d.seq = 1 /\ d.pred = 0
                    \/ \E e \in D : d.seq = e.seq + 1 /\ d.pred = e.id

(* A decision agrees with the manifest and the receipt stored for it.      *)
Bound(c, d) ==
    /\ d.manifest \in manifests
    /\ d.project = ProjectOf[d.manifest]
    /\ d.review # 0 =>
         \E r \in reviews :
            /\ r.name = d.review
            /\ r.content.channel = c
            /\ r.content.project = d.project
            /\ r.content.manifest = d.manifest
            /\ r.content.pred = d.pred

(* d, which is Genesis for an empty ledger, is the last decision of D.     *)
Terminal(d, D) ==
    \/ D = {} /\ d = Genesis
    \/ d \in D /\ \A e \in D : e.seq <= d.seq

MisnamedReview == \E r \in reviews : r.name # r.content.id

-----------------------------------------------------------------------------
(* The exception, if any, that the step process p is at raises: "corrupt"  *)
(* is BaselineCorruptionError, "rejected" any other BaselineError.         *)

ExactRetry(m) ==
    /\ m.terminal.review = m.receipt.id
    /\ m.terminal.manifest = m.before

(* Mutants of Stale: the predecessor, the channel is not rechecked.        *)
StaleAnyPredecessor(c, m) ==
    \/ m.receipt.channel # c
    \/ m.receipt.project # ProjectOf[m.parsed]
    \/ m.receipt.manifest # m.before

StaleAnyChannel(c, m) ==
    \/ m.receipt.project # ProjectOf[m.parsed]
    \/ m.receipt.manifest # m.before
    \/ ~ExactRetry(m) /\ m.receipt.pred # m.terminal.id

(* The release is no longer the one that was reviewed.                     *)
Stale(c, m) ==
    \/ m.receipt.channel # c
    \/ m.receipt.project # ProjectOf[m.parsed]
    \/ m.receipt.manifest # m.before
    \/ ~ExactRetry(m) /\ m.receipt.pred # m.terminal.id

(* An orphan receipt names a predecessor that is not in this channel.      *)
Orphan(c, m) ==
    /\ m.receipt.pred # 0
    /\ \A d \in decisions[c] : d.id # m.receipt.pred

(* What compare_manifests reads: an initial comparison uses what was       *)
(* parsed, any other one reads the candidate's file once more.             *)
ComparedWith(pred, p) ==
    IF pred = 0 THEN mem[p].parsed ELSE candidate[job[p].path]

VerifyError(p, c, m) ==
    CASE pc[p] = "manifests" -> Foreign("manifest", c)
      [] pc[p] = "reviews"   -> Foreign("review", c) \/ MisnamedReview
      [] pc[p] = "channel"   -> Foreign("pointer", c)
      [] pc[p] = "decisions" -> \/ channelDir[c] # "ready"
                                \/ Foreign("decision", c)
                                \/ ~Chained(decisions[c])
                                \/ \E d \in decisions[c] : ~Bound(c, d)
      [] pc[p] = "pointer"   -> ~Terminal(pointer[c], m.listed)
      [] OTHER               -> FALSE

(* Mutant of AcceptError: a legacy accept of any project.                  *)
AcceptErrorAnyProject(p, c, m) ==
    CASE pc[p] = "load"    -> Stale(c, m)
      [] pc[p] = "compare" -> ComparedWith(m.receipt.pred, p) # m.receipt.compared
      [] pc[p] = "current" -> /\ job[p].kind = "accept"
                              /\ m.terminal.manifest = m.before
                              /\ m.terminal.review # m.receipt.id
      [] OTHER             -> FALSE

AcceptError(p, c, m) ==
    CASE pc[p] = "load"    -> Stale(c, m)
      [] pc[p] = "compare" -> ComparedWith(m.receipt.pred, p) # m.receipt.compared
      [] pc[p] = "legacy"  -> /\ m.terminal.seq > 0
                              /\ m.terminal.project # ProjectOf[m.parsed]
      [] pc[p] = "current" -> /\ job[p].kind = "accept"
                              /\ m.terminal.manifest = m.before
                              /\ m.terminal.review # m.receipt.id
      [] OTHER             -> FALSE

Rejected(p, c, m) ==
    CASE pc[p] = "artifacts" -> candidate[job[p].path] \notin live
      [] pc[p] = "reread"    -> candidate[job[p].path] # m.before
      [] pc[p] = "diff"      -> /\ m.terminal.seq > 0
                                /\ ProjectOf[m.terminal.manifest] # ProjectOf[m.parsed]
      [] pc[p] = "check"     -> \/ m.terminal.manifest # m.before
                                \/ m.terminal.review = 0
      [] OTHER               -> AcceptError(p, c, m)

Objection(p) ==
    LET c == job[p].channel
        m == mem[p]
    IN IF \/ VerifyError(p, c, m)
          \/ pc[p] = "bytes" /\ receipts[job[p].receipt] = NoReceipt
          \/ pc[p] = "load" /\ Orphan(c, m)
       THEN "corrupt"
       ELSE IF Rejected(p, c, m) THEN "rejected" ELSE "none"

-----------------------------------------------------------------------------
(* Control.                                                                *)

At(p, label) == pc[p] = label /\ Objection(p) = "none"

Goto(p, label) == pc' = [pc EXCEPT ![p] = label]

(* Mutant of Return: the flock is not released.                            *)
ReturnLocked(p, result) ==
    /\ Goto(p, "idle")
    /\ job' = [job EXCEPT ![p] = NoJob]
    /\ mem' = [mem EXCEPT ![p] = Fresh]
    /\ outcome' = [outcome EXCEPT ![p] = result]
    /\ UNCHANGED lock

(* The command ends: the lock's context manager releases the flock.        *)
Return(p, result) ==
    /\ Goto(p, "idle")
    /\ job' = [job EXCEPT ![p] = NoJob]
    /\ mem' = [mem EXCEPT ![p] = Fresh]
    /\ lock' = [c \in Channels |-> IF lock[c] = p THEN NoProc ELSE lock[c]]
    /\ outcome' = [outcome EXCEPT ![p] = result]

Start(p) ==
    /\ pc[p] = "idle" /\ started < MaxOps
    /\ \E j \in Job :
        /\ j.kind \in Operations
        /\ job' = [job EXCEPT ![p] = j]
        /\ Goto(p, IF j.kind = "verify" THEN "manifests" ELSE "lock")
    /\ started' = started + 1
    /\ outcome' = [outcome EXCEPT ![p] = "none"]
    /\ UNCHANGED <<ownerVars, storeVars, receipts, debris, lock, mem, issued, faults>>

(* Mutant of AcquireLock: a shared lock.                                   *)
AcquireLockShared(p) ==
    /\ At(p, "lock")
    /\ lock' = [lock EXCEPT ![job[p].channel] = p]
    /\ Goto(p, "before")
    /\ UNCHANGED <<ownerVars, storeVars, receipts, debris, job, mem, outcome, issued,
                   started, faults>>

AcquireLock(p) ==
    /\ At(p, "lock")
    /\ lock[job[p].channel] = NoProc
    /\ lock' = [lock EXCEPT ![job[p].channel] = p]
    /\ Goto(p, "before")
    /\ UNCHANGED <<ownerVars, storeVars, receipts, debris, job, mem, outcome, issued,
                   started, faults>>

(* What every step of a command that goes on leaves alone.                 *)
Quiet == UNCHANGED <<ownerVars, debris, lock, job, outcome, started, faults>>

Remember(p, m) == mem' = [mem EXCEPT ![p] = m]

Refuse(p) ==
    /\ pc[p] # "idle" /\ Objection(p) # "none"
    /\ Return(p, Objection(p))
    /\ UNCHANGED <<ownerVars, storeVars, receipts, debris, issued, started, faults>>

(* _load_and_live_verify_candidate reads the candidate four times: its     *)
(* bytes, its parsed form, the manifest whose artifacts are hashed, and    *)
(* its bytes again.                                                        *)
ReadCandidate(p) ==
    /\ At(p, "before") /\ Goto(p, "parse")
    /\ Remember(p, [mem[p] EXCEPT !.before = candidate[job[p].path]])
    /\ Quiet /\ UNCHANGED <<storeVars, receipts, issued>>

ParseCandidate(p) ==
    /\ At(p, "parse") /\ Goto(p, "artifacts")
    /\ Remember(p, [mem[p] EXCEPT !.parsed = candidate[job[p].path]])
    /\ Quiet /\ UNCHANGED <<storeVars, receipts, issued>>

(* Objection has verified the artifacts, then compared the bytes.          *)
VerifyArtifacts(p) ==
    /\ At(p, "artifacts") /\ Goto(p, "reread")
    /\ Quiet /\ UNCHANGED <<storeVars, receipts, mem, issued>>

RereadCandidate(p) ==
    /\ At(p, "reread") /\ Goto(p, "manifests")
    /\ Quiet /\ UNCHANGED <<storeVars, receipts, mem, issued>>

-----------------------------------------------------------------------------
(* _verify_ledger_at, under the lock or, in verify_ledger and              *)
(* load_current_baseline, without it.                                      *)

ScanManifests(p) ==
    /\ At(p, "manifests") /\ Goto(p, "reviews")
    /\ Quiet /\ UNCHANGED <<storeVars, receipts, mem, issued>>

ScanReviews(p) ==
    /\ At(p, "reviews") /\ Goto(p, "channel")
    /\ Quiet /\ UNCHANGED <<storeVars, receipts, mem, issued>>

(* Where the command goes on with the ledger it has verified.              *)
AfterVerify(p) ==
    IF mem[p].draft # Genesis THEN "done"
    ELSE CASE job[p].kind = "review" -> "diff"
           [] job[p].kind = "accept" -> "bytes"
           [] job[p].kind = "legacy" -> "legacy"
           [] job[p].kind = "check"  -> "check"
           [] job[p].kind = "verify" -> "report"

FindNoChannel(p) ==
    /\ At(p, "channel") /\ channelDir[job[p].channel] = "absent"
    /\ Goto(p, AfterVerify(p))
    /\ Remember(p, [mem[p] EXCEPT !.terminal = Genesis])
    /\ Quiet /\ UNCHANGED <<storeVars, receipts, issued>>

FindChannel(p) ==
    /\ At(p, "channel") /\ channelDir[job[p].channel] # "absent"
    /\ Goto(p, "decisions")
    /\ Quiet /\ UNCHANGED <<storeVars, receipts, mem, issued>>

ReadDecisions(p) ==
    /\ At(p, "decisions") /\ Goto(p, "pointer")
    /\ Remember(p, [mem[p] EXCEPT !.listed = decisions[job[p].channel]])
    /\ Quiet /\ UNCHANGED <<storeVars, receipts, issued>>

ReadPointer(p) ==
    /\ At(p, "pointer") /\ Goto(p, AfterVerify(p))
    /\ Remember(p, [mem[p] EXCEPT !.terminal = pointer[job[p].channel], !.listed = {}])
    /\ Quiet /\ UNCHANGED <<storeVars, receipts, issued>>

(* The commands' answers: `accept' has just verified its own decision.     *)
Answer(p, label, result) ==
    /\ At(p, label) /\ Return(p, result)
    /\ UNCHANGED <<ownerVars, storeVars, receipts, debris, issued, started, faults>>

ReportVerified(p) == Answer(p, "report", "verified")
ReportChecked(p)  == Answer(p, "check", "checked")
ReportAccepted(p) == Answer(p, "done", "accepted")

-----------------------------------------------------------------------------
(* review_baseline.  --initial is taken as given exactly for an empty      *)
(* channel: the code rejects any other use of it.                          *)

DraftReceipt(p) ==
    LET c == job[p].channel
        m == mem[p]
    IN /\ At(p, "diff") /\ Goto(p, "receipt")
       /\ Remember(p, [m EXCEPT !.receipt =
              [id |-> issued + 1, channel |-> c, project |-> ProjectOf[m.parsed],
               manifest |-> m.before, pred |-> m.terminal.id,
               compared |-> ComparedWith(m.terminal.id, p)]])
       /\ issued' = issued + 1
       /\ Quiet /\ UNCHANGED <<storeVars, receipts>>

(* _write_private_atomic replaces whatever the review path held.           *)
WriteReceipt(p) ==
    /\ At(p, "receipt")
    /\ receipts' = [receipts EXCEPT ![job[p].receipt] = mem[p].receipt]
    /\ Return(p, "reviewed")
    /\ UNCHANGED <<ownerVars, storeVars, debris, issued, started, faults>>

-----------------------------------------------------------------------------
(* accept_baseline after its first verification of the ledger.             *)

(* Two reads of the receipt: its bytes, to store, and its fields, to check.*)
ReadReceiptBytes(p) ==
    /\ At(p, "bytes") /\ Goto(p, "reload")
    /\ Remember(p, [mem[p] EXCEPT !.bytes = receipts[job[p].receipt]])
    /\ Quiet /\ UNCHANGED <<storeVars, receipts, issued>>

LoadReceipt(p) ==
    /\ At(p, "reload") /\ Goto(p, "load")
    /\ Remember(p, [mem[p] EXCEPT !.receipt = receipts[job[p].receipt]])
    /\ Quiet /\ UNCHANGED <<storeVars, receipts, issued>>

CheckReceipt(p) ==
    /\ At(p, "load") /\ Goto(p, "compare")
    /\ Quiet /\ UNCHANGED <<storeVars, receipts, mem, issued>>

(* Both ways lead to the manifest's record.                                *)
RecheckRelease(p) ==
    /\ At(p, "compare") \/ At(p, "legacy")
    /\ Goto(p, "publish")
    /\ Remember(p, [mem[p] EXCEPT !.writing = "manifest"])
    /\ Quiet /\ UNCHANGED <<storeVars, receipts, issued>>

(* _write_immutable: what the name to be written already holds.            *)
Existing(p) ==
    CASE mem[p].writing = "manifest" -> manifests \intersect {mem[p].before}
      [] mem[p].writing = "review" ->
            {r.content : r \in {s \in reviews : s.name = mem[p].receipt.id}}
      [] OTHER -> {}

Content(p) == IF mem[p].writing = "manifest" THEN mem[p].before ELSE mem[p].bytes

AfterRecord(p) ==
    CASE mem[p].writing = "manifest" -> "current"
      [] mem[p].writing = "review"   -> "decide"
      [] mem[p].writing = "decision" -> "publish"

(* The record is stored already: nothing is written.                       *)
KeepRecord(p) ==
    /\ At(p, "publish") /\ Existing(p) = {Content(p)}
    /\ Goto(p, AfterRecord(p))
    /\ Quiet /\ UNCHANGED <<storeVars, receipts, mem, issued>>

CreateTemp(p) ==
    /\ At(p, "publish") /\ Existing(p) = {}
    /\ Goto(p, IF mem[p].writing = "pointer" THEN "replace" ELSE "link")
    /\ Quiet /\ UNCHANGED <<storeVars, receipts, mem, issued>>

(* os.link never overwrites: a record another process has put under the    *)
(* name meanwhile stays.                                                   *)
Link(p, kind) ==
    /\ At(p, "link") /\ mem[p].writing = kind /\ Goto(p, "unlink")
    /\ Quiet /\ UNCHANGED <<receipts, mem, issued, channelDir, pointer>>

LinkManifest(p) ==
    /\ Link(p, "manifest")
    /\ manifests' = manifests \union {mem[p].before}
    /\ UNCHANGED <<reviews, decisions>>

LinkReview(p) ==
    /\ Link(p, "review") /\ Existing(p) = {}
    /\ reviews' = reviews \union {[name |-> mem[p].receipt.id, content |-> mem[p].bytes]}
    /\ UNCHANGED <<manifests, decisions>>

LinkDecision(p) ==
    /\ Link(p, "decision")
    /\ decisions' = [decisions EXCEPT ![job[p].channel] = @ \union {mem[p].draft}]
    /\ UNCHANGED <<manifests, reviews>>

(* Mutant of UnlinkTemp: current.json is left as it was.                   *)
UnlinkTempNoPointer(p) ==
    /\ At(p, "unlink")
    /\ Goto(p, IF mem[p].writing = "decision" THEN "manifests" ELSE AfterRecord(p))
    /\ Quiet /\ UNCHANGED <<storeVars, receipts, mem, issued>>

UnlinkTemp(p) ==
    /\ At(p, "unlink") /\ Goto(p, AfterRecord(p))
    /\ Remember(p, [mem[p] EXCEPT !.writing = IF @ = "decision" THEN "pointer" ELSE @])
    /\ Quiet /\ UNCHANGED <<storeVars, receipts, issued>>

(* The current decision accepts this manifest already: idempotent return.  *)
ReportUnchanged(p) ==
    /\ mem[p].terminal.manifest = mem[p].before
    /\ Answer(p, "current", "unchanged")

(* ledgers/<channel>, then its decisions directory.                        *)
MakeChannel(p) ==
    /\ At(p, "current") /\ mem[p].terminal.manifest # mem[p].before
    /\ channelDir[job[p].channel] = "absent"
    /\ channelDir' = [channelDir EXCEPT ![job[p].channel] = "bare"]
    /\ Goto(p, "mkdir")
    /\ Quiet /\ UNCHANGED <<manifests, reviews, decisions, pointer, receipts, mem, issued>>

MakeDecisions(p) ==
    /\ At(p, "mkdir")
    /\ channelDir' = [channelDir EXCEPT ![job[p].channel] = "ready"]
    /\ Goto(p, "consume")
    /\ Quiet /\ UNCHANGED <<manifests, reviews, decisions, pointer, receipts, mem, issued>>

(* Mutant of HaveChannel: a retry is not told from a new release.          *)
HaveChannelAlways(p) ==
    /\ At(p, "current") /\ channelDir[job[p].channel] # "absent"
    /\ Goto(p, "consume")
    /\ Quiet /\ UNCHANGED <<storeVars, receipts, mem, issued>>

HaveChannel(p) ==
    /\ At(p, "current") /\ mem[p].terminal.manifest # mem[p].before
    /\ channelDir[job[p].channel] # "absent"
    /\ Goto(p, "consume")
    /\ Quiet /\ UNCHANGED <<storeVars, receipts, mem, issued>>

StoreReview(p) ==
    /\ At(p, "consume") /\ job[p].kind = "accept"
    /\ Goto(p, "publish")
    /\ Remember(p, [mem[p] EXCEPT !.writing = "review"])
    /\ Quiet /\ UNCHANGED <<storeVars, receipts, issued>>

(* Mutant of NewDecision: the sequence starts at zero.                     *)
NewDecisionFromZero(p) ==
    [id |-> issued + 1, seq |-> mem[p].terminal.seq, pred |-> mem[p].terminal.id,
     manifest |-> mem[p].before, project |-> ProjectOf[mem[p].parsed],
     review |-> IF job[p].kind = "accept" THEN mem[p].receipt.id ELSE 0]

NewDecision(p) ==
    [id |-> issued + 1, seq |-> mem[p].terminal.seq + 1, pred |-> mem[p].terminal.id,
     manifest |-> mem[p].before, project |-> ProjectOf[mem[p].parsed],
     review |-> IF job[p].kind = "accept" THEN mem[p].receipt.id ELSE 0]

DraftDecision(p) ==
    /\ \/ At(p, "decide")
       \/ At(p, "consume") /\ job[p].kind = "legacy"
    /\ Goto(p, "publish")
    /\ Remember(p, [mem[p] EXCEPT !.writing = "decision", !.draft = NewDecision(p)])
    /\ issued' = issued + 1
    /\ Quiet /\ UNCHANGED <<storeVars, receipts>>

(* os.replace of current.json, before the last verification.               *)
ReplacePointer(p) ==
    /\ At(p, "replace") /\ Goto(p, "manifests")
    /\ pointer' = [pointer EXCEPT ![job[p].channel] = mem[p].draft]
    /\ Quiet /\ UNCHANGED <<manifests, reviews, channelDir, decisions, receipts, mem, issued>>

-----------------------------------------------------------------------------
(* Errors, kills and the owner's own work on candidates and artifacts.     *)

(* An OSError or a KeyboardInterrupt: `finally' removes the temporary file.*)
Fail(p) ==
    /\ pc[p] # "idle" /\ faults < MaxFaults
    /\ Return(p, "failed")
    /\ faults' = faults + 1
    /\ UNCHANGED <<ownerVars, storeVars, receipts, debris, issued, started>>

(* A kill: the kernel drops the flock, the temporary file stays.           *)
Crash(p) ==
    /\ pc[p] # "idle" /\ faults < MaxFaults
    /\ Return(p, "crashed")
    /\ debris' = debris \union TempOf(p)
    /\ faults' = faults + 1
    /\ UNCHANGED <<ownerVars, storeVars, receipts, issued, started>>

(* A new run rewrites a candidate; an artifact is changed or restored.     *)
Rebuild ==
    /\ edits < MaxEdits
    /\ \E w \in Paths, m \in Manifests :
          m # candidate[w] /\ candidate' = [candidate EXCEPT ![w] = m]
    /\ edits' = edits + 1
    /\ UNCHANGED <<live, storeVars, receipts, debris, lock, pc, job, mem,
                   outcome, issued, started, faults>>

ChangeArtifact ==
    /\ edits < MaxEdits
    /\ \E m \in Manifests : live' = (live \ {m}) \union ({m} \ live)
    /\ edits' = edits + 1
    /\ UNCHANGED <<candidate, storeVars, receipts, debris, lock, pc, job, mem,
                   outcome, issued, started, faults>>

(* Every command has ended.                                                *)
AllIdle ==
    /\ \A p \in Procs : pc[p] = "idle"
    /\ UNCHANGED vars

Step(p) ==
    \/ AcquireLock(p) \/ Refuse(p)
    \/ ReadCandidate(p) \/ ParseCandidate(p) \/ VerifyArtifacts(p) \/ RereadCandidate(p)
    \/ ScanManifests(p) \/ ScanReviews(p) \/ FindNoChannel(p) \/ FindChannel(p)
    \/ ReadDecisions(p) \/ ReadPointer(p)
    \/ ReportVerified(p) \/ ReportChecked(p) \/ ReportAccepted(p) \/ ReportUnchanged(p)
    \/ DraftReceipt(p) \/ WriteReceipt(p)
    \/ ReadReceiptBytes(p) \/ LoadReceipt(p) \/ CheckReceipt(p) \/ RecheckRelease(p)
    \/ KeepRecord(p) \/ CreateTemp(p) \/ LinkManifest(p) \/ LinkReview(p)
    \/ LinkDecision(p) \/ UnlinkTemp(p)
    \/ MakeChannel(p) \/ MakeDecisions(p) \/ HaveChannel(p) \/ StoreReview(p)
    \/ DraftDecision(p) \/ ReplacePointer(p)

Next ==
    \/ \E p \in Procs : Start(p) \/ Step(p) \/ Fail(p) \/ Crash(p)
    \/ Rebuild \/ ChangeArtifact
    \/ AllIdle

Spec == Init /\ [][Next]_vars

(* A running command is scheduled; nothing makes one start, fail or die.   *)
FairSpec == Spec /\ \A p \in Procs : WF_vars(Step(p))

-----------------------------------------------------------------------------
(* Types.                                                                  *)
Labels == {"idle", "lock", "before", "parse", "artifacts", "reread", "manifests",
           "reviews", "channel", "decisions", "pointer", "report", "check", "done",
           "diff", "receipt", "bytes", "reload", "load", "compare", "legacy",
           "publish", "link", "unlink", "current", "mkdir", "consume", "decide",
           "replace"}

Memory == [before : Manifests \union {NoManifest}, parsed : Manifests \union {NoManifest},
           listed : SUBSET Decision, terminal : Decision \union {Genesis},
           bytes : Receipt \union {NoReceipt}, receipt : Receipt \union {NoReceipt},
           writing : RecordKinds, draft : Decision \union {Genesis}]

Outcomes == {"none", "corrupt", "rejected", "verified", "checked", "accepted",
             "unchanged", "reviewed", "failed", "crashed"}

(* Every variable keeps its type: what the store's directories and the     *)
(* processes' local variables can hold.                                    *)
TypeOK ==
    /\ candidate \in [Paths -> Manifests]
    /\ live \subseteq Manifests
    /\ receipts \in [ReceiptPaths -> Receipt \union {NoReceipt}]
    /\ manifests \subseteq Manifests
    /\ reviews \subseteq [name : Nat, content : Receipt]
    /\ channelDir \in [Channels -> {"absent", "bare", "ready"}]
    /\ decisions \in [Channels -> SUBSET Decision]
    /\ pointer \in [Channels -> Decision \union {Genesis}]
    /\ debris \subseteq [kind : RecordKinds, channel : Channels]
    /\ lock \in [Channels -> Procs \union {NoProc}]
    /\ pc \in [Procs -> Labels]
    /\ job \in [Procs -> Job \union {NoJob}]
    /\ mem \in [Procs -> Memory]
    /\ outcome \in [Procs -> Outcomes]
    /\ issued \in Nat /\ started \in 0..MaxOps
    /\ faults \in 0..MaxFaults /\ edits \in 0..MaxEdits

-----------------------------------------------------------------------------
(* Safety.                                                                 *)

(* The decisions of every channel are one hash chain without gap, fork or  *)
(* repetition, whatever crashes and interleavings of accept_baseline.      *)
ChannelsChained == \A c \in Channels : Chained(decisions[c])

(* Compare-and-swap: a reviewed decision is recorded on top of the very    *)
(* decision its reviewer compared the candidate with, for the bytes he     *)
(* reviewed, and its receipt is stored before it.                          *)
DecisionsBound == \A c \in Channels : \A d \in decisions[c] : Bound(c, d)

(* A receipt is consumed by one decision at most, in whatever channel, by  *)
(* however many racing or retried accepts.                                 *)
ReceiptConsumedOnce ==
    \A c1, c2 \in Channels : \A d1 \in decisions[c1], d2 \in decisions[c2] :
        d1.review # 0 /\ d1.review = d2.review => c1 = c2 /\ d1 = d2

(* Every stored review has the name of its own digest, though accept reads *)
(* the receipt twice, its bytes to store and its fields to name them, and  *)
(* a review in another channel may replace the file between the two.       *)
ReviewsNamedByContent == ~MisnamedReview

(* All decisions of a channel are for one project, though the project is   *)
(* compared with the current decision only by review and legacy accept.    *)
ChannelKeepsProject ==
    \A c \in Channels : \A d, e \in decisions[c] : d.project = e.project

(* A success of accept or check is true when it is reported: the manifest  *)
(* whose artifacts were verified is what current.json designates then, and *)
(* for a check it was reviewed.                                            *)
AnswersHold ==
    [][\A p \in Procs :
          outcome'[p] \in {"accepted", "unchanged", "checked"} /\ pc[p] # "idle" =>
             LET c == job[p].channel
             IN /\ pointer[c].manifest = mem[p].before
                /\ Terminal(pointer[c], decisions[c])
                /\ outcome'[p] = "checked" => pointer[c].review # 0]_vars

(* What a verifier of the whole store would find of channel c.             *)
Verifies(c) ==
    /\ debris = {} /\ ~MisnamedReview
    /\ Chained(decisions[c]) /\ \A d \in decisions[c] : Bound(c, d)
    /\ channelDir[c] # "bare"
    /\ Terminal(pointer[c], decisions[c])

(* As long as no command is killed or fails, a channel nobody holds the    *)
(* lock of verifies: every rejection and early return leaves it whole.     *)
UnlockedChannelVerifies ==
    faults = 0 => \A c \in Channels : lock[c] = NoProc => Verifies(c)

(* Commands that take the lock of the only channel of a store never report *)
(* corruption of it while nothing fails.                                   *)
NoFalseAlarm ==
    [][\A p \in Procs :
          /\ faults = 0
          /\ pc[p] \in {"manifests", "reviews", "channel", "decisions", "pointer"}
          => outcome'[p] # "corrupt"]_vars

(* Every command ends: nobody waits for the flock for ever, even when its  *)
(* holder fails or is killed.                                              *)
CommandsEnd == \A p \in Procs : pc[p] # "idle" ~> pc[p] = "idle"

-----------------------------------------------------------------------------
(* What the documentation says, and the code does not do.                  *)

(* docs/BASELINES.md: current.json `always identifies the terminal         *)
(* verified decision'.  Stated for the moments when no command runs.       *)
PointerIdentifiesTerminal ==
    (\A p \in Procs : pc[p] = "idle") =>
        \A c \in Channels : Terminal(pointer[c], decisions[c])

-----------------------------------------------------------------------------
(* The store implements the abstract history of accepted releases.         *)

DecisionAt(c, n) == CHOOSE d \in decisions[c] : d.seq = n

ReceiptOf(d) == (CHOOSE r \in reviews : r.name = d.review).content

(* The manifest of the decision with this digest in channel c.             *)
ManifestOf(c, id) ==
    IF id = 0 THEN NoManifest
    ELSE (CHOOSE d \in decisions[c] : d.id = id).manifest

ReleaseOf(c, d) ==
    [manifest |-> d.manifest,
     reviewed |-> d.review # 0,
     base     |-> ManifestOf(c, IF d.review = 0 THEN d.pred ELSE ReceiptOf(d).pred)]

Accepted == INSTANCE AcceptedHistory WITH
    history <- [c \in Channels |->
                   [n \in 1..Cardinality(decisions[c]) |-> ReleaseOf(c, DecisionAt(c, n))]],
    current <- [c \in Channels |-> pointer[c].seq]

AcceptedSpec == Accepted!Spec
=============================================================================
