------------------------ MODULE BaselineLedgerProofs ------------------------
(***************************************************************************)
(* Proofs about BaselineLedger for any number of processes, channels,      *)
(* manifests, paths, commands and faults.                                  *)
(***************************************************************************)
EXTENDS BaselineLedger, Sequences, FiniteSetTheorems, TLAPS

(* Where a command is in accept_baseline with its receipt loaded.          *)
Loaded == {"load", "compare", "publish", "link", "unlink", "current", "mkdir",
           "consume", "decide"}

Writing == {"publish", "link", "unlink", "replace"}

(* What a command's local variables hold once it is past the step that     *)
(* sets them.                                                              *)
LocalsSet(p) ==
    /\ pc[p] = "idle" => mem[p] = Fresh
    /\ pc[p] # "idle" => job[p] \in Job
    /\ pc[p] \notin {"idle", "manifests", "reviews", "channel", "decisions", "pointer", "report"}
         => job[p].kind # "verify"
    /\ pc[p] \notin {"idle", "lock", "before"} /\ job[p].kind # "verify"
         => mem[p].before \in Manifests
    /\ pc[p] \notin {"idle", "lock", "before", "parse"} /\ job[p].kind # "verify"
         => mem[p].parsed \in Manifests
    /\ pc[p] = "receipt" => mem[p].receipt \in Receipt
    /\ pc[p] = "reload" => mem[p].bytes \in Receipt /\ receipts[job[p].receipt] \in Receipt
    /\ pc[p] \in {"bytes", "reload", "load"} => job[p].kind = "accept"
    /\ pc[p] \in Loaded /\ job[p].kind = "accept" =>
         mem[p].bytes \in Receipt /\ mem[p].receipt \in Receipt
    /\ pc[p] = "compare" => job[p].kind = "accept"
    /\ pc[p] = "legacy" => job[p].kind = "legacy"
    /\ job[p].kind = "verify" => mem[p].draft = Genesis
    /\ pc[p] \in {"link", "unlink"} => mem[p].writing # "pointer"
    /\ pc[p] \in Writing /\ mem[p].writing = "review" => job[p].kind = "accept"
    /\ pc[p] \in Writing /\ mem[p].writing \in {"decision", "pointer"}
         => mem[p].draft \in Decision

TypeInv == TypeOK /\ \A p \in Procs : LocalsSet(p)

-----------------------------------------------------------------------------
LEMMA InitialTypes == Init => TypeInv
BY ConstantsAssumption
   DEF Init, TypeInv, TypeOK, LocalsSet, Memory, Fresh, Labels, RecordKinds,
       Outcomes, Loaded, Writing

(* What a step of p leaves of the other processes.                         *)
Others(p) ==
    \A q \in Procs \ {p} : pc'[q] = pc[q] /\ job'[q] = job[q] /\ mem'[q] = mem[q]

(* Receipts are replaced, never removed.                                   *)
ReceiptsStay ==
    \A r \in ReceiptPaths : receipts[r] \in Receipt => receipts'[r] \in Receipt

LEMMA OthersKeepLocals ==
    ASSUME TypeInv, NEW p \in Procs, Others(p), ReceiptsStay, TypeOK', LocalsSet(p)'
    PROVE  TypeInv'
<1>1. ASSUME NEW q \in Procs PROVE LocalsSet(q)'
  <2>1. CASE q = p
    BY <2>1
  <2>2. CASE q # p
    <3>1. pc'[q] = pc[q] /\ job'[q] = job[q] /\ mem'[q] = mem[q]
      BY <2>2 DEF Others
    <3>2. LocalsSet(q)
      BY DEF TypeInv
    <3>3. pc[q] = "reload" => job[q] \in Job /\ receipts'[job[q].receipt] \in Receipt
      BY <3>2 DEF LocalsSet, ReceiptsStay, Job
    <3> QED
      BY <3>1, <3>2, <3>3 DEF LocalsSet
  <2> QED
    BY <2>1, <2>2
<1> QED
  BY <1>1 DEF TypeInv

(* A command that ends leaves well-typed local variables and locks.        *)
LEMMA ReturnTypes ==
    ASSUME TypeInv, NEW p \in Procs, NEW result \in Outcomes, Return(p, result)
    PROVE  /\ pc' \in [Procs -> Labels]
           /\ job' \in [Procs -> Job \union {NoJob}]
           /\ mem' \in [Procs -> Memory]
           /\ lock' \in [Channels -> Procs \union {NoProc}]
           /\ outcome' \in [Procs -> Outcomes]
           /\ LocalsSet(p)'
           /\ Others(p)
<1>1. /\ pc' \in [Procs -> Labels]
      /\ job' \in [Procs -> Job \union {NoJob}]
      /\ mem' \in [Procs -> Memory]
      /\ lock' \in [Channels -> Procs \union {NoProc}]
      /\ Others(p)
      /\ outcome' \in [Procs -> Outcomes]
      /\ pc'[p] = "idle" /\ mem'[p] = Fresh
  BY DEF TypeInv, TypeOK, Return, Goto, Fresh, Memory, Labels, RecordKinds, Others
<1> QED
  BY <1>1 DEF LocalsSet, Loaded, Writing, Fresh

(* A command that goes on changes its own position and local variables.    *)
LEMMA UpdateTypes ==
    ASSUME TypeInv, NEW p \in Procs, NEW label \in Labels, NEW m \in Memory,
           Goto(p, label), Remember(p, m), UNCHANGED job
    PROVE  /\ pc' \in [Procs -> Labels]
           /\ mem' \in [Procs -> Memory]
           /\ pc'[p] = label
           /\ mem'[p] = m
           /\ Others(p)
BY DEF TypeInv, TypeOK, Goto, Remember, Others

LEMMA MoveTypes ==
    ASSUME TypeInv, NEW p \in Procs, NEW label \in Labels, Goto(p, label),
           UNCHANGED <<job, mem>>
    PROVE  /\ pc' \in [Procs -> Labels]
           /\ pc'[p] = label
           /\ Others(p)
BY DEF TypeInv, TypeOK, Goto, Others

LEMMA ObjectionTypes ==
    ASSUME NEW p PROVE Objection(p) \in {"none", "corrupt", "rejected"}
BY DEF Objection

(* Where a verified ledger, and a stored record, lead.                     *)
LEMMA AfterVerifyLabels ==
    ASSUME NEW p, job[p] \in Job, job[p].kind = "verify" => mem[p].draft = Genesis
    PROVE  /\ AfterVerify(p) \in {"diff", "check", "report", "done", "bytes", "legacy"}
           /\ AfterVerify(p) = "bytes" => job[p].kind = "accept"
           /\ AfterVerify(p) = "legacy" => job[p].kind = "legacy"
           /\ AfterVerify(p) # "report" <=> job[p].kind # "verify"
BY DEF AfterVerify, Job

LEMMA AfterRecordLabels ==
    ASSUME NEW p, mem[p].writing \in {"manifest", "review", "decision"}
    PROVE  AfterRecord(p) = IF mem[p].writing = "manifest" THEN "current"
                            ELSE IF mem[p].writing = "review" THEN "decide" ELSE "publish"
BY DEF AfterRecord

LEMMA OwnMemory ==
    ASSUME TypeInv, NEW p \in Procs
    PROVE  mem[p] \in Memory /\ LocalsSet(p) /\ pc[p] \in Labels /\ job[p] \in Job \union {NoJob}
BY DEF TypeInv, TypeOK

LEMMA StepTypes ==
    ASSUME TypeInv, NEW p \in Procs, Step(p)
    PROVE  TypeInv'
<1> USE DEF At, Quiet, ownerVars, storeVars
<1>0. mem[p] \in Memory /\ LocalsSet(p) /\ TypeOK
  BY OwnMemory DEF TypeInv
<1>1. CASE AcquireLock(p)
  <2>1. Goto(p, "before") /\ UNCHANGED <<job, mem>> /\ "before" \in Labels
    BY <1>1 DEF AcquireLock, Labels
  <2>2. pc' \in [Procs -> Labels] /\ pc'[p] = "before" /\ Others(p)
    BY <2>1, MoveTypes
  <2>3. TypeOK'
    BY <1>1, <1>0, <2>1, <2>2 DEF AcquireLock, TypeOK, LocalsSet
  <2>4. LocalsSet(p)'
    BY <1>1, <1>0, <2>1, <2>2 DEF AcquireLock, LocalsSet, Loaded, Writing
  <2> QED
    BY <1>1, <2>2, <2>3, <2>4, OthersKeepLocals DEF AcquireLock, ReceiptsStay
<1>2. CASE VerifyArtifacts(p)
  <2>1. Goto(p, "reread") /\ UNCHANGED <<job, mem>> /\ "reread" \in Labels
    BY <1>2 DEF VerifyArtifacts, Labels
  <2>2. pc' \in [Procs -> Labels] /\ pc'[p] = "reread" /\ Others(p)
    BY <2>1, MoveTypes
  <2>3. TypeOK'
    BY <1>2, <1>0, <2>1, <2>2 DEF VerifyArtifacts, TypeOK, LocalsSet
  <2>4. LocalsSet(p)'
    BY <1>2, <1>0, <2>1, <2>2 DEF VerifyArtifacts, LocalsSet, Loaded, Writing
  <2> QED
    BY <1>2, <2>2, <2>3, <2>4, OthersKeepLocals DEF VerifyArtifacts, ReceiptsStay
<1>3. CASE RereadCandidate(p)
  <2>1. Goto(p, "manifests") /\ UNCHANGED <<job, mem>> /\ "manifests" \in Labels
    BY <1>3 DEF RereadCandidate, Labels
  <2>2. pc' \in [Procs -> Labels] /\ pc'[p] = "manifests" /\ Others(p)
    BY <2>1, MoveTypes
  <2>3. TypeOK'
    BY <1>3, <1>0, <2>1, <2>2 DEF RereadCandidate, TypeOK, LocalsSet
  <2>4. LocalsSet(p)'
    BY <1>3, <1>0, <2>1, <2>2 DEF RereadCandidate, LocalsSet, Loaded, Writing
  <2> QED
    BY <1>3, <2>2, <2>3, <2>4, OthersKeepLocals DEF RereadCandidate, ReceiptsStay
<1>4. CASE ScanManifests(p)
  <2>1. Goto(p, "reviews") /\ UNCHANGED <<job, mem>> /\ "reviews" \in Labels
    BY <1>4 DEF ScanManifests, Labels
  <2>2. pc' \in [Procs -> Labels] /\ pc'[p] = "reviews" /\ Others(p)
    BY <2>1, MoveTypes
  <2>3. TypeOK'
    BY <1>4, <1>0, <2>1, <2>2 DEF ScanManifests, TypeOK, LocalsSet
  <2>4. LocalsSet(p)'
    BY <1>4, <1>0, <2>1, <2>2 DEF ScanManifests, LocalsSet, Loaded, Writing
  <2> QED
    BY <1>4, <2>2, <2>3, <2>4, OthersKeepLocals DEF ScanManifests, ReceiptsStay
<1>5. CASE ScanReviews(p)
  <2>1. Goto(p, "channel") /\ UNCHANGED <<job, mem>> /\ "channel" \in Labels
    BY <1>5 DEF ScanReviews, Labels
  <2>2. pc' \in [Procs -> Labels] /\ pc'[p] = "channel" /\ Others(p)
    BY <2>1, MoveTypes
  <2>3. TypeOK'
    BY <1>5, <1>0, <2>1, <2>2 DEF ScanReviews, TypeOK, LocalsSet
  <2>4. LocalsSet(p)'
    BY <1>5, <1>0, <2>1, <2>2 DEF ScanReviews, LocalsSet, Loaded, Writing
  <2> QED
    BY <1>5, <2>2, <2>3, <2>4, OthersKeepLocals DEF ScanReviews, ReceiptsStay
<1>6. CASE FindChannel(p)
  <2>1. Goto(p, "decisions") /\ UNCHANGED <<job, mem>> /\ "decisions" \in Labels
    BY <1>6 DEF FindChannel, Labels
  <2>2. pc' \in [Procs -> Labels] /\ pc'[p] = "decisions" /\ Others(p)
    BY <2>1, MoveTypes
  <2>3. TypeOK'
    BY <1>6, <1>0, <2>1, <2>2 DEF FindChannel, TypeOK, LocalsSet
  <2>4. LocalsSet(p)'
    BY <1>6, <1>0, <2>1, <2>2 DEF FindChannel, LocalsSet, Loaded, Writing
  <2> QED
    BY <1>6, <2>2, <2>3, <2>4, OthersKeepLocals DEF FindChannel, ReceiptsStay
<1>7. CASE CheckReceipt(p)
  <2>1. Goto(p, "compare") /\ UNCHANGED <<job, mem>> /\ "compare" \in Labels
    BY <1>7 DEF CheckReceipt, Labels
  <2>2. pc' \in [Procs -> Labels] /\ pc'[p] = "compare" /\ Others(p)
    BY <2>1, MoveTypes
  <2>3. TypeOK'
    BY <1>7, <1>0, <2>1, <2>2 DEF CheckReceipt, TypeOK, LocalsSet
  <2>4. LocalsSet(p)'
    BY <1>7, <1>0, <2>1, <2>2 DEF CheckReceipt, LocalsSet, Loaded, Writing
  <2> QED
    BY <1>7, <2>2, <2>3, <2>4, OthersKeepLocals DEF CheckReceipt, ReceiptsStay
<1>8. CASE CreateTemp(p)
  <2> DEFINE label == IF mem[p].writing = "pointer" THEN "replace" ELSE "link"
  <2>1. Goto(p, label) /\ UNCHANGED <<job, mem>> /\ label \in Labels
    BY <1>8 DEF CreateTemp, Labels
  <2>2. pc' \in [Procs -> Labels] /\ pc'[p] = label /\ Others(p)
    BY <2>1, MoveTypes
  <2>3. TypeOK'
    BY <1>8, <1>0, <2>1, <2>2 DEF CreateTemp, TypeOK
  <2>4. LocalsSet(p)'
    BY <1>8, <1>0, <2>1, <2>2 DEF CreateTemp, LocalsSet, Loaded, Writing
  <2> QED
    BY <1>8, <2>2, <2>3, <2>4, OthersKeepLocals DEF CreateTemp, ReceiptsStay
<1>9. CASE MakeDecisions(p)
  <2>1. Goto(p, "consume") /\ UNCHANGED <<job, mem>> /\ "consume" \in Labels
    BY <1>9 DEF MakeDecisions, Labels
  <2>2. pc' \in [Procs -> Labels] /\ pc'[p] = "consume" /\ Others(p)
    BY <2>1, MoveTypes
  <2>3. TypeOK'
    BY <1>9, <1>0, <2>1, <2>2 DEF MakeDecisions, TypeOK, LocalsSet
  <2>4. LocalsSet(p)'
    BY <1>9, <1>0, <2>1, <2>2 DEF MakeDecisions, LocalsSet, Loaded, Writing
  <2> QED
    BY <1>9, <2>2, <2>3, <2>4, OthersKeepLocals DEF MakeDecisions, ReceiptsStay
<1>10. CASE HaveChannel(p)
  <2>1. Goto(p, "consume") /\ UNCHANGED <<job, mem>> /\ "consume" \in Labels
    BY <1>10 DEF HaveChannel, Labels
  <2>2. pc' \in [Procs -> Labels] /\ pc'[p] = "consume" /\ Others(p)
    BY <2>1, MoveTypes
  <2>3. TypeOK'
    BY <1>10, <1>0, <2>1, <2>2 DEF HaveChannel, TypeOK, LocalsSet
  <2>4. LocalsSet(p)'
    BY <1>10, <1>0, <2>1, <2>2 DEF HaveChannel, LocalsSet, Loaded, Writing
  <2> QED
    BY <1>10, <2>2, <2>3, <2>4, OthersKeepLocals DEF HaveChannel, ReceiptsStay
<1>11. CASE ReplacePointer(p)
  <2>1. Goto(p, "manifests") /\ UNCHANGED <<job, mem>> /\ "manifests" \in Labels
    BY <1>11 DEF ReplacePointer, Labels
  <2>2. pc' \in [Procs -> Labels] /\ pc'[p] = "manifests" /\ Others(p)
    BY <2>1, MoveTypes
  <2>3. TypeOK'
    BY <1>11, <1>0, <2>1, <2>2 DEF ReplacePointer, TypeOK, LocalsSet, Memory
  <2>4. LocalsSet(p)'
    BY <1>11, <1>0, <2>1, <2>2 DEF ReplacePointer, LocalsSet, Loaded, Writing
  <2> QED
    BY <1>11, <2>2, <2>3, <2>4, OthersKeepLocals DEF ReplacePointer, ReceiptsStay
<1>12. CASE MakeChannel(p)
  <2>1. Goto(p, "mkdir") /\ UNCHANGED <<job, mem>> /\ "mkdir" \in Labels
    BY <1>12 DEF MakeChannel, Labels
  <2>2. pc' \in [Procs -> Labels] /\ pc'[p] = "mkdir" /\ Others(p)
    BY <2>1, MoveTypes
  <2>3. TypeOK'
    BY <1>12, <1>0, <2>1, <2>2 DEF MakeChannel, TypeOK, LocalsSet
  <2>4. LocalsSet(p)'
    BY <1>12, <1>0, <2>1, <2>2 DEF MakeChannel, LocalsSet, Loaded, Writing
  <2> QED
    BY <1>12, <2>2, <2>3, <2>4, OthersKeepLocals DEF MakeChannel, ReceiptsStay
<1>13. CASE KeepRecord(p)
  <2>1. AfterRecord(p) \in {"current", "decide"}
    BY <1>13, <1>0 DEF KeepRecord, AfterRecord, Existing, TypeOK, Memory, RecordKinds
  <2>2. Goto(p, AfterRecord(p)) /\ UNCHANGED <<job, mem>> /\ AfterRecord(p) \in Labels
    BY <1>13, <2>1 DEF KeepRecord, Labels
  <2>3. pc' \in [Procs -> Labels] /\ pc'[p] = AfterRecord(p) /\ Others(p)
    BY <2>2, MoveTypes
  <2>4. TypeOK'
    BY <1>13, <1>0, <2>2, <2>3 DEF KeepRecord, TypeOK
  <2>5. LocalsSet(p)'
    BY <1>13, <1>0, <2>1, <2>2, <2>3 DEF KeepRecord, LocalsSet, Loaded, Writing
  <2> QED
    BY <1>13, <2>3, <2>4, <2>5, OthersKeepLocals DEF KeepRecord, ReceiptsStay
<1>14. CASE ReadCandidate(p)
  <2> DEFINE m == [mem[p] EXCEPT !.before = candidate[job[p].path]]
  <2>1. m \in Memory /\ "parse" \in Labels
    BY <1>14, <1>0 DEF ReadCandidate, TypeOK, LocalsSet, Memory, Labels, RecordKinds, Job
  <2>2. Goto(p, "parse") /\ Remember(p, m) /\ UNCHANGED job
    BY <1>14 DEF ReadCandidate
  <2>3. pc' \in [Procs -> Labels] /\ mem' \in [Procs -> Memory] /\ pc'[p] = "parse" /\ mem'[p]
     = m /\ Others(p)
    BY <2>1, <2>2, UpdateTypes
  <2>4. TypeOK'
    BY <1>14, <1>0, <2>3 DEF ReadCandidate, TypeOK
  <2>5. LocalsSet(p)'
    BY <1>14, <1>0, <2>2, <2>3 DEF ReadCandidate, TypeOK, LocalsSet, Loaded, Writing, Memory, Job
  <2> QED
    BY <1>14, <2>3, <2>4, <2>5, OthersKeepLocals DEF ReadCandidate, ReceiptsStay
<1>15. CASE ParseCandidate(p)
  <2> DEFINE m == [mem[p] EXCEPT !.parsed = candidate[job[p].path]]
  <2>1. m \in Memory /\ "artifacts" \in Labels
    BY <1>15, <1>0 DEF ParseCandidate, TypeOK, LocalsSet, Memory, Labels, RecordKinds, Job
  <2>2. Goto(p, "artifacts") /\ Remember(p, m) /\ UNCHANGED job
    BY <1>15 DEF ParseCandidate
  <2>3. pc' \in [Procs -> Labels] /\ mem' \in [Procs -> Memory] /\ pc'[p] = "artifacts" /\
     mem'[p] = m /\ Others(p)
    BY <2>1, <2>2, UpdateTypes
  <2>4. TypeOK'
    BY <1>15, <1>0, <2>3 DEF ParseCandidate, TypeOK
  <2>5. LocalsSet(p)'
    BY <1>15, <1>0, <2>2, <2>3 DEF ParseCandidate, TypeOK, LocalsSet, Loaded, Writing, Memory, Job
  <2> QED
    BY <1>15, <2>3, <2>4, <2>5, OthersKeepLocals DEF ParseCandidate, ReceiptsStay
<1>16. CASE FindNoChannel(p)
  <2> DEFINE m == [mem[p] EXCEPT !.terminal = Genesis]
  <2>1. m \in Memory /\ AfterVerify(p) \in Labels
    BY <1>16, AfterVerifyLabels, <1>0 DEF FindNoChannel, TypeOK, LocalsSet, Memory, Labels,
       RecordKinds, Job
  <2>2. Goto(p, AfterVerify(p)) /\ Remember(p, m) /\ UNCHANGED job
    BY <1>16 DEF FindNoChannel
  <2>3. pc' \in [Procs -> Labels] /\ mem' \in [Procs -> Memory] /\ pc'[p] = AfterVerify(p) /\
     mem'[p] = m /\ Others(p)
    BY <2>1, <2>2, UpdateTypes
  <2>4. TypeOK'
    BY <1>16, <1>0, <2>3 DEF FindNoChannel, TypeOK
  <2>5. LocalsSet(p)'
    BY <1>16, AfterVerifyLabels, <1>0, <2>2, <2>3 DEF FindNoChannel, TypeOK, LocalsSet,
       Loaded, Writing, Memory, Job
  <2> QED
    BY <1>16, <2>3, <2>4, <2>5, OthersKeepLocals DEF FindNoChannel, ReceiptsStay
<1>17. CASE ReadDecisions(p)
  <2> DEFINE m == [mem[p] EXCEPT !.listed = decisions[job[p].channel]]
  <2>1. m \in Memory /\ "pointer" \in Labels
    BY <1>17, <1>0 DEF ReadDecisions, TypeOK, LocalsSet, Memory, Labels, RecordKinds, Job
  <2>2. Goto(p, "pointer") /\ Remember(p, m) /\ UNCHANGED job
    BY <1>17 DEF ReadDecisions
  <2>3. pc' \in [Procs -> Labels] /\ mem' \in [Procs -> Memory] /\ pc'[p] = "pointer" /\
     mem'[p] = m /\ Others(p)
    BY <2>1, <2>2, UpdateTypes
  <2>4. TypeOK'
    BY <1>17, <1>0, <2>3 DEF ReadDecisions, TypeOK
  <2>5. LocalsSet(p)'
    BY <1>17, <1>0, <2>2, <2>3 DEF ReadDecisions, TypeOK, LocalsSet, Loaded, Writing, Memory, Job
  <2> QED
    BY <1>17, <2>3, <2>4, <2>5, OthersKeepLocals DEF ReadDecisions, ReceiptsStay
<1>18. CASE ReadPointer(p)
  <2> DEFINE m == [mem[p] EXCEPT !.terminal = pointer[job[p].channel], !.listed = {}]
  <2>1. m \in Memory /\ AfterVerify(p) \in Labels
    BY <1>18, AfterVerifyLabels, <1>0 DEF ReadPointer, TypeOK, LocalsSet, Memory, Labels,
       RecordKinds, Job
  <2>2. Goto(p, AfterVerify(p)) /\ Remember(p, m) /\ UNCHANGED job
    BY <1>18 DEF ReadPointer
  <2>3. pc' \in [Procs -> Labels] /\ mem' \in [Procs -> Memory] /\ pc'[p] = AfterVerify(p) /\
     mem'[p] = m /\ Others(p)
    BY <2>1, <2>2, UpdateTypes
  <2>4. TypeOK'
    BY <1>18, <1>0, <2>3 DEF ReadPointer, TypeOK
  <2>5. LocalsSet(p)'
    BY <1>18, AfterVerifyLabels, <1>0, <2>2, <2>3 DEF ReadPointer, TypeOK, LocalsSet, Loaded,
       Writing, Memory, Job
  <2> QED
    BY <1>18, <2>3, <2>4, <2>5, OthersKeepLocals DEF ReadPointer, ReceiptsStay
<1>19. CASE ReadReceiptBytes(p)
  <2>0. receipts[job[p].receipt] \in Receipt
    <3>1. job[p] \in Job /\ Objection(p) = "none" /\ pc[p] = "bytes"
      BY <1>19, <1>0 DEF ReadReceiptBytes, LocalsSet
    <3>2. receipts[job[p].receipt] # NoReceipt
      BY <3>1 DEF Objection
    <3> QED
      BY <1>0, <3>1, <3>2 DEF TypeOK, Job
  <2> DEFINE m == [mem[p] EXCEPT !.bytes = receipts[job[p].receipt]]
  <2>1. m \in Memory /\ "reload" \in Labels
    BY <1>19, <2>0, <1>0 DEF ReadReceiptBytes, TypeOK, LocalsSet, Memory, Labels, RecordKinds, Job
  <2>2. Goto(p, "reload") /\ Remember(p, m) /\ UNCHANGED job
    BY <1>19 DEF ReadReceiptBytes
  <2>3. pc' \in [Procs -> Labels] /\ mem' \in [Procs -> Memory] /\ pc'[p] = "reload" /\ mem'[p]
     = m /\ Others(p)
    BY <2>1, <2>2, UpdateTypes
  <2>4. TypeOK'
    BY <1>19, <1>0, <2>3 DEF ReadReceiptBytes, TypeOK
  <2>5. LocalsSet(p)'
    BY <1>19, <2>0, <1>0, <2>2, <2>3 DEF ReadReceiptBytes, TypeOK, LocalsSet, Loaded, Writing,
       Memory, Job
  <2> QED
    BY <1>19, <2>3, <2>4, <2>5, OthersKeepLocals DEF ReadReceiptBytes, ReceiptsStay
<1>20. CASE LoadReceipt(p)
  <2> DEFINE m == [mem[p] EXCEPT !.receipt = receipts[job[p].receipt]]
  <2>1. m \in Memory /\ "load" \in Labels
    BY <1>20, <1>0 DEF LoadReceipt, TypeOK, LocalsSet, Memory, Labels, RecordKinds, Job
  <2>2. Goto(p, "load") /\ Remember(p, m) /\ UNCHANGED job
    BY <1>20 DEF LoadReceipt
  <2>3. pc' \in [Procs -> Labels] /\ mem' \in [Procs -> Memory] /\ pc'[p] = "load" /\ mem'[p] =
     m /\ Others(p)
    BY <2>1, <2>2, UpdateTypes
  <2>4. TypeOK'
    BY <1>20, <1>0, <2>3 DEF LoadReceipt, TypeOK
  <2>5. LocalsSet(p)'
    BY <1>20, <1>0, <2>2, <2>3 DEF LoadReceipt, TypeOK, LocalsSet, Loaded, Writing, Memory, Job
  <2> QED
    BY <1>20, <2>3, <2>4, <2>5, OthersKeepLocals DEF LoadReceipt, ReceiptsStay
<1>21. CASE RecheckRelease(p)
  <2> DEFINE m == [mem[p] EXCEPT !.writing = "manifest"]
  <2>1. m \in Memory /\ "publish" \in Labels
    BY <1>21, <1>0 DEF RecheckRelease, TypeOK, LocalsSet, Memory, Labels, RecordKinds, Job
  <2>2. Goto(p, "publish") /\ Remember(p, m) /\ UNCHANGED job
    BY <1>21 DEF RecheckRelease
  <2>3. pc' \in [Procs -> Labels] /\ mem' \in [Procs -> Memory] /\ pc'[p] = "publish" /\
     mem'[p] = m /\ Others(p)
    BY <2>1, <2>2, UpdateTypes
  <2>4. TypeOK'
    BY <1>21, <1>0, <2>3 DEF RecheckRelease, TypeOK
  <2>5. LocalsSet(p)'
    BY <1>21, <1>0, <2>2, <2>3 DEF RecheckRelease, TypeOK, LocalsSet, Loaded, Writing, Memory, Job
  <2> QED
    BY <1>21, <2>3, <2>4, <2>5, OthersKeepLocals DEF RecheckRelease, ReceiptsStay
<1>22. CASE UnlinkTemp(p)
  <2>0. /\ mem[p].writing \in {"manifest", "review", "decision"} /\ job[p] \in Job
        /\ AfterRecord(p) \in {"current", "decide", "publish"}
        /\ AfterRecord(p) = "publish" <=> mem[p].writing = "decision"
    <3>1. mem[p].writing \in {"manifest", "review", "decision"} /\ job[p] \in Job
      BY <1>22, <1>0 DEF UnlinkTemp, LocalsSet, Memory, RecordKinds
    <3> QED
      BY <3>1, AfterRecordLabels
  <2> DEFINE m == [mem[p] EXCEPT !.writing = IF @ = "decision" THEN "pointer" ELSE @]
  <2>1. m \in Memory /\ AfterRecord(p) \in Labels
    BY <1>22, <2>0, <1>0 DEF UnlinkTemp, TypeOK, LocalsSet, Memory, Labels, RecordKinds, Job
  <2>2. Goto(p, AfterRecord(p)) /\ Remember(p, m) /\ UNCHANGED job
    BY <1>22 DEF UnlinkTemp
  <2>3. pc' \in [Procs -> Labels] /\ mem' \in [Procs -> Memory] /\ pc'[p] = AfterRecord(p) /\
     mem'[p] = m /\ Others(p)
    BY <2>1, <2>2, UpdateTypes
  <2>4. TypeOK'
    BY <1>22, <1>0, <2>3 DEF UnlinkTemp, TypeOK
  <2>5. LocalsSet(p)'
    BY <1>22, <2>0, <1>0, <2>2, <2>3 DEF UnlinkTemp, TypeOK, LocalsSet, Loaded, Writing,
       Memory, Job
  <2> QED
    BY <1>22, <2>3, <2>4, <2>5, OthersKeepLocals DEF UnlinkTemp, ReceiptsStay
<1>23. CASE StoreReview(p)
  <2> DEFINE m == [mem[p] EXCEPT !.writing = "review"]
  <2>1. m \in Memory /\ "publish" \in Labels
    BY <1>23, <1>0 DEF StoreReview, TypeOK, LocalsSet, Memory, Labels, RecordKinds, Job
  <2>2. Goto(p, "publish") /\ Remember(p, m) /\ UNCHANGED job
    BY <1>23 DEF StoreReview
  <2>3. pc' \in [Procs -> Labels] /\ mem' \in [Procs -> Memory] /\ pc'[p] = "publish" /\
     mem'[p] = m /\ Others(p)
    BY <2>1, <2>2, UpdateTypes
  <2>4. TypeOK'
    BY <1>23, <1>0, <2>3 DEF StoreReview, TypeOK
  <2>5. LocalsSet(p)'
    BY <1>23, <1>0, <2>2, <2>3 DEF StoreReview, TypeOK, LocalsSet, Loaded, Writing, Memory, Job
  <2> QED
    BY <1>23, <2>3, <2>4, <2>5, OthersKeepLocals DEF StoreReview, ReceiptsStay
<1>24. CASE DraftDecision(p)
  <2>0. NewDecision(p) \in Decision /\ job[p] \in Job
    <3>1. /\ job[p] \in Job /\ pc[p] \in {"decide", "consume"} /\ job[p].kind # "verify"
          /\ mem[p].before \in Manifests /\ mem[p].parsed \in Manifests
      BY <1>24, <1>0 DEF DraftDecision, LocalsSet
    <3>2. mem[p].terminal.id \in Nat /\ mem[p].terminal.seq \in Nat
      BY <1>0 DEF Memory, Decision, Genesis
    <3>3. job[p].kind = "accept" => mem[p].receipt.id \in Nat
      BY <1>0, <3>1 DEF LocalsSet, Loaded, Receipt
    <3> QED
      BY <1>0, <3>1, <3>2, <3>3, ConstantsAssumption DEF TypeOK, Decision, NewDecision
  <2> DEFINE m == [mem[p] EXCEPT !.writing = "decision", !.draft = NewDecision(p)]
  <2>1. m \in Memory /\ "publish" \in Labels
    BY <1>24, <2>0, <1>0 DEF DraftDecision, TypeOK, LocalsSet, Memory, Labels, RecordKinds, Job
  <2>2. Goto(p, "publish") /\ Remember(p, m) /\ UNCHANGED job
    BY <1>24 DEF DraftDecision
  <2>3. pc' \in [Procs -> Labels] /\ mem' \in [Procs -> Memory] /\ pc'[p] = "publish" /\
     mem'[p] = m /\ Others(p)
    BY <2>1, <2>2, UpdateTypes
  <2>4. TypeOK'
    BY <1>24, <1>0, <2>3 DEF DraftDecision, TypeOK
  <2>5. LocalsSet(p)'
    BY <1>24, <2>0, <1>0, <2>2, <2>3 DEF DraftDecision, TypeOK, LocalsSet, Loaded, Writing,
       Memory, Job
  <2> QED
    BY <1>24, <2>3, <2>4, <2>5, OthersKeepLocals DEF DraftDecision, ReceiptsStay
<1>25. CASE Refuse(p)
  <2>1. Return(p, Objection(p)) /\ Objection(p) \in Outcomes
    BY <1>25, ObjectionTypes DEF Refuse, Answer, Outcomes
  <2>2. ReceiptsStay
    BY <1>25, <1>0 DEF Refuse, Answer, ReceiptsStay, TypeOK, LocalsSet
  <2>3. TypeOK'
    BY <1>25, <1>0, <2>1, <2>2, ReturnTypes DEF Refuse, Answer, TypeOK, LocalsSet
  <2> QED
    BY <2>1, <2>2, <2>3, ReturnTypes, OthersKeepLocals
<1>26. CASE ReportVerified(p)
  <2>1. Return(p, "verified") /\ "verified" \in Outcomes
    BY <1>26, ObjectionTypes DEF ReportVerified, Answer, Outcomes
  <2>2. ReceiptsStay
    BY <1>26, <1>0 DEF ReportVerified, Answer, ReceiptsStay, TypeOK, LocalsSet
  <2>3. TypeOK'
    BY <1>26, <1>0, <2>1, <2>2, ReturnTypes DEF ReportVerified, Answer, TypeOK, LocalsSet
  <2> QED
    BY <2>1, <2>2, <2>3, ReturnTypes, OthersKeepLocals
<1>27. CASE ReportChecked(p)
  <2>1. Return(p, "checked") /\ "checked" \in Outcomes
    BY <1>27, ObjectionTypes DEF ReportChecked, Answer, Outcomes
  <2>2. ReceiptsStay
    BY <1>27, <1>0 DEF ReportChecked, Answer, ReceiptsStay, TypeOK, LocalsSet
  <2>3. TypeOK'
    BY <1>27, <1>0, <2>1, <2>2, ReturnTypes DEF ReportChecked, Answer, TypeOK, LocalsSet
  <2> QED
    BY <2>1, <2>2, <2>3, ReturnTypes, OthersKeepLocals
<1>28. CASE ReportAccepted(p)
  <2>1. Return(p, "accepted") /\ "accepted" \in Outcomes
    BY <1>28, ObjectionTypes DEF ReportAccepted, Answer, Outcomes
  <2>2. ReceiptsStay
    BY <1>28, <1>0 DEF ReportAccepted, Answer, ReceiptsStay, TypeOK, LocalsSet
  <2>3. TypeOK'
    BY <1>28, <1>0, <2>1, <2>2, ReturnTypes DEF ReportAccepted, Answer, TypeOK, LocalsSet
  <2> QED
    BY <2>1, <2>2, <2>3, ReturnTypes, OthersKeepLocals
<1>29. CASE ReportUnchanged(p)
  <2>1. Return(p, "unchanged") /\ "unchanged" \in Outcomes
    BY <1>29, ObjectionTypes DEF ReportUnchanged, Answer, Outcomes
  <2>2. ReceiptsStay
    BY <1>29, <1>0 DEF ReportUnchanged, Answer, ReceiptsStay, TypeOK, LocalsSet
  <2>3. TypeOK'
    BY <1>29, <1>0, <2>1, <2>2, ReturnTypes DEF ReportUnchanged, Answer, TypeOK, LocalsSet
  <2> QED
    BY <2>1, <2>2, <2>3, ReturnTypes, OthersKeepLocals
<1>30. CASE WriteReceipt(p)
  <2>1. Return(p, "reviewed") /\ "reviewed" \in Outcomes
    BY <1>30, ObjectionTypes DEF WriteReceipt, Answer, Outcomes
  <2>2. ReceiptsStay
    BY <1>30, <1>0 DEF WriteReceipt, Answer, ReceiptsStay, TypeOK, LocalsSet
  <2>3. TypeOK'
    BY <1>30, <1>0, <2>1, <2>2, ReturnTypes DEF WriteReceipt, Answer, TypeOK, LocalsSet
  <2> QED
    BY <2>1, <2>2, <2>3, ReturnTypes, OthersKeepLocals
<1>31. CASE DraftReceipt(p)
  <2> DEFINE r == [id |-> issued + 1, channel |-> job[p].channel,
                   project |-> ProjectOf[mem[p].parsed], manifest |-> mem[p].before,
                   pred |-> mem[p].terminal.id,
                   compared |-> ComparedWith(mem[p].terminal.id, p)]
             m == [mem[p] EXCEPT !.receipt = r]
  <2>1. r \in Receipt
    <3>1. /\ job[p] \in Job /\ pc[p] = "diff" /\ job[p].kind # "verify"
          /\ mem[p].before \in Manifests /\ mem[p].parsed \in Manifests
      BY <1>31, <1>0 DEF DraftReceipt, LocalsSet
    <3>2. mem[p].terminal.id \in Nat
      BY <1>0 DEF Memory, Decision, Genesis
    <3>3. ComparedWith(mem[p].terminal.id, p) \in Manifests
      BY <1>0, <3>1 DEF ComparedWith, TypeOK, Job
    <3> QED
      BY <1>0, <3>1, <3>2, <3>3, ConstantsAssumption DEF TypeOK, Job, Receipt
  <2>2. m \in Memory /\ m.receipt = r /\ m.before = mem[p].before /\ m.parsed = mem[p].parsed
    BY <1>0, <2>1 DEF Memory
  <2>3. Goto(p, "receipt") /\ Remember(p, m) /\ UNCHANGED job
    BY <1>31 DEF DraftReceipt
  <2> HIDE DEF r, m
  <2>4. pc' \in [Procs -> Labels] /\ mem' \in [Procs -> Memory] /\ pc'[p] = "receipt" /\
     mem'[p] = m /\ Others(p)
    BY <2>2, <2>3, UpdateTypes DEF Labels
  <2>5. TypeOK'
    BY <1>31, <1>0, <2>4 DEF DraftReceipt, TypeOK
  <2>6. LocalsSet(p)'
    BY <1>31, <1>0, <2>1, <2>2, <2>3, <2>4 DEF DraftReceipt, LocalsSet, Loaded, Writing
  <2> QED
    BY <1>31, <2>4, <2>5, <2>6, OthersKeepLocals DEF DraftReceipt, ReceiptsStay
<1>32. CASE LinkReview(p)
  <2>1. /\ mem[p].bytes \in Receipt /\ mem[p].receipt.id \in Nat /\ job[p] \in Job
        /\ pc[p] = "link" /\ mem[p].writing = "review" /\ job[p].kind = "accept"
    BY <1>32, <1>0 DEF LinkReview, Link, LocalsSet, Loaded, Writing, Receipt
  <2>2. Goto(p, "unlink") /\ Remember(p, mem[p]) /\ UNCHANGED job
    BY <1>32, <1>0 DEF LinkReview, Link, Remember, TypeOK
  <2>3. pc' \in [Procs -> Labels] /\ mem' \in [Procs -> Memory] /\ pc'[p] = "unlink" /\ mem'[p]
     = mem[p] /\ Others(p)
    BY <1>0, <2>2, UpdateTypes DEF Labels
  <2>4. TypeOK'
    BY <1>32, <1>0, <2>1, <2>3 DEF LinkReview, Link, TypeOK
  <2>5. LocalsSet(p)'
    BY <1>32, <1>0, <2>1, <2>2, <2>3 DEF LinkReview, Link, LocalsSet, Loaded, Writing
  <2> QED
    BY <1>32, <2>3, <2>4, <2>5, OthersKeepLocals DEF LinkReview, Link, ReceiptsStay
<1>33. CASE LinkDecision(p)
  <2>1. mem[p].draft \in Decision /\ pc[p] = "link" /\ mem[p].writing = "decision"
    BY <1>33, <1>0 DEF LinkDecision, Link, LocalsSet, Writing
  <2>2. Goto(p, "unlink") /\ Remember(p, mem[p]) /\ UNCHANGED job
    BY <1>33, <1>0 DEF LinkDecision, Link, Remember, TypeOK
  <2>3. pc' \in [Procs -> Labels] /\ mem' \in [Procs -> Memory] /\ pc'[p] = "unlink" /\ mem'[p]
     = mem[p] /\ Others(p)
    BY <1>0, <2>2, UpdateTypes DEF Labels
  <2>4. TypeOK'
    BY <1>33, <1>0, <2>1, <2>3 DEF LinkDecision, Link, TypeOK
  <2>5. LocalsSet(p)'
    BY <1>33, <1>0, <2>1, <2>2, <2>3 DEF LinkDecision, Link, LocalsSet, Loaded, Writing
  <2> QED
    BY <1>33, <2>3, <2>4, <2>5, OthersKeepLocals DEF LinkDecision, Link, ReceiptsStay
<1>34. CASE LinkManifest(p)
  <2>1. Goto(p, "unlink") /\ UNCHANGED <<job, mem>> /\ "unlink" \in Labels
    BY <1>34 DEF LinkManifest, Link, Labels
  <2>2. pc' \in [Procs -> Labels] /\ pc'[p] = "unlink" /\ Others(p)
    BY <2>1, MoveTypes
  <2>3. TypeOK'
    BY <1>34, <1>0, <2>1, <2>2 DEF LinkManifest, Link, TypeOK, LocalsSet
  <2>4. LocalsSet(p)'
    BY <1>34, <1>0, <2>1, <2>2 DEF LinkManifest, Link, LocalsSet, Loaded, Writing
  <2> QED
    BY <1>34, <2>2, <2>3, <2>4, OthersKeepLocals DEF LinkManifest, Link, ReceiptsStay
<1> QED
  BY <1>1, <1>2, <1>3, <1>4, <1>5, <1>6, <1>7, <1>8, <1>9, <1>10, <1>11, <1>12, <1>13, <1>14,
     <1>15, <1>16, <1>17, <1>18, <1>19, <1>20, <1>21, <1>22, <1>23, <1>24, <1>25, <1>26,
        <1>27, <1>28, <1>29, <1>30, <1>31, <1>32, <1>33, <1>34 DEF Step

LEMMA TempTypes ==
    ASSUME TypeInv, NEW p \in Procs, pc[p] # "idle"
    PROVE  TempOf(p) \subseteq [kind : RecordKinds, channel : Channels]
BY OwnMemory DEF TempOf, LocalsSet, Memory, Job

LEMMA NextTypes ==
    ASSUME TypeInv, [Next]_vars PROVE TypeInv'
<1> USE DEF ownerVars, storeVars
<1>1. ASSUME NEW p \in Procs, Start(p) PROVE TypeInv'
  <2>1. PICK j \in Job : /\ job' = [job EXCEPT ![p] = j]
                         /\ Goto(p, IF j.kind = "verify" THEN "manifests" ELSE "lock")
    BY <1>1 DEF Start
  <2>2. /\ pc[p] = "idle"
        /\ Others(p) /\ ReceiptsStay
        /\ pc' \in [Procs -> Labels] /\ job' \in [Procs -> Job \union {NoJob}]
        /\ pc'[p] = (IF j.kind = "verify" THEN "manifests" ELSE "lock")
        /\ job'[p] = j /\ mem'[p] = mem[p]
    BY <1>1, <2>1 DEF Start, TypeInv, TypeOK, Goto, Others, ReceiptsStay, Labels
  <2>3. TypeOK'
    BY <1>1, <2>2, ConstantsAssumption DEF Start, TypeInv, TypeOK, Outcomes
  <2>4. LocalsSet(p)'
    BY <2>2, OwnMemory DEF LocalsSet, Loaded, Writing, Fresh
  <2> QED
    BY <2>2, <2>3, <2>4, OthersKeepLocals
<1>2. ASSUME NEW p \in Procs, Fail(p) PROVE TypeInv'
  <2>1. Return(p, "failed") /\ "failed" \in Outcomes /\ ReceiptsStay
    BY <1>2 DEF Fail, Outcomes, ReceiptsStay
  <2>2. TypeOK'
    BY <1>2, <2>1, ReturnTypes, ConstantsAssumption DEF Fail, TypeInv, TypeOK
  <2> QED
    BY <2>1, <2>2, ReturnTypes, OthersKeepLocals
<1>3. ASSUME NEW p \in Procs, Crash(p) PROVE TypeInv'
  <2>1. Return(p, "crashed") /\ "crashed" \in Outcomes /\ ReceiptsStay
    BY <1>3 DEF Crash, Outcomes, ReceiptsStay
  <2>2. debris' \subseteq [kind : RecordKinds, channel : Channels]
    BY <1>3, TempTypes DEF Crash, TypeInv, TypeOK
  <2>3. TypeOK'
    BY <1>3, <2>1, <2>2, ReturnTypes, ConstantsAssumption DEF Crash, TypeInv, TypeOK
  <2> QED
    BY <2>1, <2>3, ReturnTypes, OthersKeepLocals
<1>4. CASE Rebuild
  <2>1. TypeOK'
    BY <1>4, ConstantsAssumption DEF Rebuild, TypeInv, TypeOK
  <2> QED
    BY <1>4, <2>1 DEF Rebuild, TypeInv, LocalsSet
<1>5. CASE ChangeArtifact
  <2>1. TypeOK'
    BY <1>5, ConstantsAssumption DEF ChangeArtifact, TypeInv, TypeOK
  <2> QED
    BY <1>5, <2>1 DEF ChangeArtifact, TypeInv, LocalsSet
<1>6. CASE UNCHANGED vars
  BY <1>6 DEF vars, TypeInv, TypeOK, LocalsSet
<1> QED
  BY <1>1, <1>2, <1>3, <1>4, <1>5, <1>6, StepTypes DEF Next, AllIdle

(* Every variable keeps its type and every local variable is set before it *)
(* is used, whatever the number of processes and faults.                   *)
THEOREM TypeCorrect == Spec => []TypeOK
<1>1. Spec => []TypeInv
  BY InitialTypes, NextTypes, PTL DEF Spec
<1>2. TypeInv => TypeOK
  BY DEF TypeInv
<1> QED
  BY <1>1, <1>2, PTL

-----------------------------------------------------------------------------
(* The channels' chains.  A command that holds the lock knows the terminal *)
(* decision from its verification until it links the next one.             *)
Locked(p) == pc[p] \notin {"idle", "lock"} /\ job[p].kind # "verify"

Deciding(p) ==
    \/ pc[p] \in {"bytes", "reload", "load", "compare", "legacy", "link", "current", "mkdir",
                  "consume", "decide", "diff", "check", "done"}
    \/ pc[p] = "publish" /\ mem[p].writing # "pointer"
    \/ pc[p] = "unlink" /\ mem[p].writing # "decision"

LockHeld(p) == Locked(p) => lock[job[p].channel] = p

ListingCurrent(p) ==
    Locked(p) /\ pc[p] = "pointer" => mem[p].listed = decisions[job[p].channel]

TerminalKnown(p) ==
    Deciding(p) => Terminal(mem[p].terminal, decisions[job[p].channel])

DraftFollows(p) ==
    pc[p] \in {"publish", "link"} /\ mem[p].writing = "decision" =>
        /\ mem[p].draft.seq = mem[p].terminal.seq + 1
        /\ mem[p].draft.pred = mem[p].terminal.id

ChannelMade(p) ==
    \/ pc[p] \in {"consume", "decide"}
    \/ pc[p] \in {"publish", "link", "unlink"} /\ mem[p].writing # "manifest"
    => channelDir[job[p].channel] # "absent"

Tracks(p) ==
    LockHeld(p) /\ ListingCurrent(p) /\ TerminalKnown(p) /\ DraftFollows(p) /\ ChannelMade(p)

AbsentIsEmpty == \A c \in Channels : channelDir[c] = "absent" => decisions[c] = {}

ChainInv == TypeInv /\ ChannelsChained /\ AbsentIsEmpty /\ \A p \in Procs : Tracks(p)

LEMMA InitialChain == Init => ChainInv
<1> SUFFICES ASSUME Init PROVE ChainInv
  OBVIOUS
<1>1. TypeInv
  BY InitialTypes
<1>2. ChannelsChained /\ AbsentIsEmpty
  BY DEF Init, ChannelsChained, Chained, AbsentIsEmpty
<1>3. \A p \in Procs : Tracks(p)
  BY DEF Init, Tracks, LockHeld, ListingCurrent, TerminalKnown, DraftFollows, ChannelMade,
         Locked, Deciding
<1> QED
  BY <1>1, <1>2, <1>3 DEF ChainInv

(* Another process cannot disturb a command: the decisions of a channel    *)
(* change in the hands of the holder of its lock.                          *)
LEMMA OthersTrack ==
    ASSUME ChainInv, NEW p \in Procs, Others(p),
           \A c \in Channels : lock[c] \in Procs \ {p} => lock'[c] = lock[c],
           \A c \in Channels : decisions'[c] # decisions[c] => lock[c] = p,
           \A c \in Channels : channelDir[c] # "absent" => channelDir'[c] # "absent"
    PROVE  \A q \in Procs \ {p} : Tracks(q)'
<1> SUFFICES ASSUME NEW q \in Procs \ {p} PROVE Tracks(q)'
  OBVIOUS
<1>1. pc'[q] = pc[q] /\ job'[q] = job[q] /\ mem'[q] = mem[q]
  BY DEF Others
<1>2. Tracks(q) /\ LocalsSet(q)
  BY DEF ChainInv, TypeInv
<1>3. pc[q] # "idle" => job[q].channel \in Channels
  BY <1>2 DEF LocalsSet, Job
<1>4. Locked(q) => lock[job[q].channel] = q
  BY <1>2 DEF Tracks, LockHeld
<1>5. Locked(q) => decisions'[job[q].channel] = decisions[job[q].channel]
  BY <1>3, <1>4 DEF Locked
<1>6. Deciding(q) => Locked(q)
  BY <1>2 DEF Deciding, Locked, LocalsSet
<1>7. LockHeld(q)'
  BY <1>1, <1>3, <1>4 DEF LockHeld, Locked
<1>8. ListingCurrent(q)'
  BY <1>1, <1>2, <1>5 DEF Tracks, ListingCurrent, Locked
<1>9. TerminalKnown(q)'
  <2>1. Deciding(q)' <=> Deciding(q)
    BY <1>1 DEF Deciding
  <2> QED
    BY <1>1, <1>2, <1>5, <1>6, <2>1 DEF Tracks, TerminalKnown, Terminal
<1>10. DraftFollows(q)' /\ ChannelMade(q)'
  BY <1>1, <1>2, <1>3 DEF Tracks, DraftFollows, ChannelMade
<1> QED
  BY <1>7, <1>8, <1>9, <1>10 DEF Tracks

(* A step that leaves locks, decisions and directories alone.              *)
LEMMA QuietTracks ==
    ASSUME ChainInv, NEW p \in Procs, Others(p), Tracks(p)', TypeInv',
           UNCHANGED <<lock, decisions, channelDir>>
    PROVE  ChainInv'
<1>1. \A q \in Procs \ {p} : Tracks(q)'
  BY OthersTrack
<1>2. ChannelsChained' /\ AbsentIsEmpty'
  BY DEF ChainInv, ChannelsChained, Chained, AbsentIsEmpty
<1> QED
  BY <1>1, <1>2 DEF ChainInv

LEMMA ReturnTracks ==
    ASSUME ChainInv, NEW p \in Procs, NEW result, Return(p, result), TypeInv',
           UNCHANGED <<decisions, channelDir>>
    PROVE  ChainInv'
<1>1. Others(p) /\ pc'[p] = "idle"
  BY DEF ChainInv, TypeInv, TypeOK, Return, Goto, Others
<1>2. \A c \in Channels : lock[c] \in Procs \ {p} => lock'[c] = lock[c]
  BY DEF Return
<1>3. \A q \in Procs \ {p} : Tracks(q)'
  BY <1>1, <1>2, OthersTrack
<1>4. Tracks(p)'
  BY <1>1 DEF Tracks, LockHeld, ListingCurrent, TerminalKnown, DraftFollows, ChannelMade,
              Locked, Deciding
<1>5. ChannelsChained' /\ AbsentIsEmpty'
  BY DEF ChainInv, ChannelsChained, Chained, AbsentIsEmpty
<1> QED
  BY <1>3, <1>4, <1>5 DEF ChainInv

LEMMA StepFacts ==
    ASSUME TypeInv, NEW p \in Procs, NEW label, NEW m, Goto(p, label), Remember(p, m),
           UNCHANGED job
    PROVE  pc'[p] = label /\ mem'[p] = m /\ job'[p] = job[p] /\ Others(p)
BY DEF TypeInv, TypeOK, Goto, Remember, Others

LEMMA MoveFacts ==
    ASSUME TypeInv, NEW p \in Procs, NEW label, Goto(p, label), UNCHANGED <<job, mem>>
    PROVE  pc'[p] = label /\ mem'[p] = mem[p] /\ job'[p] = job[p] /\ Others(p)
BY DEF TypeInv, TypeOK, Goto, Others

(* The new decision is the end of the chain: what os.link adds to it.      *)
LEMMA ChainExtends ==
    ASSUME NEW D \in SUBSET Decision, NEW t \in Decision \union {Genesis}, NEW d \in Decision,
           Chained(D), Terminal(t, D), d.seq = t.seq + 1, d.pred = t.id
    PROVE  Chained(D \union {d})
<1>1. CASE D = {} /\ t = Genesis
  BY <1>1 DEF Chained, Genesis
<1>2. CASE t \in D /\ \A e \in D : e.seq <= t.seq
  <2>1. \A e \in D : e.seq \in Nat /\ t.seq \in Nat /\ e.seq < d.seq
    BY <1>2 DEF Decision
  <2>2. \A e1, e2 \in D \union {d} : e1.seq = e2.seq => e1 = e2
    BY <2>1 DEF Chained
  <2>3. \A e \in D \union {d} : \/ e.seq = 1 /\ e.pred = 0
                                \/ \E b \in D \union {d} : e.seq = b.seq + 1 /\ e.pred = b.id
    BY <1>2 DEF Chained
  <2> QED
    BY <2>2, <2>3 DEF Chained
<1> QED
  BY <1>1, <1>2 DEF Terminal

LEMMA StepChain ==
    ASSUME ChainInv, NEW p \in Procs, Step(p), TypeInv'
    PROVE  ChainInv'
<1> USE DEF At, Quiet, storeVars
<1>0. TypeInv /\ LocalsSet(p) /\ Tracks(p) /\ mem[p] \in Memory /\ TypeOK
  BY OwnMemory DEF ChainInv, TypeInv
<1>1. CASE Refuse(p)
  BY <1>1, ReturnTracks DEF Refuse, Answer
<1>2. CASE ReportVerified(p)
  BY <1>2, ReturnTracks DEF ReportVerified, Answer
<1>3. CASE ReportChecked(p)
  BY <1>3, ReturnTracks DEF ReportChecked, Answer
<1>4. CASE ReportAccepted(p)
  BY <1>4, ReturnTracks DEF ReportAccepted, Answer
<1>5. CASE ReportUnchanged(p)
  BY <1>5, ReturnTracks DEF ReportUnchanged, Answer
<1>6. CASE WriteReceipt(p)
  BY <1>6, ReturnTracks DEF WriteReceipt, Answer
<1>7. CASE VerifyArtifacts(p)
  <2>1. pc'[p] = ("reread") /\ mem'[p] = mem[p] /\ job'[p] = job[p] /\ Others(p)
    BY <1>7, <1>0, MoveFacts DEF VerifyArtifacts
  <2>2. Tracks(p)'
    BY <1>7, <1>0, <2>1 DEF VerifyArtifacts, Tracks, LockHeld, ListingCurrent, TerminalKnown,
       DraftFollows, ChannelMade, Locked, Deciding, LocalsSet
  <2> QED
    BY <1>7, <2>1, <2>2, QuietTracks DEF VerifyArtifacts
<1>8. CASE RereadCandidate(p)
  <2>1. pc'[p] = ("manifests") /\ mem'[p] = mem[p] /\ job'[p] = job[p] /\ Others(p)
    BY <1>8, <1>0, MoveFacts DEF RereadCandidate
  <2>2. Tracks(p)'
    BY <1>8, <1>0, <2>1 DEF RereadCandidate, Tracks, LockHeld, ListingCurrent, TerminalKnown,
       DraftFollows, ChannelMade, Locked, Deciding, LocalsSet
  <2> QED
    BY <1>8, <2>1, <2>2, QuietTracks DEF RereadCandidate
<1>9. CASE ScanManifests(p)
  <2>1. pc'[p] = ("reviews") /\ mem'[p] = mem[p] /\ job'[p] = job[p] /\ Others(p)
    BY <1>9, <1>0, MoveFacts DEF ScanManifests
  <2>2. Tracks(p)'
    BY <1>9, <1>0, <2>1 DEF ScanManifests, Tracks, LockHeld, ListingCurrent, TerminalKnown,
       DraftFollows, ChannelMade, Locked, Deciding, LocalsSet
  <2> QED
    BY <1>9, <2>1, <2>2, QuietTracks DEF ScanManifests
<1>10. CASE ScanReviews(p)
  <2>1. pc'[p] = ("channel") /\ mem'[p] = mem[p] /\ job'[p] = job[p] /\ Others(p)
    BY <1>10, <1>0, MoveFacts DEF ScanReviews
  <2>2. Tracks(p)'
    BY <1>10, <1>0, <2>1 DEF ScanReviews, Tracks, LockHeld, ListingCurrent, TerminalKnown,
       DraftFollows, ChannelMade, Locked, Deciding, LocalsSet
  <2> QED
    BY <1>10, <2>1, <2>2, QuietTracks DEF ScanReviews
<1>11. CASE FindChannel(p)
  <2>1. pc'[p] = ("decisions") /\ mem'[p] = mem[p] /\ job'[p] = job[p] /\ Others(p)
    BY <1>11, <1>0, MoveFacts DEF FindChannel
  <2>2. Tracks(p)'
    BY <1>11, <1>0, <2>1 DEF FindChannel, Tracks, LockHeld, ListingCurrent, TerminalKnown,
       DraftFollows, ChannelMade, Locked, Deciding, LocalsSet
  <2> QED
    BY <1>11, <2>1, <2>2, QuietTracks DEF FindChannel
<1>12. CASE CheckReceipt(p)
  <2>1. pc'[p] = ("compare") /\ mem'[p] = mem[p] /\ job'[p] = job[p] /\ Others(p)
    BY <1>12, <1>0, MoveFacts DEF CheckReceipt
  <2>2. Tracks(p)'
    BY <1>12, <1>0, <2>1 DEF CheckReceipt, Tracks, LockHeld, ListingCurrent, TerminalKnown,
       DraftFollows, ChannelMade, Locked, Deciding, LocalsSet
  <2> QED
    BY <1>12, <2>1, <2>2, QuietTracks DEF CheckReceipt
<1>13. CASE HaveChannel(p)
  <2>1. pc'[p] = ("consume") /\ mem'[p] = mem[p] /\ job'[p] = job[p] /\ Others(p)
    BY <1>13, <1>0, MoveFacts DEF HaveChannel
  <2>2. Tracks(p)'
    BY <1>13, <1>0, <2>1 DEF HaveChannel, Tracks, LockHeld, ListingCurrent, TerminalKnown,
       DraftFollows, ChannelMade, Locked, Deciding, LocalsSet
  <2> QED
    BY <1>13, <2>1, <2>2, QuietTracks DEF HaveChannel
<1>14. CASE ReplacePointer(p)
  <2>1. pc'[p] = ("manifests") /\ mem'[p] = mem[p] /\ job'[p] = job[p] /\ Others(p)
    BY <1>14, <1>0, MoveFacts DEF ReplacePointer
  <2>2. Tracks(p)'
    BY <1>14, <1>0, <2>1 DEF ReplacePointer, Tracks, LockHeld, ListingCurrent, TerminalKnown,
       DraftFollows, ChannelMade, Locked, Deciding, LocalsSet
  <2> QED
    BY <1>14, <2>1, <2>2, QuietTracks DEF ReplacePointer
<1>15. CASE LinkManifest(p)
  <2>1. pc'[p] = ("unlink") /\ mem'[p] = mem[p] /\ job'[p] = job[p] /\ Others(p)
    BY <1>15, <1>0, MoveFacts DEF LinkManifest, Link
  <2>2. Tracks(p)'
    BY <1>15, <1>0, <2>1 DEF LinkManifest, Link, Tracks, LockHeld, ListingCurrent,
       TerminalKnown, DraftFollows, ChannelMade, Locked, Deciding, LocalsSet
  <2> QED
    BY <1>15, <2>1, <2>2, QuietTracks DEF LinkManifest, Link
<1>16. CASE LinkReview(p)
  <2>1. pc'[p] = ("unlink") /\ mem'[p] = mem[p] /\ job'[p] = job[p] /\ Others(p)
    BY <1>16, <1>0, MoveFacts DEF LinkReview, Link
  <2>2. Tracks(p)'
    BY <1>16, <1>0, <2>1 DEF LinkReview, Link, Tracks, LockHeld, ListingCurrent,
       TerminalKnown, DraftFollows, ChannelMade, Locked, Deciding, LocalsSet
  <2> QED
    BY <1>16, <2>1, <2>2, QuietTracks DEF LinkReview, Link
<1>17. CASE CreateTemp(p)
  <2>1. pc'[p] = (IF mem[p].writing = "pointer" THEN "replace" ELSE "link") /\ mem'[p] = mem[p]
     /\ job'[p] = job[p] /\ Others(p)
    BY <1>17, <1>0, MoveFacts DEF CreateTemp
  <2>2. Tracks(p)'
    BY <1>17, <1>0, <2>1 DEF CreateTemp, Tracks, LockHeld, ListingCurrent, TerminalKnown,
       DraftFollows, ChannelMade, Locked, Deciding, LocalsSet
  <2> QED
    BY <1>17, <2>1, <2>2, QuietTracks DEF CreateTemp
<1>18. CASE ReadCandidate(p)
  <2> DEFINE m == [mem[p] EXCEPT !.before = candidate[job[p].path]]
  <2>1. pc'[p] = "parse" /\ mem'[p] = m /\ job'[p] = job[p] /\ Others(p)
    BY <1>18, <1>0, StepFacts DEF ReadCandidate
  <2>2. Tracks(p)'
    BY <1>18, <1>0, <2>1 DEF ReadCandidate, Tracks, LockHeld, ListingCurrent, TerminalKnown,
       DraftFollows, ChannelMade, Locked, Deciding, LocalsSet, Memory
  <2> QED
    BY <1>18, <2>1, <2>2, QuietTracks DEF ReadCandidate
<1>19. CASE ParseCandidate(p)
  <2> DEFINE m == [mem[p] EXCEPT !.parsed = candidate[job[p].path]]
  <2>1. pc'[p] = "artifacts" /\ mem'[p] = m /\ job'[p] = job[p] /\ Others(p)
    BY <1>19, <1>0, StepFacts DEF ParseCandidate
  <2>2. Tracks(p)'
    BY <1>19, <1>0, <2>1 DEF ParseCandidate, Tracks, LockHeld, ListingCurrent, TerminalKnown,
       DraftFollows, ChannelMade, Locked, Deciding, LocalsSet, Memory
  <2> QED
    BY <1>19, <2>1, <2>2, QuietTracks DEF ParseCandidate
<1>20. CASE ReadDecisions(p)
  <2> DEFINE m == [mem[p] EXCEPT !.listed = decisions[job[p].channel]]
  <2>1. pc'[p] = "pointer" /\ mem'[p] = m /\ job'[p] = job[p] /\ Others(p)
    BY <1>20, <1>0, StepFacts DEF ReadDecisions
  <2>2. Tracks(p)'
    BY <1>20, <1>0, <2>1 DEF ReadDecisions, Tracks, LockHeld, ListingCurrent, TerminalKnown,
       DraftFollows, ChannelMade, Locked, Deciding, LocalsSet, Memory
  <2> QED
    BY <1>20, <2>1, <2>2, QuietTracks DEF ReadDecisions
<1>21. CASE ReadReceiptBytes(p)
  <2> DEFINE m == [mem[p] EXCEPT !.bytes = receipts[job[p].receipt]]
  <2>1. pc'[p] = "reload" /\ mem'[p] = m /\ job'[p] = job[p] /\ Others(p)
    BY <1>21, <1>0, StepFacts DEF ReadReceiptBytes
  <2>2. Tracks(p)'
    BY <1>21, <1>0, <2>1 DEF ReadReceiptBytes, Tracks, LockHeld, ListingCurrent,
       TerminalKnown, DraftFollows, ChannelMade, Locked, Deciding, LocalsSet, Memory
  <2> QED
    BY <1>21, <2>1, <2>2, QuietTracks DEF ReadReceiptBytes
<1>22. CASE LoadReceipt(p)
  <2> DEFINE m == [mem[p] EXCEPT !.receipt = receipts[job[p].receipt]]
  <2>1. pc'[p] = "load" /\ mem'[p] = m /\ job'[p] = job[p] /\ Others(p)
    BY <1>22, <1>0, StepFacts DEF LoadReceipt
  <2>2. Tracks(p)'
    BY <1>22, <1>0, <2>1 DEF LoadReceipt, Tracks, LockHeld, ListingCurrent, TerminalKnown,
       DraftFollows, ChannelMade, Locked, Deciding, LocalsSet, Memory
  <2> QED
    BY <1>22, <2>1, <2>2, QuietTracks DEF LoadReceipt
<1>23. CASE RecheckRelease(p)
  <2> DEFINE m == [mem[p] EXCEPT !.writing = "manifest"]
  <2>1. pc'[p] = "publish" /\ mem'[p] = m /\ job'[p] = job[p] /\ Others(p)
    BY <1>23, <1>0, StepFacts DEF RecheckRelease
  <2>2. Tracks(p)'
    BY <1>23, <1>0, <2>1 DEF RecheckRelease, Tracks, LockHeld, ListingCurrent, TerminalKnown,
       DraftFollows, ChannelMade, Locked, Deciding, LocalsSet, Memory
  <2> QED
    BY <1>23, <2>1, <2>2, QuietTracks DEF RecheckRelease
<1>24. CASE StoreReview(p)
  <2> DEFINE m == [mem[p] EXCEPT !.writing = "review"]
  <2>1. pc'[p] = "publish" /\ mem'[p] = m /\ job'[p] = job[p] /\ Others(p)
    BY <1>24, <1>0, StepFacts DEF StoreReview
  <2>2. Tracks(p)'
    BY <1>24, <1>0, <2>1 DEF StoreReview, Tracks, LockHeld, ListingCurrent, TerminalKnown,
       DraftFollows, ChannelMade, Locked, Deciding, LocalsSet, Memory
  <2> QED
    BY <1>24, <2>1, <2>2, QuietTracks DEF StoreReview
<1>25. CASE DraftDecision(p)
  <2> DEFINE m == [mem[p] EXCEPT !.writing = "decision", !.draft = NewDecision(p)]
  <2>1. pc'[p] = "publish" /\ mem'[p] = m /\ job'[p] = job[p] /\ Others(p)
    BY <1>25, <1>0, StepFacts DEF DraftDecision
  <2>2. Tracks(p)'
    BY <1>25, <1>0, <2>1 DEF DraftDecision, Tracks, LockHeld, ListingCurrent, TerminalKnown,
       DraftFollows, ChannelMade, Locked, Deciding, LocalsSet, Memory, NewDecision
  <2> QED
    BY <1>25, <2>1, <2>2, QuietTracks DEF DraftDecision
<1>26. CASE KeepRecord(p)
  <2>1. mem[p].writing \in {"manifest", "review"}
    BY <1>26, <1>0 DEF KeepRecord, Existing, Memory, RecordKinds
  <2>2. AfterRecord(p) = IF mem[p].writing = "manifest" THEN "current" ELSE "decide"
    BY <2>1, AfterRecordLabels
  <2>3. pc'[p] = AfterRecord(p) /\ mem'[p] = mem[p] /\ job'[p] = job[p] /\ Others(p)
    BY <1>26, <1>0, MoveFacts DEF KeepRecord
  <2>4. Tracks(p)'
    BY <1>26, <1>0, <2>1, <2>2, <2>3 DEF KeepRecord, Tracks, LockHeld, ListingCurrent,
       TerminalKnown, DraftFollows, ChannelMade, Locked, Deciding, LocalsSet
  <2> QED
    BY <1>26, <2>3, <2>4, QuietTracks DEF KeepRecord
<1>27. CASE UnlinkTemp(p)
  <2> DEFINE m == [mem[p] EXCEPT !.writing = IF @ = "decision" THEN "pointer" ELSE @]
  <2>1. mem[p].writing \in {"manifest", "review", "decision"}
    BY <1>27, <1>0 DEF UnlinkTemp, LocalsSet, Memory, RecordKinds
  <2>2. pc'[p] = AfterRecord(p) /\ mem'[p] = m /\ job'[p] = job[p] /\ Others(p)
    BY <1>27, <1>0, StepFacts DEF UnlinkTemp
  <2>3. pc'[p] = IF mem[p].writing = "manifest" THEN "current"
                 ELSE IF mem[p].writing = "review" THEN "decide" ELSE "publish"
    BY <2>1, <2>2, AfterRecordLabels
  <2>4. Tracks(p)'
    BY <1>27, <1>0, <2>1, <2>2, <2>3 DEF UnlinkTemp, Tracks, LockHeld, ListingCurrent,
       TerminalKnown, DraftFollows, ChannelMade, Locked, Deciding, LocalsSet, Memory
  <2> QED
    BY <1>27, <2>2, <2>4, QuietTracks DEF UnlinkTemp
<1>28. CASE DraftReceipt(p)
  <2>1. pc'[p] = "receipt" /\ job'[p] = job[p] /\ Others(p)
    BY <1>28, <1>0 DEF DraftReceipt, TypeOK, Goto, Remember, Others
  <2>2. Tracks(p)'
    BY <1>28, <1>0, <2>1 DEF DraftReceipt, Tracks, LockHeld, ListingCurrent, TerminalKnown,
       DraftFollows, ChannelMade, Locked, Deciding, LocalsSet
  <2> QED
    BY <1>28, <2>1, <2>2, QuietTracks DEF DraftReceipt
<1>29. CASE FindNoChannel(p)
  <2> DEFINE m == [mem[p] EXCEPT !.terminal = Genesis]
  <2>1. pc'[p] = AfterVerify(p) /\ mem'[p] = m /\ job'[p] = job[p] /\ Others(p)
    BY <1>29, <1>0, StepFacts DEF FindNoChannel
  <2>2. job[p] \in Job /\ Terminal(m.terminal, decisions[job[p].channel])
    BY <1>29, <1>0 DEF FindNoChannel, ChainInv, AbsentIsEmpty, Terminal, LocalsSet, Job, Memory
  <2>3. /\ AfterVerify(p) \in {"diff", "check", "report", "done", "bytes", "legacy"}
        /\ AfterVerify(p) = "report" <=> job[p].kind = "verify"
    BY <1>0, <2>2, AfterVerifyLabels DEF LocalsSet
  <2>4. Tracks(p)'
    BY <1>29, <1>0, <2>1, <2>2, <2>3 DEF FindNoChannel, Tracks, LockHeld, ListingCurrent,
       TerminalKnown, DraftFollows, ChannelMade, Locked, Deciding
  <2> QED
    BY <1>29, <2>1, <2>4, QuietTracks DEF FindNoChannel
<1>30. CASE ReadPointer(p)
  <2> DEFINE m == [mem[p] EXCEPT !.terminal = pointer[job[p].channel], !.listed = {}]
  <2>1. pc'[p] = AfterVerify(p) /\ mem'[p] = m /\ job'[p] = job[p] /\ Others(p)
    BY <1>30, <1>0, StepFacts DEF ReadPointer
  <2>2. /\ job[p] \in Job
        /\ job[p].kind # "verify" => Terminal(m.terminal, decisions[job[p].channel])
    <3>1. pc[p] = "pointer" /\ Objection(p) = "none" /\ job[p] \in Job
      BY <1>30, <1>0 DEF ReadPointer, LocalsSet
    <3>2. Terminal(pointer[job[p].channel], mem[p].listed)
      BY <3>1 DEF Objection, VerifyError
    <3>3. m.terminal = pointer[job[p].channel]
      BY <1>0 DEF Memory
    <3> QED
      BY <1>0, <3>1, <3>2, <3>3 DEF Tracks, ListingCurrent, Locked
  <2>3. /\ AfterVerify(p) \in {"diff", "check", "report", "done", "bytes", "legacy"}
        /\ AfterVerify(p) = "report" <=> job[p].kind = "verify"
    BY <1>0, <2>2, AfterVerifyLabels DEF LocalsSet
  <2>4. Tracks(p)'
    BY <1>30, <1>0, <2>1, <2>2, <2>3 DEF ReadPointer, Tracks, LockHeld, ListingCurrent,
       TerminalKnown, DraftFollows, ChannelMade, Locked, Deciding
  <2> QED
    BY <1>30, <2>1, <2>4, QuietTracks DEF ReadPointer
<1>31. CASE AcquireLock(p)
  <2>1. pc'[p] = "before" /\ mem'[p] = mem[p] /\ job'[p] = job[p] /\ Others(p)
    BY <1>31, <1>0, MoveFacts DEF AcquireLock
  <2>2. job[p].channel \in Channels /\ lock[job[p].channel] = NoProc
    BY <1>31, <1>0 DEF AcquireLock, LocalsSet, Job
  <2>3. Tracks(p)'
    BY <1>31, <1>0, <2>1, <2>2 DEF AcquireLock, TypeOK, Tracks, LockHeld, ListingCurrent,
       TerminalKnown, DraftFollows, ChannelMade, Locked, Deciding
  <2>4. \A c \in Channels : lock[c] \in Procs \ {p} => lock'[c] = lock[c]
    BY <1>31, <1>0, <2>2, ConstantsAssumption DEF AcquireLock, TypeOK
  <2>5. UNCHANGED <<decisions, channelDir>>
    BY <1>31 DEF AcquireLock
  <2>6. \A q \in Procs \ {p} : Tracks(q)'
    BY <2>1, <2>4, <2>5, OthersTrack
  <2> QED
    BY <2>3, <2>5, <2>6 DEF ChainInv, ChannelsChained, Chained, AbsentIsEmpty
<1>32. CASE MakeChannel(p)
  <2>1. pc'[p] = "mkdir" /\ mem'[p] = mem[p] /\ job'[p] = job[p] /\ Others(p)
    BY <1>32, <1>0, MoveFacts DEF MakeChannel
  <2>2. /\ job[p].channel \in Channels
        /\ channelDir' = [channelDir EXCEPT ![job[p].channel] = "bare"]
        /\ UNCHANGED <<lock, decisions>>
    BY <1>32, <1>0 DEF MakeChannel, LocalsSet, Job
  <2>3. \A c \in Channels : channelDir[c] # "absent" => channelDir'[c] # "absent"
    BY <1>0, <2>2 DEF TypeOK
  <2>4. Tracks(p)'
    BY <1>32, <1>0, <2>1, <2>2 DEF MakeChannel, TypeOK, Tracks, LockHeld, ListingCurrent,
       TerminalKnown, DraftFollows, ChannelMade, Locked, Deciding, LocalsSet
  <2>5. \A q \in Procs \ {p} : Tracks(q)'
    BY <2>1, <2>2, <2>3, OthersTrack
  <2> QED
    BY <2>2, <2>3, <2>4, <2>5 DEF ChainInv, ChannelsChained, Chained, AbsentIsEmpty
<1>33. CASE MakeDecisions(p)
  <2>1. pc'[p] = "consume" /\ mem'[p] = mem[p] /\ job'[p] = job[p] /\ Others(p)
    BY <1>33, <1>0, MoveFacts DEF MakeDecisions
  <2>2. /\ job[p].channel \in Channels
        /\ channelDir' = [channelDir EXCEPT ![job[p].channel] = "ready"]
        /\ UNCHANGED <<lock, decisions>>
    BY <1>33, <1>0 DEF MakeDecisions, LocalsSet, Job
  <2>3. \A c \in Channels : channelDir[c] # "absent" => channelDir'[c] # "absent"
    BY <1>0, <2>2 DEF TypeOK
  <2>4. Tracks(p)'
    BY <1>33, <1>0, <2>1, <2>2 DEF MakeDecisions, TypeOK, Tracks, LockHeld, ListingCurrent,
       TerminalKnown, DraftFollows, ChannelMade, Locked, Deciding, LocalsSet
  <2>5. \A q \in Procs \ {p} : Tracks(q)'
    BY <2>1, <2>2, <2>3, OthersTrack
  <2> QED
    BY <2>2, <2>3, <2>4, <2>5 DEF ChainInv, ChannelsChained, Chained, AbsentIsEmpty
<1>34. CASE LinkDecision(p)
  <2> DEFINE c == job[p].channel
             d == mem[p].draft
  <2>1. pc'[p] = "unlink" /\ mem'[p] = mem[p] /\ job'[p] = job[p] /\ Others(p)
    BY <1>34, <1>0, MoveFacts DEF LinkDecision, Link
  <2>2. /\ c \in Channels /\ d \in Decision /\ Locked(p)
        /\ pc[p] = "link" /\ mem[p].writing = "decision"
    BY <1>34, <1>0 DEF LinkDecision, Link, LocalsSet, Writing, Job, Locked
  <2>3. /\ lock[c] = p /\ channelDir[c] # "absent" /\ Terminal(mem[p].terminal, decisions[c])
        /\ d.seq = mem[p].terminal.seq + 1 /\ d.pred = mem[p].terminal.id
    BY <1>0, <2>2 DEF Tracks, LockHeld, ListingCurrent, TerminalKnown, DraftFollows,
       ChannelMade, Locked, Deciding
  <2>4. /\ decisions' = [decisions EXCEPT ![c] = @ \union {d}]
        /\ UNCHANGED <<lock, channelDir>>
    BY <1>34 DEF LinkDecision, Link
  <2>5. decisions'[c] = decisions[c] \union {d} /\ \A b \in Channels \ {c} : decisions'[b] =
     decisions[b]
    BY <1>0, <2>2, <2>4 DEF TypeOK
  <2>6. Chained(decisions'[c])
    <3>1. Chained(decisions[c]) /\ decisions[c] \in SUBSET Decision
          /\ mem[p].terminal \in Decision \union {Genesis}
      BY <1>0, <2>2 DEF ChainInv, ChannelsChained, TypeOK, Memory
    <3> QED
      BY <2>2, <2>3, <2>5, <3>1, ChainExtends
  <2>7. ChannelsChained' /\ AbsentIsEmpty'
    <3>1. \A b \in Channels : Chained(decisions'[b])
      BY <2>5, <2>6 DEF ChainInv, ChannelsChained
    <3> QED
      BY <2>3, <2>4, <2>5, <3>1 DEF ChainInv, ChannelsChained, AbsentIsEmpty, Chained
  <2>8. Tracks(p)'
    BY <1>0, <2>1, <2>2, <2>3, <2>4 DEF Tracks, LockHeld, ListingCurrent, TerminalKnown,
       DraftFollows, ChannelMade, Locked, Deciding
  <2>9. \A q \in Procs \ {p} : Tracks(q)'
    BY <2>1, <2>3, <2>4, <2>5, OthersTrack
  <2> QED
    BY <2>7, <2>8, <2>9 DEF ChainInv
<1> QED
  BY <1>1, <1>2, <1>3, <1>4, <1>5, <1>6, <1>7, <1>8, <1>9, <1>10, <1>11, <1>12, <1>13, <1>14,
     <1>15, <1>16, <1>17, <1>18, <1>19, <1>20, <1>21, <1>22, <1>23, <1>24, <1>25, <1>26,
        <1>27, <1>28, <1>29, <1>30, <1>31, <1>32, <1>33, <1>34 DEF Step

LEMMA NextChain ==
    ASSUME ChainInv, [Next]_vars PROVE ChainInv'
<1> USE DEF ownerVars, storeVars
<1>0. TypeInv'
  BY NextTypes DEF ChainInv
<1>1. ASSUME NEW p \in Procs, Start(p) PROVE ChainInv'
  <2>1. pc[p] = "idle" /\ Others(p) /\ pc'[p] \in {"lock", "manifests"} /\ mem'[p] = mem[p]
        /\ (pc'[p] = "manifests" => job'[p].kind = "verify")
        /\ UNCHANGED <<lock, decisions, channelDir>>
    BY <1>1 DEF Start, ChainInv, TypeInv, TypeOK, Goto, Others
  <2>2. Tracks(p)'
    BY <2>1 DEF Tracks, LockHeld, ListingCurrent, TerminalKnown, DraftFollows, ChannelMade,
                Locked, Deciding
  <2> QED
    BY <1>0, <2>1, <2>2, QuietTracks
<1>2. ASSUME NEW p \in Procs, Fail(p) \/ Crash(p) PROVE ChainInv'
  BY <1>0, <1>2, ReturnTracks DEF Fail, Crash
<1>3. CASE Rebuild \/ ChangeArtifact \/ UNCHANGED vars
  <2>1. UNCHANGED <<pc, job, mem, lock, decisions, channelDir>>
    BY <1>3 DEF Rebuild, ChangeArtifact, vars
  <2>2. \A p \in Procs : Tracks(p)'
    BY <2>1 DEF ChainInv, Tracks, LockHeld, ListingCurrent, TerminalKnown, DraftFollows,
                ChannelMade, Locked, Deciding, Terminal
  <2> QED
    BY <1>0, <2>1, <2>2 DEF ChainInv, ChannelsChained, Chained, AbsentIsEmpty
<1> QED
  BY <1>0, <1>1, <1>2, <1>3, StepChain DEF Next, AllIdle

(* The decisions of every channel form one hash chain, for any number of   *)
(* processes, commands, errors and kills.                                  *)
THEOREM ChainsNeverFork == Spec => []ChannelsChained
<1>1. Spec => []ChainInv
  BY InitialChain, NextChain, PTL DEF Spec
<1>2. ChainInv => ChannelsChained
  BY DEF ChainInv
<1> QED
  BY <1>1, <1>2, PTL

-----------------------------------------------------------------------------
(* What a command that holds the lock has checked, stored and linked, from *)
(* the step that established it until the step that makes use of it.       *)

(* accept_baseline after its checks of the receipt and of the ledger.      *)
Accepting(p) ==
    pc[p] \in {"compare", "publish", "link", "unlink", "current", "mkdir", "consume",
               "decide", "replace"}

Storing(p, kinds) == pc[p] \in {"publish", "link", "unlink"} /\ mem[p].writing \in kinds

(* The release is neither the current one nor stale: it will be recorded.  *)
Committed(p) ==
    \/ pc[p] \in {"mkdir", "consume", "decide", "replace"}
    \/ Storing(p, {"review", "decision", "pointer"})

(* The decision is linked and current.json does not designate it yet.      *)
Linked(p) ==
    \/ pc[p] = "replace"
    \/ pc[p] = "unlink" /\ mem[p].writing = "decision"
    \/ pc[p] = "publish" /\ mem[p].writing = "pointer"

Early == {"lock", "before", "parse", "artifacts", "reread"}
Verifying == {"manifests", "reviews", "channel", "decisions", "pointer"}

(* A receipt's predecessor is a decision of its channel and its project.   *)
Grounded(r) == r.pred # 0 => \E d \in decisions[r.channel] : d.id = r.pred /\ d.project = r.project

OwnProject(c) == \A d \in decisions[c] : d.project = ProjectOf[d.manifest]

(* The receipt: its bytes and its fields were read apart, and are the same *)
(* unless a command of another channel has replaced the file.              *)
ReceiptWritten(p) ==
    pc[p] = "receipt" => mem[p].receipt.channel = job[p].channel /\ Grounded(mem[p].receipt)

BytesRead(p) ==
    pc[p] = "reload" => \/ receipts[job[p].receipt] = mem[p].bytes
                        \/ receipts[job[p].receipt].channel # job[p].channel

ReceiptRead(p) ==
    pc[p] = "load" => \/ mem[p].receipt = mem[p].bytes
                      \/ mem[p].receipt.channel # job[p].channel

ReceiptChecked(p) ==
    Accepting(p) /\ job[p].kind = "accept" =>
        /\ mem[p].receipt = mem[p].bytes
        /\ ~Stale(job[p].channel, mem[p])

ReceiptGrounded(p) ==
    pc[p] \in Loaded /\ job[p].kind = "accept" => Grounded(mem[p].receipt)

LegacyChecked(p) ==
    Accepting(p) /\ job[p].kind = "legacy" =>
        mem[p].terminal = Genesis \/ mem[p].terminal.project = ProjectOf[mem[p].parsed]

KindKnown(p) == Accepting(p) => job[p].kind \in {"accept", "legacy"}

ProjectsKnown(p) ==
    Deciding(p) \/ (Locked(p) /\ pc[p] = "pointer") => OwnProject(job[p].channel)

Checks(p) ==
    /\ ReceiptWritten(p) /\ BytesRead(p) /\ ReceiptRead(p) /\ ReceiptChecked(p)
    /\ ReceiptGrounded(p) /\ LegacyChecked(p) /\ KindKnown(p) /\ ProjectsKnown(p)

(* What is stored before the decision is.                                  *)
NewRelease(p) == Committed(p) => mem[p].terminal.manifest # mem[p].before

ManifestStored(p) ==
    \/ Committed(p) \/ pc[p] = "current"
    \/ pc[p] = "unlink" /\ mem[p].writing = "manifest"
    => mem[p].before \in manifests

ReviewStored(p) ==
    /\ \/ pc[p] = "decide" \/ Storing(p, {"decision"})
       \/ pc[p] = "unlink" /\ mem[p].writing = "review"
    /\ job[p].kind = "accept"
    => \E r \in reviews : r.name = mem[p].receipt.id /\ r.content = mem[p].bytes

DraftKnown(p) ==
    pc[p] \in {"publish", "link"} /\ mem[p].writing = "decision" =>
        /\ mem[p].draft.review = IF job[p].kind = "accept" THEN mem[p].receipt.id ELSE 0
        /\ mem[p].draft.manifest = mem[p].before
        /\ mem[p].draft.project = ProjectOf[mem[p].parsed]
        /\ \A d \in decisions[job[p].channel] : d.id # mem[p].draft.id
        /\ mem[p].draft.id <= issued

Stores(p) == NewRelease(p) /\ ManifestStored(p) /\ ReviewStored(p) /\ DraftKnown(p)

(* current.json, before and after the decision is linked and published.    *)
PointerKnown(p) ==
    Deciding(p) \/ Linked(p) => pointer[job[p].channel] = mem[p].terminal

LinkedDraft(p) ==
    Linked(p) =>
        /\ mem[p].draft \in decisions[job[p].channel]
        /\ Terminal(mem[p].draft, decisions[job[p].channel])
        /\ mem[p].draft.seq = mem[p].terminal.seq + 1
        /\ mem[p].draft.manifest = mem[p].before
        /\ channelDir[job[p].channel] # "absent"

Published(p) ==
    pc[p] \in Verifying \union {"done"} /\ mem[p].draft # Genesis =>
        /\ pointer[job[p].channel] = mem[p].draft
        /\ mem[p].draft.manifest = mem[p].before
        /\ Terminal(mem[p].draft, decisions[job[p].channel])
        /\ channelDir[job[p].channel] # "absent"

DraftSet(p) ==
    /\ pc[p] \in Early => mem[p].draft = Genesis
    /\ pc[p] = "done" => mem[p].draft # Genesis

Silent(p) == pc[p] # "idle" => outcome[p] = "none"

Publishes(p) ==
    PointerKnown(p) /\ LinkedDraft(p) /\ Published(p) /\ DraftSet(p) /\ Silent(p)

Knows(p) == Checks(p) /\ Stores(p) /\ Publishes(p)

(* The store itself.                                                       *)
ReviewsNamed == \A r \in reviews : r.name = r.content.id

NamesUnique == \A r, s \in reviews : r.name = s.name => r = s

(* The part of Bound that does not depend on the candidate's bytes.        *)
Reviewed(c, d) ==
    d.review # 0 =>
        \E r \in reviews :
            /\ r.name = d.review
            /\ r.content.channel = c
            /\ r.content.project = d.project
            /\ r.content.manifest = d.manifest
            /\ r.content.pred = d.pred

DecisionsStored ==
    \A c \in Channels : \A d \in decisions[c] : d.manifest \in manifests /\ Reviewed(c, d)

DigestsUnique ==
    \A c \in Channels : \A d, e \in decisions[c] : (d.id = e.id => d = e) /\ d.id <= issued

ReceiptsGrounded ==
    \A r \in ReceiptPaths : receipts[r] # NoReceipt => Grounded(receipts[r])

AbsentHasNoPointer ==
    \A c \in Channels : channelDir[c] = "absent" => pointer[c] = Genesis

StoreOK ==
    /\ ReviewsNamed /\ NamesUnique /\ DecisionsStored /\ DigestsUnique
    /\ ReceiptsGrounded /\ AbsentHasNoPointer /\ ChannelKeepsProject

LedgerInv == ChainInv /\ StoreOK /\ \A p \in Procs : Knows(p)

-----------------------------------------------------------------------------
(* What a step of p may change of what the other processes rely on.        *)
Frame(p) ==
    /\ Others(p)
    /\ \A q \in Procs \ {p} : outcome'[q] = outcome[q]
    /\ manifests \subseteq manifests' /\ reviews \subseteq reviews' /\ issued <= issued'
    /\ \A c \in Channels :
          /\ decisions[c] \subseteq decisions'[c]
          /\ lock[c] # p => /\ decisions'[c] = decisions[c]
                            /\ pointer'[c] = pointer[c]
                            /\ channelDir'[c] = channelDir[c]
    /\ \A r \in ReceiptPaths :
          \/ receipts'[r] = receipts[r]
          \/ receipts'[r] \in Receipt /\ lock[receipts'[r].channel] = p

LEMMA QuietFrame ==
    ASSUME TypeInv, NEW p \in Procs, Others(p), \A q \in Procs \ {p} : outcome'[q] = outcome[q],
           UNCHANGED <<storeVars, receipts>>, issued <= issued'
    PROVE  Frame(p)
BY DEF Frame, storeVars

LEMMA OthersKnow ==
    ASSUME LedgerInv, TypeInv', NEW p \in Procs, Frame(p) PROVE \A q \in Procs \ {p} : Knows(q)'
<1> SUFFICES ASSUME NEW q \in Procs \ {p} PROVE Knows(q)'
  OBVIOUS
<1>1. pc'[q] = pc[q] /\ job'[q] = job[q] /\ mem'[q] = mem[q] /\ outcome'[q] = outcome[q]
  BY DEF Frame, Others
<1>2. Knows(q) /\ LocalsSet(q) /\ LockHeld(q)
  BY DEF LedgerInv, ChainInv, TypeInv, Tracks
<1>3. pc[q] # "idle" => job[q].channel \in Channels /\ job[q].receipt \in ReceiptPaths
  BY <1>2 DEF LocalsSet, Job
<1>4. Locked(q) => /\ lock[job[q].channel] = q
                   /\ decisions'[job[q].channel] = decisions[job[q].channel]
                   /\ pointer'[job[q].channel] = pointer[job[q].channel]
                   /\ channelDir'[job[q].channel] = channelDir[job[q].channel]
  BY <1>2, <1>3 DEF LockHeld, Locked, Frame
<1>5. \A r \in Receipt : Grounded(r) => Grounded(r)'
  BY DEF Frame, Grounded, Receipt
<1>6. Deciding(q) \/ Accepting(q) \/ Linked(q) \/ pc[q] = "receipt" => Locked(q)
  BY <1>2 DEF Deciding, Accepting, Linked, Locked, LocalsSet
<1>7. ReceiptWritten(q)' /\ ReceiptRead(q)'
  BY <1>1, <1>2, <1>5 DEF Knows, Checks, ReceiptWritten, ReceiptRead, LocalsSet
<1>8. BytesRead(q)'
  <2> SUFFICES ASSUME pc[q] = "reload" PROVE BytesRead(q)'
    BY <1>1 DEF BytesRead
  <2>1. Locked(q) /\ BytesRead(q)
    BY <1>2 DEF Locked, LocalsSet, Knows, Checks
  <2>2. CASE receipts'[job[q].receipt] = receipts[job[q].receipt]
    BY <1>1, <2>1, <2>2 DEF BytesRead
  <2>3. CASE lock[receipts'[job[q].receipt].channel] = p
    BY <1>1, <1>4, <2>1, <2>3 DEF BytesRead
  <2> QED
    BY <1>3, <2>1, <2>2, <2>3 DEF Frame, Locked
<1>9. ReceiptChecked(q)' /\ LegacyChecked(q)' /\ KindKnown(q)'
  BY <1>1, <1>2 DEF Knows, Checks, ReceiptChecked, LegacyChecked, KindKnown, Accepting, Stale,
                    ExactRetry
<1>10. ReceiptGrounded(q)'
  BY <1>1, <1>2, <1>5 DEF Knows, Checks, ReceiptGrounded, LocalsSet
<1>11. ProjectsKnown(q)'
  <2>1. Deciding(q)' <=> Deciding(q)
    BY <1>1 DEF Deciding
  <2> QED
    BY <1>1, <1>2, <1>4, <1>6, <2>1 DEF Knows, Checks, ProjectsKnown, OwnProject, Locked
<1>12. Stores(q)'
  <2>1. NewRelease(q)' /\ ManifestStored(q)'
    BY <1>1, <1>2 DEF Frame, Knows, Stores, NewRelease, ManifestStored, Committed, Storing
  <2>2. ReviewStored(q)'
    BY <1>1, <1>2 DEF Frame, Knows, Stores, ReviewStored, Storing
  <2>3. DraftKnown(q)'
    <3> SUFFICES ASSUME pc[q] \in {"publish", "link"}, mem[q].writing = "decision"
                 PROVE  DraftKnown(q)'
      BY <1>1 DEF DraftKnown
    <3>1. Locked(q) /\ mem[q].draft.id \in Nat /\ DraftKnown(q)
      BY <1>2 DEF Locked, LocalsSet, Writing, Decision, Knows, Stores
    <3>2. mem[q].draft.id <= issued'
      BY <3>1 DEF DraftKnown, Frame, LedgerInv, ChainInv, TypeInv, TypeOK
    <3> QED
      BY <1>1, <1>4, <3>1, <3>2 DEF DraftKnown
  <2> QED
    BY <2>1, <2>2, <2>3 DEF Stores
<1>13. Publishes(q)'
  <2>1. PointerKnown(q)'
    BY <1>1, <1>2, <1>4, <1>6 DEF Knows, Publishes, PointerKnown, Deciding, Linked
  <2>2. LinkedDraft(q)'
    BY <1>1, <1>2, <1>4, <1>6 DEF Knows, Publishes, LinkedDraft, Linked, Terminal
  <2>3. Published(q)'
    BY <1>1, <1>2, <1>4 DEF Knows, Publishes, Published, Terminal, Verifying, Locked, LocalsSet
  <2>4. DraftSet(q)' /\ Silent(q)'
    BY <1>1, <1>2 DEF Knows, Publishes, DraftSet, Silent
  <2> QED
    BY <2>1, <2>2, <2>3, <2>4 DEF Publishes
<1> QED
  BY <1>7, <1>8, <1>9, <1>10, <1>11, <1>12, <1>13 DEF Knows, Checks

LEMMA ReturnFrame ==
    ASSUME TypeInv, NEW p \in Procs, NEW result, Return(p, result)
    PROVE  /\ Others(p) /\ \A q \in Procs \ {p} : outcome'[q] = outcome[q]
           /\ pc'[p] = "idle" /\ outcome'[p] = result
BY DEF TypeInv, TypeOK, Return, Goto, Others

LEMMA LockHolder ==
    ASSUME LedgerInv, NEW p \in Procs, Locked(p)
    PROVE  job[p].channel \in Channels /\ lock[job[p].channel] = p
BY DEF LedgerInv, ChainInv, TypeInv, Tracks, LockHeld, Locked, LocalsSet, Job

LEMMA StepFrame ==
    ASSUME LedgerInv, NEW p \in Procs, Step(p) PROVE Frame(p)
<1> USE DEF At, Quiet, storeVars, Goto, Remember
<1>1. TypeInv /\ TypeOK /\ LocalsSet(p)
  BY DEF LedgerInv, ChainInv, TypeInv
<1>2. CASE Refuse(p) \/ ReportVerified(p) \/ ReportChecked(p) \/ ReportAccepted(p)
           \/ ReportUnchanged(p)
  <2>1. PICK result : Return(p, result)
    BY <1>2 DEF Refuse, ReportVerified, ReportChecked, ReportAccepted, ReportUnchanged, Answer
  <2>2. UNCHANGED <<storeVars, receipts, issued>>
    BY <1>2 DEF Refuse, ReportVerified, ReportChecked, ReportAccepted, ReportUnchanged, Answer
  <2> QED
    BY <1>1, <2>1, <2>2, ReturnFrame, QuietFrame DEF TypeOK
<1>3. CASE WriteReceipt(p)
  <2>1. Return(p, "reviewed") /\ UNCHANGED <<storeVars, issued>>
    BY <1>3 DEF WriteReceipt
  <2>2. /\ receipts' = [receipts EXCEPT ![job[p].receipt] = mem[p].receipt]
        /\ mem[p].receipt \in Receipt /\ mem[p].receipt.channel = job[p].channel /\ Locked(p)
    BY <1>1, <1>3 DEF WriteReceipt, LocalsSet, Locked, LedgerInv, Knows, Checks, ReceiptWritten
  <2>3. \A r \in ReceiptPaths : \/ receipts'[r] = receipts[r]
                                \/ receipts'[r] \in Receipt /\ lock[receipts'[r].channel] = p
    BY <1>1, <2>2, LockHolder DEF TypeOK
  <2> QED
    BY <1>1, <2>1, <2>3, ReturnFrame DEF Frame, TypeOK
<1>4. CASE AcquireLock(p)
  BY <1>1, <1>4 DEF AcquireLock, TypeOK, Others, Frame
<1>5. CASE \/ ReadCandidate(p) \/ ParseCandidate(p) \/ VerifyArtifacts(p) \/ RereadCandidate(p)
           \/ ScanManifests(p) \/ ScanReviews(p) \/ FindNoChannel(p) \/ FindChannel(p)
           \/ ReadDecisions(p) \/ ReadPointer(p)
  <2>1. Others(p) /\ UNCHANGED <<storeVars, receipts, issued, outcome>>
    BY <1>1, <1>5 DEF ReadCandidate, ParseCandidate, VerifyArtifacts, RereadCandidate,
       ScanManifests, ScanReviews, FindNoChannel, FindChannel, ReadDecisions, ReadPointer,
       TypeOK, Others
  <2> QED
    BY <1>1, <2>1, QuietFrame DEF TypeOK
<1>6. CASE \/ ReadReceiptBytes(p) \/ LoadReceipt(p) \/ CheckReceipt(p) \/ RecheckRelease(p)
           \/ KeepRecord(p) \/ CreateTemp(p) \/ UnlinkTemp(p) \/ HaveChannel(p) \/ StoreReview(p)
  <2>1. Others(p) /\ UNCHANGED <<storeVars, receipts, issued, outcome>>
    BY <1>1, <1>6 DEF ReadReceiptBytes, LoadReceipt, CheckReceipt, RecheckRelease, KeepRecord,
       CreateTemp, UnlinkTemp, HaveChannel, StoreReview, TypeOK, Others
  <2> QED
    BY <1>1, <2>1, QuietFrame DEF TypeOK
<1>7. CASE DraftReceipt(p) \/ DraftDecision(p)
  <2>1. Others(p) /\ UNCHANGED <<storeVars, receipts, outcome>> /\ issued' = issued + 1
    BY <1>1, <1>7 DEF DraftReceipt, DraftDecision, TypeOK, Others
  <2> QED
    BY <1>1, <2>1, QuietFrame DEF TypeOK
<1>8. CASE LinkManifest(p) \/ LinkReview(p)
  BY <1>1, <1>8 DEF LinkManifest, LinkReview, Link, TypeOK, Others, Frame
<1>9. CASE LinkDecision(p) \/ MakeChannel(p) \/ MakeDecisions(p) \/ ReplacePointer(p)
  <2>1. Locked(p)
    BY <1>1, <1>9 DEF LinkDecision, Link, MakeChannel, MakeDecisions, ReplacePointer, Locked,
       LocalsSet
  <2>2. job[p].channel \in Channels /\ lock[job[p].channel] = p
    BY <2>1, LockHolder
  <2>3. Others(p) /\ UNCHANGED <<outcome, receipts, issued>>
    BY <1>1, <1>9 DEF LinkDecision, Link, MakeChannel, MakeDecisions, ReplacePointer, TypeOK,
       Others
  <2>4. manifests \subseteq manifests' /\ reviews \subseteq reviews'
    BY <1>9 DEF LinkDecision, Link, MakeChannel, MakeDecisions, ReplacePointer
  <2>5. \A c \in Channels :
          /\ decisions[c] \subseteq decisions'[c]
          /\ lock[c] # p => /\ decisions'[c] = decisions[c]
                            /\ pointer'[c] = pointer[c]
                            /\ channelDir'[c] = channelDir[c]
    BY <1>1, <1>9, <2>2 DEF LinkDecision, Link, MakeChannel, MakeDecisions, ReplacePointer, TypeOK
  <2> QED
    BY <1>1, <2>3, <2>4, <2>5 DEF Frame, TypeOK
<1> QED
  BY <1>2, <1>3, <1>4, <1>5, <1>6, <1>7, <1>8, <1>9 DEF Step

(* What a step that is taken has not raised.                               *)
LEMMA NoObjection ==
    ASSUME NEW p, Objection(p) = "none"
    PROVE  /\ pc[p] = "decisions" =>
                /\ channelDir[job[p].channel] = "ready"
                /\ \A d \in decisions[job[p].channel] : Bound(job[p].channel, d)
           /\ pc[p] = "load" => ~Stale(job[p].channel, mem[p])
           /\ pc[p] = "legacy" /\ mem[p].terminal.seq > 0 =>
                mem[p].terminal.project = ProjectOf[mem[p].parsed]
           /\ pc[p] = "reread" => candidate[job[p].path] = mem[p].before
           /\ pc[p] = "diff" /\ mem[p].terminal.seq > 0 =>
                ProjectOf[mem[p].terminal.manifest] = ProjectOf[mem[p].parsed]
           /\ pc[p] = "check" => /\ mem[p].terminal.manifest = mem[p].before
                                 /\ mem[p].terminal.review # 0
BY DEF Objection, VerifyError, Rejected, AcceptError

LEMMA InitialKnowledge == Init => LedgerInv
<1> SUFFICES ASSUME Init PROVE LedgerInv
  OBVIOUS
<1>1. ChainInv
  BY InitialChain
<1>2. StoreOK
  BY DEF Init, StoreOK, ReviewsNamed, NamesUnique, DecisionsStored, DigestsUnique,
         ReceiptsGrounded, AbsentHasNoPointer, ChannelKeepsProject
<1>3. ASSUME NEW p \in Procs PROVE Knows(p)
  <2>1. pc[p] = "idle"
    BY DEF Init
  <2>2. Checks(p)
    BY <2>1 DEF Checks, ReceiptWritten, BytesRead, ReceiptRead, ReceiptChecked, ReceiptGrounded,
                LegacyChecked, KindKnown, ProjectsKnown, Accepting, Loaded, Deciding, Locked
  <2>3. Stores(p)
    BY <2>1 DEF Stores, NewRelease, ManifestStored, ReviewStored, DraftKnown, Committed, Storing
  <2>4. Publishes(p)
    BY <2>1 DEF Publishes, PointerKnown, LinkedDraft, Published, DraftSet, Silent, Deciding,
                Linked, Verifying, Early
  <2> QED
    BY <2>2, <2>3, <2>4 DEF Knows
<1> QED
  BY <1>1, <1>2, <1>3 DEF LedgerInv

-----------------------------------------------------------------------------
(* A command's own steps.                                                  *)

(* Nothing is known outside the part of a command that relies on it.       *)
LEMMA NothingKnown ==
    ASSUME NEW p, pc'[p] \in {"idle", "report"} \union Early \union (Verifying \ {"pointer"})
    PROVE  (Checks(p) /\ Stores(p) /\ PointerKnown(p) /\ LinkedDraft(p))'
<1> USE DEF Early, Verifying
<1>1. /\ ~Accepting(p)' /\ ~Deciding(p)' /\ ~Linked(p)' /\ ~Committed(p)'
      /\ pc'[p] \notin Loaded
  BY DEF Accepting, Deciding, Linked, Committed, Storing, Loaded
<1>2. Checks(p)'
  BY <1>1 DEF Checks, ReceiptWritten, BytesRead, ReceiptRead, ReceiptChecked, ReceiptGrounded,
              LegacyChecked, KindKnown, ProjectsKnown
<1>3. Stores(p)'
  BY <1>1 DEF Stores, NewRelease, ManifestStored, ReviewStored, DraftKnown, Storing
<1> QED
  BY <1>1, <1>2, <1>3 DEF PointerKnown, LinkedDraft

LEMMA IdleKnows ==
    ASSUME NEW p, pc'[p] = "idle" PROVE Knows(p)'
BY NothingKnown DEF Knows, Publishes, Published, DraftSet, Silent, Verifying, Early

(* A command before and during its verification of the ledger.             *)
LEMMA VerificationKnows ==
    ASSUME LedgerInv, NEW p \in Procs,
           \/ AcquireLock(p) \/ ReadCandidate(p) \/ ParseCandidate(p) \/ VerifyArtifacts(p)
           \/ RereadCandidate(p) \/ ScanManifests(p) \/ ScanReviews(p) \/ FindChannel(p)
           \/ ReadDecisions(p)
    PROVE  Knows(p)'
<1> USE DEF At, Quiet, storeVars
<1>1. /\ TypeInv /\ TypeOK /\ LocalsSet(p) /\ mem[p] \in Memory
      /\ DraftSet(p) /\ Silent(p) /\ Published(p)
  BY OwnMemory DEF LedgerInv, ChainInv, TypeInv, Knows, Publishes
<1>2. CASE AcquireLock(p) \/ ReadCandidate(p) \/ ParseCandidate(p) \/ VerifyArtifacts(p)
  <2>1. /\ pc'[p] \in Early \ {"lock"} /\ mem'[p].draft = Genesis /\ outcome'[p] = "none"
    BY <1>1, <1>2 DEF AcquireLock, ReadCandidate, ParseCandidate, VerifyArtifacts, TypeOK,
       Goto, Remember, Memory, DraftSet, Silent, Early
  <2> QED
    BY <2>1, NothingKnown DEF Knows, Publishes, Published, DraftSet, Silent, Early, Verifying
<1>3. CASE RereadCandidate(p)
  <2>1. /\ pc'[p] = "manifests" /\ mem'[p].draft = Genesis /\ outcome'[p] = "none"
    BY <1>1, <1>3 DEF RereadCandidate, TypeOK, Goto, DraftSet, Silent, Early
  <2> QED
    BY <2>1, NothingKnown DEF Knows, Publishes, Published, DraftSet, Silent, Early, Verifying
<1>4. CASE ScanManifests(p) \/ ScanReviews(p) \/ FindChannel(p)
  <2>1. /\ pc[p] \in Verifying /\ pc'[p] \in Verifying \ {"pointer"}
        /\ UNCHANGED <<mem, job, outcome, decisions, channelDir, pointer>>
    BY <1>1, <1>4 DEF ScanManifests, ScanReviews, FindChannel, TypeOK, Goto, Verifying
  <2>2. Published(p)'
    BY <1>1, <2>1 DEF Published, Terminal
  <2> QED
    BY <1>1, <2>1, <2>2, NothingKnown DEF Knows, Publishes, DraftSet, Silent, Early, Verifying
<1>5. CASE ReadDecisions(p)
  <2>1. /\ pc[p] = "decisions" /\ Objection(p) = "none" /\ pc'[p] = "pointer"
        /\ mem'[p].draft = mem[p].draft /\ mem'[p].before = mem[p].before
        /\ UNCHANGED <<job, outcome, decisions, channelDir, pointer>>
    BY <1>1, <1>5 DEF ReadDecisions, TypeOK, Goto, Remember, Memory
  <2>2. ProjectsKnown(p)'
    <3>1. OwnProject(job[p].channel)
      BY <2>1, NoObjection DEF OwnProject, Bound
    <3> QED
      BY <2>1, <3>1 DEF ProjectsKnown, OwnProject
  <2>3. Checks(p)' /\ Stores(p)'
    BY <2>1, <2>2 DEF Checks, ReceiptWritten, BytesRead, ReceiptRead, ReceiptChecked, Loaded,
       ReceiptGrounded, LegacyChecked, KindKnown, Accepting, Stores, NewRelease,
       ManifestStored, ReviewStored, DraftKnown, Committed, Storing
  <2>4. Publishes(p)'
    BY <1>1, <2>1 DEF Publishes, PointerKnown, LinkedDraft, Published, Terminal, DraftSet,
       Silent, Deciding, Linked, Verifying, Early
  <2> QED
    BY <2>3, <2>4 DEF Knows
<1> QED
  BY <1>2, <1>3, <1>4, <1>5

(* The verification has found the terminal decision.                       *)
LEMMA VerifiedKnows ==
    ASSUME LedgerInv, NEW p \in Procs, FindNoChannel(p) \/ ReadPointer(p) PROVE Knows(p)'
<1> USE DEF At, Quiet, storeVars
<1>1. /\ TypeInv /\ TypeOK /\ LocalsSet(p) /\ mem[p] \in Memory /\ job[p] \in Job
      /\ DraftSet(p) /\ Silent(p) /\ Published(p) /\ ProjectsKnown(p)
      /\ pc[p] \in {"channel", "pointer"} /\ job[p].channel \in Channels
  BY OwnMemory DEF LedgerInv, ChainInv, TypeInv, Knows, Publishes, Checks, FindNoChannel,
     ReadPointer, LocalsSet, Job
<1>2. /\ AfterVerify(p) \in {"diff", "check", "report", "done", "bytes", "legacy"}
      /\ AfterVerify(p) # "report" <=> job[p].kind # "verify"
  BY <1>1, AfterVerifyLabels DEF LocalsSet
<1>3. AfterVerify(p) = "done" => mem[p].draft # Genesis
  BY <1>1 DEF AfterVerify, Job
<1>4. /\ pc'[p] = AfterVerify(p) /\ mem'[p].draft = mem[p].draft
      /\ mem'[p].before = mem[p].before /\ mem'[p].terminal = pointer[job[p].channel]
      /\ UNCHANGED <<job, outcome, decisions, channelDir, pointer>>
  <2>1. CASE FindNoChannel(p)
    <3>1. pointer[job[p].channel] = Genesis
      BY <1>1, <2>1 DEF FindNoChannel, LedgerInv, StoreOK, AbsentHasNoPointer
    <3> QED
      BY <1>1, <2>1, <3>1 DEF FindNoChannel, TypeOK, Goto, Remember, Memory
  <2>2. CASE ReadPointer(p)
    <3> DEFINE m == [mem[p] EXCEPT !.terminal = pointer[job[p].channel], !.listed = {}]
    <3>1. /\ m.draft = mem[p].draft /\ m.before = mem[p].before
          /\ m.terminal = pointer[job[p].channel]
      BY <1>1 DEF Memory
    <3>2. pc'[p] = AfterVerify(p) /\ mem'[p] = m
      BY <1>1, <2>2, StepFacts DEF ReadPointer
    <3> QED
      BY <2>2, <3>1, <3>2 DEF ReadPointer
  <2> QED
    BY <2>1, <2>2
<1>5. job[p].kind # "verify" => OwnProject(job[p].channel)
  BY <1>1 DEF FindNoChannel, ReadPointer, LedgerInv, ChainInv, AbsentIsEmpty, OwnProject,
              ProjectsKnown, Locked
<1>6. Checks(p)'
  <2>1. ProjectsKnown(p)'
    BY <1>2, <1>4, <1>5 DEF ProjectsKnown, OwnProject, Deciding, Locked
  <2> QED
    BY <1>2, <1>4, <2>1 DEF Checks, ReceiptWritten, BytesRead, ReceiptRead, ReceiptChecked,
       ReceiptGrounded, LegacyChecked, KindKnown, Accepting, Loaded
<1>7. Stores(p)'
  BY <1>2, <1>4 DEF Stores, NewRelease, ManifestStored, ReviewStored, DraftKnown, Committed,
     Storing
<1>8. Publishes(p)'
  <2>1. PointerKnown(p)'
    BY <1>4 DEF PointerKnown
  <2>2. LinkedDraft(p)' /\ DraftSet(p)' /\ Silent(p)'
    BY <1>1, <1>2, <1>3, <1>4 DEF LinkedDraft, DraftSet, Silent, Linked, Early
  <2>3. Published(p)'
    BY <1>1, <1>2, <1>4 DEF Published, Terminal, Verifying
  <2> QED
    BY <2>1, <2>2, <2>3 DEF Publishes
<1> QED
  BY <1>6, <1>7, <1>8 DEF Knows

(* The receipt a review drafts: its predecessor is the terminal decision.  *)
LEMMA DraftReceiptKnows ==
    ASSUME LedgerInv, NEW p \in Procs, DraftReceipt(p) PROVE Knows(p)'
<1> USE DEF At, Quiet, storeVars
<1>1. /\ TypeInv /\ TypeOK /\ LocalsSet(p) /\ mem[p] \in Memory /\ pc[p] = "diff"
      /\ Objection(p) = "none" /\ Silent(p) /\ ProjectsKnown(p) /\ TerminalKnown(p)
  BY OwnMemory DEF LedgerInv, ChainInv, TypeInv, Knows, Publishes, Checks, DraftReceipt, Tracks
<1> DEFINE t == mem[p].terminal
           c == job[p].channel
<1>2. Terminal(t, decisions[c]) /\ OwnProject(c)
  BY <1>1 DEF TerminalKnown, ProjectsKnown, Deciding
<1>3. /\ pc'[p] = "receipt" /\ mem'[p].receipt.channel = c /\ mem'[p].receipt.pred = t.id
      /\ mem'[p].receipt.project = ProjectOf[mem[p].parsed]
      /\ UNCHANGED <<job, outcome, decisions>>
  BY <1>1 DEF DraftReceipt, TypeOK, Goto, Remember, Memory
<1>4. Grounded(mem[p].receipt)'
  <2> SUFFICES ASSUME t.id # 0
               PROVE  \E d \in decisions[c] : d.id = t.id /\ d.project = ProjectOf[mem[p].parsed]
    BY <1>3 DEF Grounded
  <2>1. t \in decisions[c] /\ t \in Decision
    BY <1>1, <1>2 DEF Terminal, Genesis, Memory
  <2>2. t.project = ProjectOf[t.manifest] /\ t.seq > 0
    BY <1>2, <2>1 DEF OwnProject, Decision
  <2>3. ProjectOf[t.manifest] = ProjectOf[mem[p].parsed]
    BY <1>1, <2>2, NoObjection
  <2> QED
    BY <2>1, <2>2, <2>3
<1>5. Checks(p)'
  BY <1>3, <1>4 DEF Checks, ReceiptWritten, BytesRead, ReceiptRead, ReceiptChecked, Loaded,
     ReceiptGrounded, LegacyChecked, KindKnown, ProjectsKnown, Accepting, Deciding
<1>6. Stores(p)' /\ Publishes(p)'
  BY <1>1, <1>3 DEF Stores, NewRelease, ManifestStored, ReviewStored, DraftKnown, Committed,
     Storing, Publishes, PointerKnown, LinkedDraft, Published, DraftSet, Silent, Deciding,
     Linked, Verifying, Early
<1> QED
  BY <1>5, <1>6 DEF Knows

(* What the steps of accept_baseline leave of the release it considers.    *)
SameRelease(p) ==
    /\ mem'[p].before = mem[p].before /\ mem'[p].parsed = mem[p].parsed
    /\ mem'[p].terminal = mem[p].terminal
    /\ mem'[p].bytes = mem[p].bytes /\ mem'[p].receipt = mem[p].receipt
    /\ job'[p] = job[p] /\ outcome'[p] = outcome[p]

LEMMA ChecksKept ==
    ASSUME LedgerInv, NEW p \in Procs, Frame(p), SameRelease(p),
           Accepting(p), pc[p] # "replace", Accepting(p)',
           Deciding(p)' => Deciding(p) /\ decisions'[job[p].channel] = decisions[job[p].channel]
    PROVE  Checks(p)'
<1>1. Checks(p) /\ LocalsSet(p)
  BY DEF LedgerInv, ChainInv, TypeInv, Knows
<1>2. ReceiptWritten(p)' /\ BytesRead(p)' /\ ReceiptRead(p)'
  BY DEF Accepting, ReceiptWritten, BytesRead, ReceiptRead
<1>3. ReceiptChecked(p)' /\ LegacyChecked(p)' /\ KindKnown(p)'
  BY <1>1 DEF Checks, ReceiptChecked, LegacyChecked, KindKnown, SameRelease, Stale, ExactRetry
<1>4. ReceiptGrounded(p)'
  <2>1. \A r \in Receipt : Grounded(r) => Grounded(r)'
    BY DEF Frame, Grounded, Receipt
  <2>2. job[p].kind = "accept" => mem[p].receipt \in Receipt /\ Grounded(mem[p].receipt)
    BY <1>1 DEF LocalsSet, Checks, ReceiptGrounded, Accepting, Loaded
  <2> QED
    BY <2>1, <2>2 DEF ReceiptGrounded, SameRelease
<1>5. ProjectsKnown(p)'
  BY <1>1 DEF Checks, ProjectsKnown, SameRelease, Accepting, OwnProject
<1> QED
  BY <1>2, <1>3, <1>4, <1>5 DEF Checks

(* accept_baseline reads its receipt and checks it.                        *)
LEMMA ReceiptKnows ==
    ASSUME LedgerInv, NEW p \in Procs,
           ReadReceiptBytes(p) \/ LoadReceipt(p) \/ CheckReceipt(p)
    PROVE  Knows(p)'
<1> USE DEF At, Quiet, storeVars
<1>1. /\ TypeInv /\ TypeOK /\ LocalsSet(p) /\ mem[p] \in Memory
      /\ pc[p] \in {"bytes", "reload", "load"} /\ Objection(p) = "none" /\ job[p] \in Job
      /\ Checks(p) /\ Silent(p) /\ PointerKnown(p)
  BY OwnMemory DEF LedgerInv, ChainInv, TypeInv, Knows, Publishes, ReadReceiptBytes,
     LoadReceipt, CheckReceipt, LocalsSet
<1>2. /\ mem'[p].before = mem[p].before /\ mem'[p].parsed = mem[p].parsed
      /\ mem'[p].terminal = mem[p].terminal /\ pc'[p] \in {"reload", "load", "compare"}
      /\ UNCHANGED <<job, outcome, receipts, decisions, channelDir, pointer>>
  BY <1>1 DEF ReadReceiptBytes, LoadReceipt, CheckReceipt, TypeOK, Goto, Remember, Memory
<1>3. ProjectsKnown(p)' /\ ReceiptWritten(p)' /\ LegacyChecked(p)' /\ KindKnown(p)'
  BY <1>1, <1>2 DEF Checks, ProjectsKnown, ReceiptWritten, LegacyChecked, KindKnown, Deciding,
     OwnProject, Accepting, LocalsSet
<1>4. Stores(p)'
  BY <1>2 DEF Stores, NewRelease, ManifestStored, ReviewStored, DraftKnown, Committed, Storing
<1>5. Publishes(p)'
  BY <1>1, <1>2 DEF Publishes, PointerKnown, LinkedDraft, Published, DraftSet, Silent,
     Deciding, Linked, Verifying, Early
<1>6. BytesRead(p)' /\ ReceiptRead(p)' /\ ReceiptChecked(p)' /\ ReceiptGrounded(p)'
  <2>1. CASE ReadReceiptBytes(p)
    <3>1. pc'[p] = "reload" /\ mem'[p].bytes = receipts[job[p].receipt]
      BY <1>1, <2>1 DEF ReadReceiptBytes, TypeOK, Goto, Remember, Memory
    <3> QED
      BY <1>2, <3>1 DEF BytesRead, ReceiptRead, ReceiptChecked, ReceiptGrounded, Accepting, Loaded
  <2>2. CASE LoadReceipt(p)
    <3>1. /\ pc[p] = "reload" /\ pc'[p] = "load" /\ mem'[p].bytes = mem[p].bytes
          /\ mem'[p].receipt = receipts[job[p].receipt]
      BY <1>1, <2>2 DEF LoadReceipt, TypeOK, Goto, Remember, Memory
    <3>2. Grounded(receipts[job[p].receipt])
      BY <1>1, <3>1 DEF LedgerInv, StoreOK, ReceiptsGrounded, LocalsSet, Job, Receipt, NoReceipt
    <3>3. BytesRead(p)' /\ ReceiptRead(p)' /\ ReceiptChecked(p)'
      BY <1>1, <1>2, <3>1 DEF Checks, BytesRead, ReceiptRead, ReceiptChecked, Accepting
    <3> QED
      BY <1>2, <3>1, <3>2, <3>3 DEF ReceiptGrounded, Grounded
  <2>3. CASE CheckReceipt(p)
    <3>1. pc[p] = "load" /\ pc'[p] = "compare" /\ mem'[p] = mem[p]
      BY <1>1, <2>3 DEF CheckReceipt, TypeOK, Goto
    <3>2. ~Stale(job[p].channel, mem[p])
      BY <1>1, <3>1, NoObjection
    <3>3. BytesRead(p)' /\ ReceiptRead(p)' /\ ReceiptChecked(p)'
      BY <1>1, <1>2, <3>1, <3>2 DEF Checks, BytesRead, ReceiptRead, ReceiptChecked, Stale,
         ExactRetry
    <3> QED
      BY <1>1, <1>2, <3>1, <3>3 DEF Checks, ReceiptGrounded, Grounded, Loaded
  <2> QED
    BY <2>1, <2>2, <2>3
<1> QED
  BY <1>3, <1>4, <1>5, <1>6 DEF Knows, Checks

(* accept_baseline's steps up to the decision.                             *)
LEMMA AcceptKnows ==
    ASSUME LedgerInv, NEW p \in Procs, Frame(p),
           \/ CreateTemp(p) \/ LinkManifest(p) \/ MakeChannel(p) \/ HaveChannel(p)
           \/ MakeDecisions(p) \/ StoreReview(p)
    PROVE  Knows(p)'
<1> USE DEF At, Quiet, storeVars
<1>1. /\ TypeInv /\ TypeOK /\ LocalsSet(p) /\ mem[p] \in Memory
      /\ Checks(p) /\ Stores(p) /\ Publishes(p)
  BY OwnMemory DEF LedgerInv, ChainInv, TypeInv, Knows
<1>2. CASE CreateTemp(p)
  <2>1. /\ pc[p] = "publish" /\ SameRelease(p)
        /\ pc'[p] = (IF mem[p].writing = "pointer" THEN "replace" ELSE "link")
        /\ mem'[p].writing = mem[p].writing /\ mem'[p].draft = mem[p].draft
        /\ UNCHANGED <<manifests, reviews, decisions, channelDir, pointer, issued>>
    BY <1>1, <1>2 DEF CreateTemp, SameRelease, TypeOK, Goto, Remember, Memory
  <2>2. Checks(p)'
    BY <1>1, <2>1, ChecksKept DEF Accepting, Deciding
  <2>3. Stores(p)'
    BY <1>1, <2>1 DEF Stores, NewRelease, ManifestStored, ReviewStored, DraftKnown, Committed,
       Storing, SameRelease
  <2>4. Publishes(p)'
    BY <1>1, <2>1 DEF Publishes, PointerKnown, LinkedDraft, Published, DraftSet, Silent, Deciding,
       Linked, Verifying, Early, SameRelease
  <2> QED
    BY <2>2, <2>3, <2>4 DEF Knows
<1>3. CASE LinkManifest(p)
  <2>1. /\ pc[p] = "link" /\ pc'[p] = "unlink" /\ SameRelease(p)
        /\ mem'[p].writing = mem[p].writing /\ mem'[p].draft = mem[p].draft
        /\ UNCHANGED <<reviews, decisions, channelDir, pointer, issued>>
        /\ mem[p].writing = "manifest" /\ mem[p].before \in manifests'
    BY <1>1, <1>3 DEF LinkManifest, Link, SameRelease, TypeOK, Goto, Remember, Memory
  <2>2. Checks(p)'
    BY <1>1, <2>1, ChecksKept DEF Accepting, Deciding
  <2>3. Stores(p)'
    BY <1>1, <2>1 DEF Stores, NewRelease, ManifestStored, ReviewStored, DraftKnown, Committed,
       Storing, SameRelease
  <2>4. Publishes(p)'
    BY <1>1, <2>1 DEF Publishes, PointerKnown, LinkedDraft, Published, DraftSet, Silent, Deciding,
       Linked, Verifying, Early, SameRelease
  <2> QED
    BY <2>2, <2>3, <2>4 DEF Knows
<1>4. CASE MakeChannel(p)
  <2>1. /\ pc[p] = "current" /\ pc'[p] = "mkdir" /\ SameRelease(p)
        /\ mem'[p].writing = mem[p].writing /\ mem'[p].draft = mem[p].draft
        /\ UNCHANGED <<manifests, reviews, decisions, pointer, issued>>
        /\ mem[p].terminal.manifest # mem[p].before
    BY <1>1, <1>4 DEF MakeChannel, SameRelease, TypeOK, Goto, Remember, Memory
  <2>2. Checks(p)'
    BY <1>1, <2>1, ChecksKept DEF Accepting, Deciding
  <2>3. Stores(p)'
    BY <1>1, <2>1 DEF Stores, NewRelease, ManifestStored, ReviewStored, DraftKnown, Committed,
       Storing, SameRelease
  <2>4. Publishes(p)'
    BY <1>1, <2>1 DEF Publishes, PointerKnown, LinkedDraft, Published, DraftSet, Silent, Deciding,
       Linked, Verifying, Early, SameRelease
  <2> QED
    BY <2>2, <2>3, <2>4 DEF Knows
<1>5. CASE HaveChannel(p)
  <2>1. /\ pc[p] = "current" /\ pc'[p] = "consume" /\ SameRelease(p)
        /\ mem'[p].writing = mem[p].writing /\ mem'[p].draft = mem[p].draft
        /\ UNCHANGED <<manifests, reviews, decisions, channelDir, pointer, issued>>
        /\ mem[p].terminal.manifest # mem[p].before
    BY <1>1, <1>5 DEF HaveChannel, SameRelease, TypeOK, Goto, Remember, Memory
  <2>2. Checks(p)'
    BY <1>1, <2>1, ChecksKept DEF Accepting, Deciding
  <2>3. Stores(p)'
    BY <1>1, <2>1 DEF Stores, NewRelease, ManifestStored, ReviewStored, DraftKnown, Committed,
       Storing, SameRelease
  <2>4. Publishes(p)'
    BY <1>1, <2>1 DEF Publishes, PointerKnown, LinkedDraft, Published, DraftSet, Silent, Deciding,
       Linked, Verifying, Early, SameRelease
  <2> QED
    BY <2>2, <2>3, <2>4 DEF Knows
<1>6. CASE MakeDecisions(p)
  <2>1. /\ pc[p] = "mkdir" /\ pc'[p] = "consume" /\ SameRelease(p)
        /\ mem'[p].writing = mem[p].writing /\ mem'[p].draft = mem[p].draft
        /\ UNCHANGED <<manifests, reviews, decisions, pointer, issued>>
    BY <1>1, <1>6 DEF MakeDecisions, SameRelease, TypeOK, Goto, Remember, Memory
  <2>2. Checks(p)'
    BY <1>1, <2>1, ChecksKept DEF Accepting, Deciding
  <2>3. Stores(p)'
    BY <1>1, <2>1 DEF Stores, NewRelease, ManifestStored, ReviewStored, DraftKnown, Committed,
       Storing, SameRelease
  <2>4. Publishes(p)'
    BY <1>1, <2>1 DEF Publishes, PointerKnown, LinkedDraft, Published, DraftSet, Silent, Deciding,
       Linked, Verifying, Early, SameRelease
  <2> QED
    BY <2>2, <2>3, <2>4 DEF Knows
<1>7. CASE StoreReview(p)
  <2>1. /\ pc[p] = "consume" /\ pc'[p] = "publish" /\ SameRelease(p)
        /\ mem'[p].writing = "review" /\ mem'[p].draft = mem[p].draft
        /\ UNCHANGED <<manifests, reviews, decisions, channelDir, pointer, issued>>
    BY <1>1, <1>7 DEF StoreReview, SameRelease, TypeOK, Goto, Remember, Memory
  <2>2. Checks(p)'
    BY <1>1, <2>1, ChecksKept DEF Accepting, Deciding
  <2>3. Stores(p)'
    BY <1>1, <2>1 DEF Stores, NewRelease, ManifestStored, ReviewStored, DraftKnown, Committed,
       Storing, SameRelease
  <2>4. Publishes(p)'
    BY <1>1, <2>1 DEF Publishes, PointerKnown, LinkedDraft, Published, DraftSet, Silent, Deciding,
       Linked, Verifying, Early, SameRelease
  <2> QED
    BY <2>2, <2>3, <2>4 DEF Knows
<1> QED
  BY <1>2, <1>3, <1>4, <1>5, <1>6, <1>7

LEMMA RecheckKnows ==
    ASSUME LedgerInv, NEW p \in Procs, Frame(p), RecheckRelease(p) PROVE Knows(p)'
<1> USE DEF At, Quiet, storeVars
<1>1. /\ TypeInv /\ TypeOK /\ LocalsSet(p) /\ mem[p] \in Memory
      /\ Checks(p) /\ Stores(p) /\ Publishes(p) /\ Objection(p) = "none"
  BY OwnMemory DEF LedgerInv, ChainInv, TypeInv, Knows, RecheckRelease
<1>2. /\ pc[p] \in {"compare", "legacy"} /\ pc'[p] = "publish" /\ SameRelease(p)
      /\ mem'[p].writing = "manifest" /\ mem'[p].draft = mem[p].draft
      /\ UNCHANGED <<manifests, reviews, decisions, channelDir, pointer, issued>>
  BY <1>1 DEF RecheckRelease, SameRelease, TypeOK, Goto, Remember, Memory
<1>3. Checks(p)'
  <2>1. CASE pc[p] = "compare"
    BY <1>2, <2>1, ChecksKept DEF Accepting, Deciding
  <2>2. CASE pc[p] = "legacy"
    <3>1. job[p].kind = "legacy" /\ ProjectsKnown(p)
      BY <1>1, <2>2 DEF LocalsSet, Checks
    <3>2. mem[p].terminal = Genesis \/ mem[p].terminal.project = ProjectOf[mem[p].parsed]
      <4>1. mem[p].terminal = Genesis \/ mem[p].terminal.seq > 0
        BY <1>1 DEF Memory, Decision
      <4> QED
        BY <1>1, <2>2, <4>1, NoObjection
    <3> QED
      BY <1>2, <2>2, <3>1, <3>2 DEF Checks, ReceiptWritten, BytesRead, ReceiptRead,
         ReceiptChecked, ReceiptGrounded, LegacyChecked, KindKnown, ProjectsKnown, Accepting,
         Deciding, OwnProject, SameRelease
  <2> QED
    BY <1>2, <2>1, <2>2
<1>4. Stores(p)'
  BY <1>1, <1>2 DEF Stores, NewRelease, ManifestStored, ReviewStored, DraftKnown, Committed,
     Storing, SameRelease
<1>5. Publishes(p)'
  BY <1>1, <1>2 DEF Publishes, PointerKnown, LinkedDraft, Published, DraftSet, Silent,
     Deciding, Linked, Verifying, Early, SameRelease
<1> QED
  BY <1>3, <1>4, <1>5 DEF Knows

(* A record that is stored already is the one accept_baseline would store. *)
LEMMA KeepKnows ==
    ASSUME LedgerInv, NEW p \in Procs, Frame(p), KeepRecord(p) PROVE Knows(p)'
<1> USE DEF At, Quiet, storeVars
<1>1. /\ TypeInv /\ TypeOK /\ LocalsSet(p) /\ mem[p] \in Memory
      /\ Checks(p) /\ Stores(p) /\ Publishes(p) /\ pc[p] = "publish"
  BY OwnMemory DEF LedgerInv, ChainInv, TypeInv, Knows, KeepRecord
<1>2. mem[p].writing \in {"manifest", "review"}
  BY <1>1 DEF KeepRecord, Existing, Memory, RecordKinds
<1>3. /\ pc'[p] = (IF mem[p].writing = "manifest" THEN "current" ELSE "decide")
      /\ mem'[p] = mem[p] /\ SameRelease(p)
      /\ UNCHANGED <<manifests, reviews, decisions, channelDir, pointer, issued>>
  BY <1>1, <1>2, AfterRecordLabels DEF KeepRecord, SameRelease, TypeOK, Goto
<1>4. mem[p].writing = "manifest" => mem[p].before \in manifests
  BY <1>1 DEF KeepRecord, Existing, Content
<1>5. mem[p].writing = "review" =>
        \E r \in reviews : r.name = mem[p].receipt.id /\ r.content = mem[p].bytes
  BY <1>1 DEF KeepRecord, Existing, Content
<1>6. Checks(p)'
  BY <1>1, <1>2, <1>3, ChecksKept DEF Accepting, Deciding
<1>7. Stores(p)'
  BY <1>1, <1>2, <1>3, <1>4, <1>5 DEF Stores, NewRelease, ManifestStored, ReviewStored,
     DraftKnown, Committed, Storing, SameRelease
<1>8. Publishes(p)'
  BY <1>1, <1>2, <1>3 DEF Publishes, PointerKnown, LinkedDraft, Published, DraftSet, Silent,
     Deciding, Linked, Verifying, Early, SameRelease
<1> QED
  BY <1>6, <1>7, <1>8 DEF Knows

LEMMA LinkReviewKnows ==
    ASSUME LedgerInv, NEW p \in Procs, Frame(p), LinkReview(p) PROVE Knows(p)'
<1> USE DEF At, Quiet, storeVars
<1>1. /\ TypeInv /\ TypeOK /\ LocalsSet(p) /\ mem[p] \in Memory
      /\ Checks(p) /\ Stores(p) /\ Publishes(p)
  BY OwnMemory DEF LedgerInv, ChainInv, TypeInv, Knows
<1>2. /\ pc[p] = "link" /\ mem[p].writing = "review" /\ pc'[p] = "unlink"
      /\ mem'[p] = mem[p] /\ SameRelease(p)
      /\ reviews' = reviews \union {[name |-> mem[p].receipt.id, content |-> mem[p].bytes]}
      /\ UNCHANGED <<manifests, decisions, channelDir, pointer, issued>>
  BY <1>1 DEF LinkReview, Link, SameRelease, TypeOK, Goto
<1>3. \E r \in reviews' : r.name = mem[p].receipt.id /\ r.content = mem[p].bytes
  <2> DEFINE r == [name |-> mem[p].receipt.id, content |-> mem[p].bytes]
  <2>1. r \in reviews' /\ r.name = mem[p].receipt.id /\ r.content = mem[p].bytes
    BY <1>2
  <2> QED
    BY <2>1
<1>4. Checks(p)'
  BY <1>1, <1>2, ChecksKept DEF Accepting, Deciding
<1>5. Stores(p)'
  BY <1>1, <1>2, <1>3 DEF Stores, NewRelease, ManifestStored, ReviewStored, DraftKnown,
     Committed, Storing, SameRelease
<1>6. Publishes(p)'
  BY <1>1, <1>2 DEF Publishes, PointerKnown, LinkedDraft, Published, DraftSet, Silent,
     Deciding, Linked, Verifying, Early, SameRelease
<1> QED
  BY <1>4, <1>5, <1>6 DEF Knows

LEMMA UnlinkKnows ==
    ASSUME LedgerInv, NEW p \in Procs, Frame(p), UnlinkTemp(p) PROVE Knows(p)'
<1> USE DEF At, Quiet, storeVars
<1>1. /\ TypeInv /\ TypeOK /\ LocalsSet(p) /\ mem[p] \in Memory
      /\ Checks(p) /\ Stores(p) /\ Publishes(p) /\ pc[p] = "unlink"
  BY OwnMemory DEF LedgerInv, ChainInv, TypeInv, Knows, UnlinkTemp
<1>2. mem[p].writing \in {"manifest", "review", "decision"}
  BY <1>1 DEF LocalsSet, Memory, RecordKinds
<1>3. /\ pc'[p] = (IF mem[p].writing = "manifest" THEN "current"
                   ELSE IF mem[p].writing = "review" THEN "decide" ELSE "publish")
      /\ mem'[p].writing = (IF mem[p].writing = "decision" THEN "pointer" ELSE mem[p].writing)
      /\ mem'[p].draft = mem[p].draft /\ SameRelease(p)
      /\ UNCHANGED <<manifests, reviews, decisions, channelDir, pointer, issued>>
  BY <1>1, <1>2, AfterRecordLabels DEF UnlinkTemp, SameRelease, TypeOK, Goto, Remember, Memory
<1>4. Checks(p)'
  BY <1>1, <1>2, <1>3, ChecksKept DEF Accepting, Deciding
<1>5. Stores(p)'
  BY <1>1, <1>2, <1>3 DEF Stores, NewRelease, ManifestStored, ReviewStored, DraftKnown,
     Committed, Storing, SameRelease
<1>6. Publishes(p)'
  BY <1>1, <1>2, <1>3 DEF Publishes, PointerKnown, LinkedDraft, Published, DraftSet, Silent,
     Deciding, Linked, Verifying, Early, SameRelease, Terminal
<1> QED
  BY <1>4, <1>5, <1>6 DEF Knows

(* The decision that is drafted: its digest is new.                        *)
LEMMA DraftDecisionKnows ==
    ASSUME LedgerInv, NEW p \in Procs, Frame(p), DraftDecision(p) PROVE Knows(p)'
<1> USE DEF At, Quiet, storeVars
<1>1. /\ TypeInv /\ TypeOK /\ LocalsSet(p) /\ mem[p] \in Memory /\ job[p] \in Job
      /\ Checks(p) /\ Stores(p) /\ Publishes(p) /\ pc[p] \in {"consume", "decide"}
      /\ job[p].channel \in Channels
  BY OwnMemory DEF LedgerInv, ChainInv, TypeInv, Knows, DraftDecision, LocalsSet, Job
<1> DEFINE m == [mem[p] EXCEPT !.writing = "decision", !.draft = NewDecision(p)]
<1>2. /\ pc'[p] = "publish" /\ mem'[p] = m /\ job' = job /\ outcome' = outcome
      /\ UNCHANGED <<manifests, reviews, decisions, channelDir, pointer>> /\ issued' = issued + 1
      /\ pc[p] = "decide" \/ (pc[p] = "consume" /\ job[p].kind = "legacy")
  BY <1>1, StepFacts DEF DraftDecision
<1>3. SameRelease(p) /\ mem'[p].writing = "decision" /\ mem'[p].draft = NewDecision(p)
  BY <1>1, <1>2 DEF SameRelease, Memory
<1>4. NewDecision(p).id = issued + 1 /\ \A d \in decisions[job[p].channel] : d.id # issued + 1
  <2>1. \A d \in decisions[job[p].channel] : d.id <= issued /\ d.id \in Nat
    BY <1>1 DEF LedgerInv, StoreOK, DigestsUnique, TypeOK, Decision
  <2> QED
    BY <1>1, <2>1 DEF NewDecision, TypeOK
<1>5. Checks(p)'
  BY <1>1, <1>2, <1>3, ChecksKept DEF Accepting, Deciding
<1>6. DraftKnown(p)'
  BY <1>1, <1>2, <1>3, <1>4 DEF DraftKnown, SameRelease, NewDecision, TypeOK
<1>7. NewRelease(p)' /\ ManifestStored(p)' /\ ReviewStored(p)'
  BY <1>1, <1>2, <1>3 DEF Stores, NewRelease, ManifestStored, ReviewStored, Committed,
     Storing, SameRelease
<1>8. Publishes(p)'
  BY <1>1, <1>2, <1>3 DEF Publishes, PointerKnown, LinkedDraft, Published, DraftSet, Silent,
     Deciding, Linked, Verifying, Early, SameRelease
<1> QED
  BY <1>5, <1>6, <1>7, <1>8 DEF Knows, Stores

(* os.link of the decision: it is the terminal one from then on.           *)
LEMMA LinkDecisionFacts ==
    ASSUME LedgerInv, NEW p \in Procs, LinkDecision(p)
    PROVE  /\ job[p].channel \in Channels /\ lock[job[p].channel] = p
           /\ pc[p] = "link" /\ mem[p].writing = "decision" /\ pc'[p] = "unlink"
           /\ mem'[p] = mem[p] /\ SameRelease(p) /\ Deciding(p) /\ Accepting(p) /\ Locked(p)
           /\ mem[p].draft \in Decision /\ mem[p].terminal \in Decision \union {Genesis}
           /\ decisions' = [decisions EXCEPT ![job[p].channel] = @ \union {mem[p].draft}]
           /\ decisions'[job[p].channel] = decisions[job[p].channel] \union {mem[p].draft}
           /\ \A c \in Channels \ {job[p].channel} : decisions'[c] = decisions[c]
           /\ UNCHANGED <<manifests, reviews, channelDir, pointer, issued, receipts>>
           /\ channelDir[job[p].channel] # "absent"
           /\ Terminal(mem[p].terminal, decisions[job[p].channel])
           /\ mem[p].draft.seq = mem[p].terminal.seq + 1
           /\ mem[p].draft.pred = mem[p].terminal.id
<1>1. /\ TypeInv /\ TypeOK /\ LocalsSet(p) /\ mem[p] \in Memory /\ Tracks(p)
  BY OwnMemory DEF LedgerInv, ChainInv, TypeInv
<1>2. /\ pc[p] = "link" /\ mem[p].writing = "decision" /\ pc'[p] = "unlink"
      /\ mem'[p] = mem[p] /\ SameRelease(p)
      /\ decisions' = [decisions EXCEPT ![job[p].channel] = @ \union {mem[p].draft}]
      /\ UNCHANGED <<manifests, reviews, channelDir, pointer, issued, receipts>>
  BY <1>1 DEF LinkDecision, Link, At, Quiet, SameRelease, TypeOK, Goto
<1>3. Deciding(p) /\ Accepting(p) /\ Locked(p)
  BY <1>1, <1>2 DEF Deciding, Accepting, Locked, LocalsSet
<1>4. job[p].channel \in Channels /\ lock[job[p].channel] = p
  BY <1>3, LockHolder
<1>5. mem[p].draft \in Decision /\ mem[p].terminal \in Decision \union {Genesis}
  BY <1>1, <1>2 DEF LocalsSet, Writing, Memory
<1>6. /\ decisions'[job[p].channel] = decisions[job[p].channel] \union {mem[p].draft}
      /\ \A c \in Channels \ {job[p].channel} : decisions'[c] = decisions[c]
  BY <1>1, <1>2, <1>4 DEF TypeOK
<1>7. /\ channelDir[job[p].channel] # "absent"
      /\ Terminal(mem[p].terminal, decisions[job[p].channel])
      /\ mem[p].draft.seq = mem[p].terminal.seq + 1
      /\ mem[p].draft.pred = mem[p].terminal.id
  BY <1>1, <1>2, <1>3 DEF Tracks, TerminalKnown, DraftFollows, ChannelMade
<1> QED
  BY <1>2, <1>3, <1>4, <1>5, <1>6, <1>7

LEMMA TerminalAdvances ==
    ASSUME NEW D \in SUBSET Decision, NEW t \in Decision \union {Genesis}, NEW d \in Decision,
           Terminal(t, D), d.seq = t.seq + 1
    PROVE  Terminal(d, D \union {d})
<1>1. \A e \in D : e.seq \in Nat /\ e.seq <= t.seq /\ t.seq \in Nat
  BY DEF Terminal, Decision
<1> QED
  BY <1>1 DEF Terminal, Decision

LEMMA LinkDecisionKnows ==
    ASSUME LedgerInv, NEW p \in Procs, Frame(p), LinkDecision(p) PROVE Knows(p)'
<1>1. /\ TypeOK /\ Checks(p) /\ Stores(p) /\ Publishes(p)
  BY DEF LedgerInv, ChainInv, TypeInv, Knows
<1> DEFINE c == job[p].channel
<1>2. /\ pc[p] = "link" /\ mem[p].writing = "decision" /\ pc'[p] = "unlink"
      /\ mem'[p] = mem[p] /\ SameRelease(p) /\ Accepting(p)
      /\ decisions'[c] = decisions[c] \union {mem[p].draft}
      /\ UNCHANGED <<manifests, reviews, channelDir, pointer>>
      /\ channelDir[c] # "absent" /\ mem[p].draft.seq = mem[p].terminal.seq + 1
  BY LinkDecisionFacts
<1>3. Terminal(mem[p].draft, decisions'[c])
  BY <1>1, LinkDecisionFacts, TerminalAdvances DEF TypeOK
<1>4. Checks(p)'
  BY <1>2, ChecksKept DEF Accepting, Deciding
<1>5. Stores(p)'
  BY <1>1, <1>2 DEF Stores, NewRelease, ManifestStored, ReviewStored, DraftKnown, Committed,
     Storing, SameRelease
<1>6. LinkedDraft(p)'
  BY <1>1, <1>2, <1>3 DEF LinkedDraft, Stores, DraftKnown, Terminal, SameRelease
<1>7. PointerKnown(p)'
  BY <1>1, <1>2 DEF Publishes, PointerKnown, Deciding, SameRelease
<1>8. Published(p)' /\ DraftSet(p)' /\ Silent(p)'
  BY <1>1, <1>2 DEF Publishes, Published, DraftSet, Silent, Verifying, Early, SameRelease
<1> QED
  BY <1>4, <1>5, <1>6, <1>7, <1>8 DEF Knows, Publishes

(* os.replace of current.json by the linked decision.                      *)
LEMMA ReplaceKnows ==
    ASSUME LedgerInv, NEW p \in Procs, ReplacePointer(p) PROVE Knows(p)'
<1> USE DEF At, Quiet, storeVars
<1>1. /\ TypeInv /\ TypeOK /\ LocalsSet(p) /\ Publishes(p) /\ pc[p] = "replace"
  BY DEF LedgerInv, ChainInv, TypeInv, Knows, ReplacePointer
<1>2. job[p].channel \in Channels /\ LinkedDraft(p) /\ Silent(p)
  BY <1>1 DEF LocalsSet, Job, Publishes
<1>3. /\ pc'[p] = "manifests" /\ mem'[p] = mem[p] /\ pointer'[job[p].channel] = mem[p].draft
      /\ UNCHANGED <<job, outcome, decisions, channelDir>>
  BY <1>1, <1>2 DEF ReplacePointer, TypeOK, Goto
<1>4. Published(p)'
  BY <1>1, <1>2, <1>3 DEF Published, LinkedDraft, Linked, Terminal
<1> QED
  BY <1>1, <1>2, <1>3, <1>4, NothingKnown DEF Knows, Publishes, DraftSet, Silent, Early, Verifying

LEMMA StartFacts ==
    ASSUME LedgerInv, NEW p \in Procs, Start(p) PROVE Knows(p)' /\ Frame(p)
<1>1. TypeInv /\ TypeOK /\ LocalsSet(p)
  BY DEF LedgerInv, ChainInv, TypeInv
<1>2. /\ pc[p] = "idle" /\ pc'[p] \in {"lock", "manifests"} /\ mem'[p] = mem[p]
      /\ outcome'[p] = "none" /\ mem[p] = Fresh
      /\ Others(p) /\ \A q \in Procs \ {p} : outcome'[q] = outcome[q]
      /\ UNCHANGED <<storeVars, receipts, issued>>
  BY <1>1 DEF Start, TypeOK, LocalsSet, Goto, Others
<1>3. mem'[p].draft = Genesis
  BY <1>2 DEF Fresh
<1> QED
  BY <1>1, <1>2, <1>3, NothingKnown, QuietFrame
     DEF Knows, Publishes, Published, DraftSet, Silent, Early, Verifying, TypeOK

-----------------------------------------------------------------------------
(* The store itself.                                                       *)
LEMMA GroundedKept ==
    ASSUME NEW p, Frame(p), NEW r \in Receipt, Grounded(r) PROVE Grounded(r)'
BY DEF Frame, Grounded, Receipt

LEMMA StoreKept ==
    ASSUME LedgerInv, TypeInv', UNCHANGED <<storeVars, receipts>>, issued <= issued'
    PROVE  StoreOK'
<1>1. StoreOK /\ TypeOK /\ TypeOK'
  BY DEF LedgerInv, ChainInv, TypeInv
<1>2. ReviewsNamed' /\ NamesUnique' /\ DecisionsStored'
  BY <1>1 DEF StoreOK, storeVars, ReviewsNamed, NamesUnique, DecisionsStored, Reviewed
<1>3. DigestsUnique'
  BY <1>1 DEF StoreOK, storeVars, DigestsUnique, TypeOK, Decision
<1>4. ReceiptsGrounded' /\ AbsentHasNoPointer' /\ ChannelKeepsProject'
  BY <1>1 DEF StoreOK, storeVars, ReceiptsGrounded, Grounded, AbsentHasNoPointer,
     ChannelKeepsProject
<1> QED
  BY <1>2, <1>3, <1>4 DEF StoreOK

LEMMA WriteReceiptStore ==
    ASSUME LedgerInv, TypeInv', NEW p \in Procs, WriteReceipt(p) PROVE StoreOK'
<1>1. /\ TypeOK /\ LocalsSet(p) /\ StoreOK /\ ReceiptWritten(p) /\ pc[p] = "receipt"
      /\ receipts' = [receipts EXCEPT ![job[p].receipt] = mem[p].receipt]
      /\ UNCHANGED <<manifests, reviews, channelDir, decisions, pointer, issued>>
  BY DEF LedgerInv, ChainInv, TypeInv, Knows, Checks, WriteReceipt, At, storeVars
<1>2. ReviewsNamed' /\ NamesUnique' /\ DecisionsStored' /\ DigestsUnique'
  BY <1>1 DEF StoreOK, ReviewsNamed, NamesUnique, DecisionsStored, Reviewed, DigestsUnique
<1>3. ReceiptsGrounded'
  BY <1>1 DEF StoreOK, ReceiptsGrounded, Grounded, ReceiptWritten, TypeOK
<1>4. AbsentHasNoPointer' /\ ChannelKeepsProject'
  BY <1>1 DEF StoreOK, AbsentHasNoPointer, ChannelKeepsProject
<1> QED
  BY <1>2, <1>3, <1>4 DEF StoreOK

LEMMA LinkManifestStore ==
    ASSUME LedgerInv, NEW p \in Procs, LinkManifest(p) PROVE StoreOK'
<1>1. /\ StoreOK /\ manifests \subseteq manifests'
      /\ UNCHANGED <<reviews, channelDir, decisions, pointer, issued, receipts>>
  BY DEF LedgerInv, LinkManifest, Link
<1>2. ReviewsNamed' /\ NamesUnique' /\ DecisionsStored' /\ DigestsUnique'
  BY <1>1 DEF StoreOK, ReviewsNamed, NamesUnique, DecisionsStored, Reviewed, DigestsUnique
<1>3. ReceiptsGrounded' /\ AbsentHasNoPointer' /\ ChannelKeepsProject'
  BY <1>1 DEF StoreOK, ReceiptsGrounded, Grounded, AbsentHasNoPointer, ChannelKeepsProject
<1> QED
  BY <1>2, <1>3 DEF StoreOK

(* A review is stored under the digest of the bytes that are stored: they  *)
(* are the bytes whose fields were checked.                                *)
LEMMA LinkReviewStore ==
    ASSUME LedgerInv, NEW p \in Procs, LinkReview(p) PROVE StoreOK'
<1> DEFINE r == [name |-> mem[p].receipt.id, content |-> mem[p].bytes]
<1>1. /\ StoreOK /\ LocalsSet(p) /\ ReceiptChecked(p) /\ pc[p] = "link" /\ mem[p].writing = "review"
      /\ Existing(p) = {} /\ reviews' = reviews \union {r}
      /\ UNCHANGED <<manifests, channelDir, decisions, pointer, issued, receipts>>
  BY DEF LedgerInv, ChainInv, TypeInv, Knows, Checks, LinkReview, Link, At
<1>2. job[p].kind = "accept" /\ mem[p].receipt = mem[p].bytes
  BY <1>1 DEF LocalsSet, Writing, ReceiptChecked, Accepting
<1>3. r.name = r.content.id /\ r.name = mem[p].receipt.id
  BY <1>2
<1>4. \A s \in reviews : s.name # r.name
  BY <1>1, <1>3 DEF Existing
<1> HIDE DEF r
<1>5. ReviewsNamed' /\ NamesUnique'
  BY <1>1, <1>3, <1>4 DEF StoreOK, ReviewsNamed, NamesUnique
<1>6. DecisionsStored' /\ DigestsUnique'
  BY <1>1 DEF StoreOK, DecisionsStored, Reviewed, DigestsUnique
<1>7. ReceiptsGrounded' /\ AbsentHasNoPointer' /\ ChannelKeepsProject'
  BY <1>1 DEF StoreOK, ReceiptsGrounded, Grounded, AbsentHasNoPointer, ChannelKeepsProject
<1> QED
  BY <1>5, <1>6, <1>7 DEF StoreOK

(* The decision that is linked: the receipt it names is stored and was     *)
(* written for this project, manifest and predecessor.                     *)
LEMMA LinkDecisionStore ==
    ASSUME LedgerInv, TypeInv', NEW p \in Procs, Frame(p), LinkDecision(p) PROVE StoreOK'
<1> DEFINE c == job[p].channel
           d == mem[p].draft
           t == mem[p].terminal
<1>1. /\ TypeOK /\ TypeOK' /\ StoreOK /\ LocalsSet(p) /\ Checks(p) /\ Stores(p)
  BY DEF LedgerInv, ChainInv, TypeInv, Knows
<1>2. /\ c \in Channels /\ pc[p] = "link" /\ mem[p].writing = "decision"
      /\ d \in Decision /\ t \in Decision \union {Genesis} /\ Accepting(p)
      /\ decisions'[c] = decisions[c] \union {d}
      /\ \A b \in Channels \ {c} : decisions'[b] = decisions[b]
      /\ UNCHANGED <<manifests, reviews, channelDir, pointer, issued, receipts>>
      /\ Terminal(t, decisions[c]) /\ d.pred = t.id
  BY LinkDecisionFacts
<1>3. /\ d.review = (IF job[p].kind = "accept" THEN mem[p].receipt.id ELSE 0)
      /\ d.manifest = mem[p].before /\ d.project = ProjectOf[mem[p].parsed]
      /\ \A e \in decisions[c] : e.id # d.id
      /\ d.id <= issued
  BY <1>1, <1>2 DEF Stores, DraftKnown
<1>4. mem[p].before \in manifests /\ t.manifest # mem[p].before
  BY <1>1, <1>2 DEF Stores, ManifestStored, NewRelease, Committed, Storing
<1>5. job[p].kind \in {"accept", "legacy"}
  BY <1>1, <1>2 DEF Checks, KindKnown
<1>6. job[p].kind = "accept" =>
        /\ mem[p].receipt \in Receipt /\ mem[p].receipt = mem[p].bytes
        /\ mem[p].receipt.channel = c /\ mem[p].receipt.project = d.project
        /\ mem[p].receipt.manifest = d.manifest /\ mem[p].receipt.pred = d.pred
        /\ Grounded(mem[p].receipt)
  <2> SUFFICES ASSUME job[p].kind = "accept"
               PROVE  /\ mem[p].receipt \in Receipt /\ mem[p].receipt = mem[p].bytes
                      /\ mem[p].receipt.channel = c /\ mem[p].receipt.project = d.project
                      /\ mem[p].receipt.manifest = d.manifest /\ mem[p].receipt.pred = d.pred
                      /\ Grounded(mem[p].receipt)
    OBVIOUS
  <2>1. mem[p].receipt \in Receipt /\ Grounded(mem[p].receipt)
    BY <1>1, <1>2 DEF LocalsSet, Loaded, Checks, ReceiptGrounded
  <2>2. mem[p].receipt = mem[p].bytes /\ ~Stale(c, mem[p])
    BY <1>1, <1>2 DEF Checks, ReceiptChecked
  <2> QED
    BY <1>2, <1>3, <1>4, <2>1, <2>2 DEF Stale, ExactRetry
<1>7. Reviewed(c, d)
  <2> SUFFICES ASSUME d.review # 0 PROVE Reviewed(c, d)
    BY DEF Reviewed
  <2>1. job[p].kind = "accept"
    BY <1>3
  <2>2. PICK r \in reviews : r.name = mem[p].receipt.id /\ r.content = mem[p].bytes
    BY <1>1, <1>2, <2>1 DEF Stores, ReviewStored, Storing
  <2> QED
    BY <1>3, <1>6, <2>1, <2>2 DEF Reviewed
<1>8. \A e \in decisions[c] : e.project = d.project
  <2> SUFFICES ASSUME NEW e \in decisions[c] PROVE e.project = d.project
    OBVIOUS
  <2>1. t \in decisions[c] /\ t \in Decision /\ t.id # 0 /\ t # Genesis /\ e.project = t.project
    BY <1>1, <1>2 DEF Terminal, TypeOK, StoreOK, ChannelKeepsProject, Decision, Genesis
  <2>2. CASE job[p].kind = "accept"
    <3>1. \E b \in decisions[c] : b.project = d.project
      BY <1>2, <1>6, <2>1, <2>2 DEF Grounded
    <3> QED
      BY <1>1, <1>2, <3>1 DEF StoreOK, ChannelKeepsProject
  <2>3. CASE job[p].kind = "legacy"
    BY <1>1, <1>2, <1>3, <2>1, <2>3 DEF Checks, LegacyChecked
  <2> QED
    BY <1>5, <2>2, <2>3
<1> HIDE DEF d, t, c
<1>9. ReviewsNamed' /\ NamesUnique' /\ AbsentHasNoPointer'
  BY <1>1, <1>2 DEF StoreOK, ReviewsNamed, NamesUnique, AbsentHasNoPointer
<1>10. DecisionsStored'
  <2>1. \A b \in Channels : \A e \in decisions'[b] : e.manifest \in manifests /\ Reviewed(b, e)
    BY <1>1, <1>2, <1>3, <1>4, <1>7 DEF StoreOK, DecisionsStored
  <2> QED
    BY <1>2, <2>1 DEF DecisionsStored, Reviewed
<1>11. DigestsUnique'
  BY <1>1, <1>2, <1>3 DEF StoreOK, DigestsUnique
<1>12. ReceiptsGrounded'
  BY <1>1, <1>2, GroundedKept DEF StoreOK, ReceiptsGrounded, TypeOK
<1>13. ChannelKeepsProject'
  BY <1>1, <1>2, <1>8 DEF StoreOK, ChannelKeepsProject
<1> QED
  BY <1>9, <1>10, <1>11, <1>12, <1>13 DEF StoreOK

LEMMA ReplaceStore ==
    ASSUME LedgerInv, NEW p \in Procs, ReplacePointer(p) PROVE StoreOK'
<1>1. /\ TypeOK /\ StoreOK /\ LocalsSet(p) /\ LinkedDraft(p) /\ pc[p] = "replace"
      /\ pointer' = [pointer EXCEPT ![job[p].channel] = mem[p].draft]
      /\ UNCHANGED <<manifests, reviews, channelDir, decisions, issued, receipts>>
  BY DEF LedgerInv, ChainInv, TypeInv, Knows, Publishes, ReplacePointer, At
<1>2. channelDir[job[p].channel] # "absent"
  BY <1>1 DEF LinkedDraft, Linked
<1>3. AbsentHasNoPointer'
  BY <1>1, <1>2 DEF StoreOK, AbsentHasNoPointer, TypeOK
<1>4. ReviewsNamed' /\ NamesUnique' /\ DecisionsStored' /\ DigestsUnique'
  BY <1>1 DEF StoreOK, ReviewsNamed, NamesUnique, DecisionsStored, Reviewed, DigestsUnique
<1>5. ReceiptsGrounded' /\ ChannelKeepsProject'
  BY <1>1 DEF StoreOK, ReceiptsGrounded, Grounded, ChannelKeepsProject
<1> QED
  BY <1>3, <1>4, <1>5 DEF StoreOK

LEMMA DirectoryStore ==
    ASSUME LedgerInv, NEW p \in Procs, MakeChannel(p) \/ MakeDecisions(p) PROVE StoreOK'
<1>1. /\ TypeOK /\ StoreOK /\ LocalsSet(p) /\ pc[p] # "idle"
      /\ UNCHANGED <<manifests, reviews, decisions, pointer, issued, receipts>>
      /\ \E s \in {"bare", "ready"} : channelDir' = [channelDir EXCEPT ![job[p].channel] = s]
  BY DEF LedgerInv, ChainInv, TypeInv, MakeChannel, MakeDecisions, At
<1>2. AbsentHasNoPointer'
  BY <1>1 DEF StoreOK, AbsentHasNoPointer, TypeOK
<1>3. ReviewsNamed' /\ NamesUnique' /\ DecisionsStored' /\ DigestsUnique'
  BY <1>1 DEF StoreOK, ReviewsNamed, NamesUnique, DecisionsStored, Reviewed, DigestsUnique
<1>4. ReceiptsGrounded' /\ ChannelKeepsProject'
  BY <1>1 DEF StoreOK, ReceiptsGrounded, Grounded, ChannelKeepsProject
<1> QED
  BY <1>2, <1>3, <1>4 DEF StoreOK

LEMMA StepLedger ==
    ASSUME LedgerInv, ChainInv', NEW p \in Procs, Step(p) PROVE LedgerInv'
<1> USE DEF storeVars
<1>1. Frame(p) /\ TypeInv /\ TypeInv'
  BY StepFrame DEF LedgerInv, ChainInv
<1>2. \A q \in Procs \ {p} : Knows(q)'
  BY <1>1, OthersKnow
<1>3. Knows(p)'
  <2>1. CASE \/ AcquireLock(p) \/ ReadCandidate(p) \/ ParseCandidate(p) \/ VerifyArtifacts(p)
             \/ RereadCandidate(p) \/ ScanManifests(p) \/ ScanReviews(p) \/ FindChannel(p)
             \/ ReadDecisions(p)
    BY <2>1, VerificationKnows
  <2>2. CASE FindNoChannel(p) \/ ReadPointer(p)
    BY <2>2, VerifiedKnows
  <2>3. CASE Refuse(p) \/ ReportVerified(p) \/ ReportChecked(p) \/ ReportAccepted(p)
             \/ ReportUnchanged(p) \/ WriteReceipt(p)
    <3>1. \E result : Return(p, result)
      BY <2>3 DEF Refuse, ReportVerified, ReportChecked, ReportAccepted, ReportUnchanged,
         WriteReceipt, Answer
    <3> QED
      BY <1>1, <3>1, ReturnFrame, IdleKnows
  <2>4. CASE DraftReceipt(p)
    BY <2>4, DraftReceiptKnows
  <2>5. CASE ReadReceiptBytes(p) \/ LoadReceipt(p) \/ CheckReceipt(p)
    BY <2>5, ReceiptKnows
  <2>6. CASE RecheckRelease(p)
    BY <1>1, <2>6, RecheckKnows
  <2>7. CASE KeepRecord(p)
    BY <1>1, <2>7, KeepKnows
  <2>8. CASE CreateTemp(p) \/ LinkManifest(p) \/ MakeChannel(p) \/ HaveChannel(p)
             \/ MakeDecisions(p) \/ StoreReview(p)
    BY <1>1, <2>8, AcceptKnows
  <2>9. CASE LinkReview(p)
    BY <1>1, <2>9, LinkReviewKnows
  <2>10. CASE LinkDecision(p)
    BY <1>1, <2>10, LinkDecisionKnows
  <2>11. CASE UnlinkTemp(p)
    BY <1>1, <2>11, UnlinkKnows
  <2>12. CASE DraftDecision(p)
    BY <1>1, <2>12, DraftDecisionKnows
  <2>13. CASE ReplacePointer(p)
    BY <2>13, ReplaceKnows
  <2> QED
    BY <2>1, <2>2, <2>3, <2>4, <2>5, <2>6, <2>7, <2>8, <2>9, <2>10, <2>11, <2>12, <2>13 DEF Step
<1>4. StoreOK'
  <2>1. CASE WriteReceipt(p)
    BY <1>1, <2>1, WriteReceiptStore
  <2>2. CASE LinkManifest(p)
    BY <2>2, LinkManifestStore
  <2>3. CASE LinkReview(p)
    BY <2>3, LinkReviewStore
  <2>4. CASE LinkDecision(p)
    BY <1>1, <2>4, LinkDecisionStore
  <2>5. CASE ReplacePointer(p)
    BY <2>5, ReplaceStore
  <2>6. CASE MakeChannel(p) \/ MakeDecisions(p)
    BY <2>6, DirectoryStore
  <2>7. CASE \/ AcquireLock(p) \/ Refuse(p)
             \/ ReadCandidate(p) \/ ParseCandidate(p) \/ VerifyArtifacts(p) \/ RereadCandidate(p)
             \/ ScanManifests(p) \/ ScanReviews(p) \/ FindNoChannel(p) \/ FindChannel(p)
             \/ ReadDecisions(p) \/ ReadPointer(p) \/ ReportVerified(p) \/ ReportChecked(p)
             \/ ReportAccepted(p) \/ ReportUnchanged(p) \/ DraftReceipt(p)
             \/ ReadReceiptBytes(p) \/ LoadReceipt(p) \/ CheckReceipt(p) \/ RecheckRelease(p)
             \/ KeepRecord(p) \/ CreateTemp(p) \/ UnlinkTemp(p) \/ HaveChannel(p)
             \/ StoreReview(p) \/ DraftDecision(p)
    <3>1. UNCHANGED <<storeVars, receipts>>
      BY <2>7 DEF AcquireLock, Refuse, ReadCandidate, ParseCandidate, VerifyArtifacts,
         RereadCandidate, ScanManifests, ScanReviews, FindNoChannel, FindChannel,
         ReadDecisions, ReadPointer, ReportVerified, ReportChecked, ReportAccepted,
         ReportUnchanged, Answer, DraftReceipt, ReadReceiptBytes, LoadReceipt, CheckReceipt,
         RecheckRelease, KeepRecord, CreateTemp, UnlinkTemp, HaveChannel, StoreReview,
         DraftDecision
    <3> QED
      BY <1>1, <3>1, StoreKept DEF Frame
  <2> QED
    BY <2>1, <2>2, <2>3, <2>4, <2>5, <2>6, <2>7 DEF Step
<1> QED
  BY <1>2, <1>3, <1>4 DEF LedgerInv

LEMMA NextLedger ==
    ASSUME LedgerInv, [Next]_vars PROVE LedgerInv'
<1> USE DEF storeVars
<1>1. ChainInv' /\ TypeInv' /\ TypeInv /\ TypeOK
  BY NextChain DEF LedgerInv, ChainInv, TypeInv
<1>2. ASSUME NEW p \in Procs, Start(p) PROVE LedgerInv'
  <2>1. Knows(p)' /\ Frame(p) /\ UNCHANGED <<storeVars, receipts, issued>>
    BY <1>2, StartFacts DEF Start
  <2> QED
    BY <1>1, <2>1, OthersKnow, StoreKept DEF LedgerInv, TypeOK
<1>3. ASSUME NEW p \in Procs, Fail(p) \/ Crash(p) PROVE LedgerInv'
  <2>1. (\E result : Return(p, result)) /\ UNCHANGED <<storeVars, receipts, issued>>
    BY <1>3 DEF Fail, Crash
  <2>2. Frame(p) /\ Knows(p)'
    BY <1>1, <2>1, ReturnFrame, QuietFrame, IdleKnows DEF TypeOK
  <2> QED
    BY <1>1, <2>1, <2>2, OthersKnow, StoreKept DEF LedgerInv, TypeOK
<1>4. CASE Rebuild \/ ChangeArtifact \/ UNCHANGED vars
  <2>1. UNCHANGED <<pc, job, mem, outcome, lock, storeVars, receipts, issued>>
    BY <1>4 DEF Rebuild, ChangeArtifact, vars
  <2>2. ASSUME NEW p \in Procs PROVE Knows(p)'
    <3>1. Knows(p)
      BY DEF LedgerInv
    <3>2. Checks(p)'
      BY <2>1, <3>1 DEF Knows, Checks, ReceiptWritten, BytesRead, ReceiptRead,
         ReceiptChecked, ReceiptGrounded, LegacyChecked, KindKnown, ProjectsKnown, Accepting,
         Deciding, Locked, Grounded, OwnProject, Stale, ExactRetry
    <3>3. Stores(p)'
      BY <2>1, <3>1 DEF Knows, Stores, NewRelease, ManifestStored, ReviewStored, DraftKnown,
         Committed, Storing
    <3>4. Publishes(p)'
      BY <2>1, <3>1 DEF Knows, Publishes, PointerKnown, LinkedDraft, Published, DraftSet,
         Silent, Deciding, Linked, Terminal
    <3> QED
      BY <3>2, <3>3, <3>4 DEF Knows
  <2> QED
    BY <1>1, <2>1, <2>2, StoreKept DEF LedgerInv, TypeOK
<1> QED
  BY <1>1, <1>2, <1>3, <1>4, StepLedger DEF Next, AllIdle

LEMMA LedgerInvariant == Spec => []LedgerInv
BY InitialKnowledge, NextLedger, PTL DEF Spec

(* Every stored review has the name of its own digest: the lock of the     *)
(* channel keeps the receipt file from being replaced, between accept's    *)
(* two reads, by a receipt that accept's checks would take.                *)
THEOREM ReviewsKeepTheirNames == Spec => []ReviewsNamedByContent
<1>1. LedgerInv => ReviewsNamedByContent
  BY DEF LedgerInv, StoreOK, ReviewsNamed, ReviewsNamedByContent, MisnamedReview
<1> QED
  BY <1>1, LedgerInvariant, PTL

(* All decisions of a channel are for one project.                         *)
THEOREM ProjectsKept == Spec => []ChannelKeepsProject
<1>1. LedgerInv => ChannelKeepsProject
  BY DEF LedgerInv, StoreOK
<1> QED
  BY <1>1, LedgerInvariant, PTL

(* Decisions of one channel with the same predecessor are the same.        *)
LEMMA OneSuccessor ==
    ASSUME NEW D \in SUBSET Decision, Chained(D), \A a, b \in D : a.id = b.id => a = b,
           NEW d \in D, NEW e \in D, d.pred = e.pred
    PROVE  d = e
<1>1. \A a \in D : a.id # 0 /\ a.seq \in Nat
  BY DEF Decision
<1>2. CASE d.pred = 0
  <2>1. d.seq = 1 /\ e.seq = 1
    BY <1>1, <1>2 DEF Chained
  <2> QED
    BY <2>1 DEF Chained
<1>3. CASE d.pred # 0
  <2>1. PICK a \in D : d.seq = a.seq + 1 /\ d.pred = a.id
    BY <1>3 DEF Chained
  <2>2. PICK b \in D : e.seq = b.seq + 1 /\ e.pred = b.id
    BY <1>3 DEF Chained
  <2>3. a = b
    BY <2>1, <2>2
  <2> QED
    BY <2>1, <2>2, <2>3 DEF Chained
<1> QED
  BY <1>2, <1>3

(* A receipt is consumed by one decision at most, in whatever channel: its *)
(* review is stored once, for one channel and one predecessor.             *)
THEOREM ReceiptsConsumedOnce == Spec => []ReceiptConsumedOnce
<1>1. LedgerInv => ReceiptConsumedOnce
  <2> SUFFICES ASSUME LedgerInv, NEW c1 \in Channels, NEW c2 \in Channels,
                      NEW d1 \in decisions[c1], NEW d2 \in decisions[c2],
                      d1.review # 0, d1.review = d2.review
               PROVE  c1 = c2 /\ d1 = d2
    BY DEF ReceiptConsumedOnce
  <2>1. /\ TypeOK /\ ChannelsChained /\ NamesUnique /\ DecisionsStored /\ DigestsUnique
    BY DEF LedgerInv, ChainInv, TypeInv, StoreOK
  <2>2. PICK r1 \in reviews : /\ r1.name = d1.review /\ r1.content.channel = c1
                              /\ r1.content.pred = d1.pred
    BY <2>1 DEF DecisionsStored, Reviewed
  <2>3. PICK r2 \in reviews : /\ r2.name = d2.review /\ r2.content.channel = c2
                              /\ r2.content.pred = d2.pred
    BY <2>1 DEF DecisionsStored, Reviewed
  <2>4. r1 = r2
    BY <2>1, <2>2, <2>3 DEF NamesUnique
  <2>5. c1 = c2 /\ d1.pred = d2.pred
    BY <2>2, <2>3, <2>4
  <2>6. decisions[c1] \in SUBSET Decision /\ Chained(decisions[c1])
        /\ \A a, b \in decisions[c1] : a.id = b.id => a = b
    BY <2>1 DEF TypeOK, ChannelsChained, DigestsUnique
  <2> QED
    BY <2>5, <2>6, OneSuccessor
<1> QED
  BY <1>1, LedgerInvariant, PTL

(* What a command has just told its user.                                  *)
LEMMA OutcomeSteps ==
    ASSUME LedgerInv, [Next]_vars, NEW p \in Procs, pc[p] # "idle",
           outcome'[p] \notin {"none", "failed", "crashed"}
    PROVE  \/ Refuse(p) /\ outcome'[p] = Objection(p)
           \/ ReportVerified(p) /\ outcome'[p] = "verified"
           \/ ReportAccepted(p) /\ outcome'[p] = "accepted"
           \/ ReportUnchanged(p) /\ outcome'[p] = "unchanged"
           \/ ReportChecked(p) /\ outcome'[p] = "checked"
           \/ WriteReceipt(p) /\ outcome'[p] = "reviewed"
<1>1. TypeInv /\ TypeOK /\ outcome[p] = "none"
  BY DEF LedgerInv, ChainInv, TypeInv, Knows, Publishes, Silent
<1>2. ASSUME NEW q \in Procs, q # p, Start(q) \/ Step(q) \/ Fail(q) \/ Crash(q) PROVE FALSE
  <2>1. outcome'[p] = outcome[p]
    <3>1. CASE Start(q)
      BY <1>2, <3>1, StartFacts DEF Frame
    <3>2. CASE Step(q)
      BY <1>2, <3>2, StepFrame DEF Frame
    <3>3. CASE Fail(q) \/ Crash(q)
      BY <1>1, <1>2, <3>3, ReturnFrame DEF Fail, Crash
    <3> QED
      BY <1>2, <3>1, <3>2, <3>3
  <2> QED
    BY <1>1, <2>1
<1>3. CASE Rebuild \/ ChangeArtifact \/ UNCHANGED vars
  BY <1>1, <1>3 DEF Rebuild, ChangeArtifact, vars
<1>4. CASE Start(p) \/ Fail(p) \/ Crash(p)
  BY <1>1, <1>4, ReturnFrame DEF Start, Fail, Crash
<1>5. CASE Step(p)
  <2>1. CASE Refuse(p)
    BY <1>1, <2>1, ReturnFrame DEF Refuse
  <2>2. CASE ReportVerified(p) \/ ReportChecked(p) \/ ReportAccepted(p) \/ ReportUnchanged(p)
    BY <1>1, <2>2, ReturnFrame DEF ReportVerified, ReportChecked, ReportAccepted,
       ReportUnchanged, Answer
  <2>3. CASE WriteReceipt(p)
    BY <1>1, <2>3, ReturnFrame DEF WriteReceipt
  <2>4. CASE ~(\/ Refuse(p) \/ ReportVerified(p) \/ ReportChecked(p) \/ ReportAccepted(p)
               \/ ReportUnchanged(p) \/ WriteReceipt(p))
    <3>1. outcome' = outcome
      BY <1>5, <2>4 DEF Step, AcquireLock, Quiet, ReadCandidate, ParseCandidate,
         VerifyArtifacts, RereadCandidate, ScanManifests, ScanReviews, FindNoChannel,
         FindChannel, ReadDecisions, ReadPointer, DraftReceipt, ReadReceiptBytes,
         LoadReceipt, CheckReceipt, RecheckRelease, KeepRecord, CreateTemp, LinkManifest,
         LinkReview, LinkDecision, Link, UnlinkTemp, MakeChannel, MakeDecisions, HaveChannel,
         StoreReview, DraftDecision, ReplacePointer
    <3> QED
      BY <1>1, <3>1
  <2> QED
    BY <1>5, <2>1, <2>2, <2>3, <2>4 DEF Step
<1> QED
  BY <1>2, <1>3, <1>4, <1>5 DEF Next, AllIdle

LEMMA AnswerFacts ==
    ASSUME LedgerInv, [Next]_vars, NEW p \in Procs, pc[p] # "idle",
           outcome'[p] \in {"accepted", "unchanged", "checked"}
    PROVE  /\ pointer[job[p].channel].manifest = mem[p].before
           /\ Terminal(pointer[job[p].channel], decisions[job[p].channel])
           /\ outcome'[p] = "checked" => pointer[job[p].channel].review # 0
<1>1. Tracks(p) /\ Publishes(p) /\ Objection(p) \in {"none", "corrupt", "rejected"}
  BY ObjectionTypes DEF LedgerInv, ChainInv, Knows
<1>2. CASE ReportAccepted(p) /\ outcome'[p] = "accepted"
  BY <1>1, <1>2 DEF ReportAccepted, Answer, At, Publishes, DraftSet, Published
<1>3. CASE ReportUnchanged(p) /\ outcome'[p] = "unchanged"
  BY <1>1, <1>3 DEF ReportUnchanged, Answer, At, Publishes, PointerKnown, Tracks, TerminalKnown,
     Deciding
<1>4. CASE ReportChecked(p) /\ outcome'[p] = "checked"
  <2>1. pc[p] = "check" /\ Objection(p) = "none"
    BY <1>4 DEF ReportChecked, Answer, At
  <2>2. mem[p].terminal.manifest = mem[p].before /\ mem[p].terminal.review # 0
    BY <2>1, NoObjection
  <2> QED
    BY <1>1, <2>1, <2>2 DEF Publishes, PointerKnown, Tracks, TerminalKnown, Deciding
<1> QED
  BY <1>1, <1>2, <1>3, <1>4, OutcomeSteps

(* A success of accept or check is true when it is reported.               *)
THEOREM AnswersAreTrue == Spec => AnswersHold
<1>1. LedgerInv /\ [Next]_vars =>
        [\A p \in Procs :
            outcome'[p] \in {"accepted", "unchanged", "checked"} /\ pc[p] # "idle" =>
               LET c == job[p].channel
               IN /\ pointer[c].manifest = mem[p].before
                  /\ Terminal(pointer[c], decisions[c])
                  /\ outcome'[p] = "checked" => pointer[c].review # 0]_vars
  BY AnswerFacts
<1> QED
  BY <1>1, LedgerInvariant, PTL DEF Spec, AnswersHold

-----------------------------------------------------------------------------
(* The candidate.  accept_baseline compares its bytes before and after it  *)
(* parses them: what it parsed is what it stores unless the candidate was  *)
(* rewritten and then restored to the same bytes in between.               *)
Reading(p) == Locked(p) /\ pc[p] \in {"parse", "artifacts", "reread"}

(* A step under which no candidate comes back to the bytes a command has   *)
(* read first.                                                             *)
RestoresNothing ==
    \A p \in Procs :
        Reading(p) /\ candidate'[job[p].path] = mem[p].before =>
            candidate[job[p].path] = mem[p].before

NeverRestored == [][RestoresNothing]_vars

ParsedSame(p) ==
    Locked(p) =>
        /\ pc[p] \in {"parse", "artifacts", "reread"} =>
             \/ /\ candidate[job[p].path] = mem[p].before
                /\ pc[p] # "parse" => mem[p].parsed = mem[p].before
             \/ candidate[job[p].path] # mem[p].before
        /\ pc[p] \notin {"before", "parse", "artifacts", "reread"} =>
             mem[p].parsed = mem[p].before

CandidateInv ==
    /\ \A p \in Procs : ParsedSame(p)
    /\ \A c \in Channels : OwnProject(c)

LEMMA StepSpares ==
    ASSUME NEW p \in Procs, Step(p) PROVE UNCHANGED <<candidate, edits, faults, debris>>
BY DEF Step, ownerVars, AcquireLock, Quiet, Refuse, ReportVerified, ReportChecked,
   ReportAccepted, ReportUnchanged, Answer, WriteReceipt, ReadCandidate, ParseCandidate,
   VerifyArtifacts, RereadCandidate, ScanManifests, ScanReviews, FindNoChannel, FindChannel,
   ReadDecisions, ReadPointer, DraftReceipt, ReadReceiptBytes, LoadReceipt, CheckReceipt,
   RecheckRelease, KeepRecord, CreateTemp, LinkManifest, LinkReview, LinkDecision, Link,
   UnlinkTemp, MakeChannel, MakeDecisions, HaveChannel, StoreReview, DraftDecision,
   ReplacePointer

(* After the last read of the candidate, before and parsed stay.           *)
LEMMA LaterStep ==
    ASSUME LedgerInv, NEW p \in Procs, Step(p), pc[p] \notin Early
    PROVE  \/ pc'[p] = "idle"
           \/ /\ pc'[p] \notin Early /\ pc[p] \notin Early \union {"idle"}
              /\ job'[p] = job[p] /\ mem'[p].before = mem[p].before
              /\ mem'[p].parsed = mem[p].parsed
<1> USE DEF At, Quiet
<1>1. /\ TypeInv /\ TypeOK /\ LocalsSet(p) /\ mem[p] \in Memory
  BY OwnMemory DEF LedgerInv, ChainInv, TypeInv
<1>2. CASE \/ Refuse(p) \/ ReportVerified(p) \/ ReportChecked(p) \/ ReportAccepted(p)
           \/ ReportUnchanged(p) \/ WriteReceipt(p)
  <2>1. \E result : Return(p, result)
    BY <1>2 DEF Refuse, ReportVerified, ReportChecked, ReportAccepted, ReportUnchanged,
       WriteReceipt, Answer
  <2> QED
    BY <1>1, <2>1, ReturnFrame
<1>3. CASE \/ AcquireLock(p) \/ ReadCandidate(p) \/ ParseCandidate(p) \/ VerifyArtifacts(p)
           \/ RereadCandidate(p)
  BY <1>3 DEF AcquireLock, ReadCandidate, ParseCandidate, VerifyArtifacts, RereadCandidate, Early
<1>4. CASE FindNoChannel(p) \/ ReadPointer(p)
  <2>1. /\ pc[p] \in {"channel", "pointer"} /\ job[p] \in Job
        /\ AfterVerify(p) \in {"diff", "check", "report", "done", "bytes", "legacy"}
    BY <1>1, <1>4, AfterVerifyLabels DEF FindNoChannel, ReadPointer, LocalsSet
  <2>2. /\ pc'[p] = AfterVerify(p) /\ job'[p] = job[p] /\ mem'[p].before = mem[p].before
        /\ mem'[p].parsed = mem[p].parsed
    <3>1. CASE FindNoChannel(p)
      BY <1>1, <3>1 DEF FindNoChannel, Goto, Remember, TypeOK, Memory
    <3>2. CASE ReadPointer(p)
      <4> DEFINE m == [mem[p] EXCEPT !.terminal = pointer[job[p].channel], !.listed = {}]
      <4>1. m.before = mem[p].before /\ m.parsed = mem[p].parsed
        BY <1>1 DEF Memory
      <4>2. pc'[p] = AfterVerify(p) /\ mem'[p] = m /\ job'[p] = job[p]
        BY <1>1, <3>2, StepFacts DEF ReadPointer
      <4> QED
        BY <4>1, <4>2
    <3> QED
      BY <1>4, <3>1, <3>2
  <2> QED
    BY <2>1, <2>2 DEF Early
<1>5. CASE KeepRecord(p) \/ UnlinkTemp(p)
  <2>1. pc[p] \in {"publish", "unlink"} /\ mem[p].writing \in {"manifest", "review", "decision"}
    BY <1>1, <1>5 DEF KeepRecord, Existing, UnlinkTemp, LocalsSet, Memory, RecordKinds
  <2>2. AfterRecord(p) \in {"current", "decide", "publish"}
    BY <2>1, AfterRecordLabels
  <2>3. /\ pc'[p] = AfterRecord(p) /\ job'[p] = job[p] /\ mem'[p].before = mem[p].before
        /\ mem'[p].parsed = mem[p].parsed
    BY <1>1, <1>5 DEF KeepRecord, UnlinkTemp, Goto, Remember, TypeOK, Memory
  <2> QED
    BY <2>1, <2>2, <2>3 DEF Early
<1>6. CASE \/ ScanManifests(p) \/ ScanReviews(p) \/ FindChannel(p) \/ ReadDecisions(p)
           \/ DraftReceipt(p) \/ ReadReceiptBytes(p) \/ LoadReceipt(p) \/ CheckReceipt(p)
           \/ RecheckRelease(p)
  BY <1>1, <1>6 DEF ScanManifests, ScanReviews, FindChannel, ReadDecisions, DraftReceipt,
     ReadReceiptBytes, LoadReceipt, CheckReceipt, RecheckRelease, Goto, Remember, TypeOK,
     Memory, Early
<1>7. CASE \/ CreateTemp(p) \/ LinkManifest(p) \/ LinkReview(p) \/ LinkDecision(p)
           \/ MakeChannel(p) \/ MakeDecisions(p) \/ HaveChannel(p) \/ StoreReview(p)
           \/ ReplacePointer(p)
  BY <1>1, <1>7 DEF CreateTemp, LinkManifest, LinkReview, LinkDecision, Link, MakeChannel,
     MakeDecisions, HaveChannel, StoreReview, ReplacePointer, Goto, Remember, TypeOK, Memory,
     Early
<1>8. CASE DraftDecision(p)
  <2> DEFINE m == [mem[p] EXCEPT !.writing = "decision", !.draft = NewDecision(p)]
  <2>1. m.before = mem[p].before /\ m.parsed = mem[p].parsed
    BY <1>1 DEF Memory
  <2>2. pc[p] \in {"decide", "consume"} /\ pc'[p] = "publish" /\ mem'[p] = m /\ job'[p] = job[p]
    BY <1>1, <1>8, StepFacts DEF DraftDecision
  <2> QED
    BY <2>1, <2>2 DEF Early
<1> QED
  BY <1>2, <1>3, <1>4, <1>5, <1>6, <1>7, <1>8 DEF Step

LEMMA EarlyStep ==
    ASSUME NEW p \in Procs, Step(p), pc[p] \in Early
    PROVE  \/ AcquireLock(p) \/ ReadCandidate(p) \/ ParseCandidate(p) \/ VerifyArtifacts(p)
           \/ RereadCandidate(p) \/ Refuse(p)
BY DEF At, Quiet, Early, Step, ReportVerified, ReportChecked, ReportAccepted, ReportUnchanged,
   Answer, WriteReceipt, ScanManifests, ScanReviews, FindNoChannel, FindChannel,
   ReadDecisions, ReadPointer, DraftReceipt, ReadReceiptBytes, LoadReceipt, CheckReceipt,
   RecheckRelease, KeepRecord, CreateTemp, LinkManifest, LinkReview, LinkDecision, Link,
   UnlinkTemp, MakeChannel, MakeDecisions, HaveChannel, StoreReview, DraftDecision,
   ReplacePointer

LEMMA OwnParsed ==
    ASSUME LedgerInv, CandidateInv, NEW p \in Procs, Step(p)
    PROVE  ParsedSame(p)'
<1> USE DEF At, Quiet
<1>1. /\ TypeInv /\ TypeOK /\ LocalsSet(p) /\ mem[p] \in Memory /\ ParsedSame(p)
      /\ UNCHANGED <<candidate, edits>>
  BY OwnMemory, StepSpares DEF LedgerInv, ChainInv, TypeInv, CandidateInv
<1>2. CASE AcquireLock(p)
  BY <1>1, <1>2 DEF AcquireLock, Goto, TypeOK, ParsedSame
<1>3. CASE ReadCandidate(p)
  BY <1>1, <1>3 DEF ReadCandidate, Goto, Remember, TypeOK, Memory, ParsedSame
<1>4. CASE ParseCandidate(p)
  BY <1>1, <1>4 DEF ParseCandidate, Goto, Remember, TypeOK, Memory, ParsedSame, Locked
<1>5. CASE VerifyArtifacts(p)
  BY <1>1, <1>5 DEF VerifyArtifacts, Goto, TypeOK, ParsedSame, Locked
<1>6. CASE RereadCandidate(p)
  <2>1. pc[p] = "reread" /\ candidate[job[p].path] = mem[p].before
    BY <1>6, NoObjection DEF RereadCandidate
  <2> QED
    BY <1>1, <1>6, <2>1 DEF RereadCandidate, Goto, TypeOK, ParsedSame, Locked
<1>7. CASE pc[p] \notin Early
  BY <1>1, <1>7, LaterStep DEF ParsedSame, Locked, Early
<1>8. CASE Refuse(p)
  BY <1>1, <1>8, ReturnFrame DEF Refuse, ParsedSame, Locked
<1>9. CASE pc[p] \in Early
  BY <1>2, <1>3, <1>4, <1>5, <1>6, <1>8, <1>9, EarlyStep
<1> QED
  BY <1>7, <1>9

LEMMA OthersParsed ==
    ASSUME LedgerInv, CandidateInv, NEW p \in Procs, Others(p),
           UNCHANGED candidate
    PROVE  \A q \in Procs \ {p} : ParsedSame(q)'
BY DEF CandidateInv, Others, ParsedSame, Locked

(* The project a decision records is that of the manifest it accepts.      *)
LEMMA LinkedOwnProject ==
    ASSUME LedgerInv, CandidateInv, NEW p \in Procs, LinkDecision(p)
    PROVE  \A c \in Channels : OwnProject(c)'
<1>1. /\ pc[p] = "link" /\ mem[p].writing = "decision" /\ Locked(p)
      /\ decisions'[job[p].channel] = decisions[job[p].channel] \union {mem[p].draft}
      /\ \A c \in Channels \ {job[p].channel} : decisions'[c] = decisions[c]
  BY LinkDecisionFacts
<1>2. mem[p].parsed = mem[p].before /\ \A c \in Channels : OwnProject(c)
  BY <1>1 DEF CandidateInv, ParsedSame
<1>3. mem[p].draft.project = ProjectOf[mem[p].draft.manifest]
  BY <1>1, <1>2 DEF LedgerInv, Knows, Stores, DraftKnown
<1> QED
  BY <1>1, <1>2, <1>3 DEF OwnProject

LEMMA DecisionsChange ==
    ASSUME NEW p \in Procs, Step(p), ~LinkDecision(p) PROVE decisions' = decisions
BY DEF Step, storeVars, AcquireLock, Quiet, Refuse, ReportVerified, ReportChecked,
   ReportAccepted, ReportUnchanged, Answer, WriteReceipt, ReadCandidate, ParseCandidate,
   VerifyArtifacts, RereadCandidate, ScanManifests, ScanReviews, FindNoChannel, FindChannel,
   ReadDecisions, ReadPointer, DraftReceipt, ReadReceiptBytes, LoadReceipt, CheckReceipt,
   RecheckRelease, KeepRecord, CreateTemp, LinkManifest, LinkReview, Link, UnlinkTemp,
   MakeChannel, MakeDecisions, HaveChannel, StoreReview, DraftDecision, ReplacePointer

LEMMA NextCandidate ==
    ASSUME LedgerInv, CandidateInv, [Next]_vars, [RestoresNothing]_vars
    PROVE  CandidateInv'
<1>1. TypeInv /\ TypeOK
  BY DEF LedgerInv, ChainInv, TypeInv
<1>2. ASSUME NEW p \in Procs, Step(p) PROVE CandidateInv'
  <2>1. Others(p) /\ UNCHANGED candidate
    BY <1>2, StepSpares, StepFrame DEF Frame
  <2>2. \A q \in Procs : ParsedSame(q)'
    BY <1>2, <2>1, OwnParsed, OthersParsed
  <2>3. \A c \in Channels : OwnProject(c)'
    <3>1. CASE LinkDecision(p)
      BY <2>1, <3>1, LinkedOwnProject
    <3>2. CASE ~LinkDecision(p)
      BY <1>2, <2>1, <3>2, DecisionsChange DEF CandidateInv, OwnProject
    <3> QED
      BY <3>1, <3>2
  <2> QED
    BY <2>2, <2>3 DEF CandidateInv
<1>3. ASSUME NEW p \in Procs, Start(p) \/ Fail(p) \/ Crash(p) PROVE CandidateInv'
  <2>1. /\ UNCHANGED <<candidate, decisions>>
        /\ Others(p) /\ pc'[p] \in {"idle", "lock", "manifests"}
        /\ pc'[p] = "manifests" => job'[p].kind = "verify"
    <3>1. CASE Start(p)
      BY <1>1, <1>3, <3>1 DEF Start, ownerVars, storeVars, TypeOK, Goto, Others
    <3>2. CASE Fail(p) \/ Crash(p)
      BY <1>1, <1>3, <3>2, ReturnFrame DEF Fail, Crash, ownerVars, storeVars
    <3> QED
      BY <1>3, <3>1, <3>2
  <2>2. ParsedSame(p)'
    BY <2>1 DEF ParsedSame, Locked
  <2>3. \A q \in Procs \ {p} : ParsedSame(q)'
    BY <2>1, OthersParsed
  <2> QED
    BY <2>1, <2>2, <2>3 DEF CandidateInv, OwnProject
<1>4. CASE Rebuild
  <2>1. UNCHANGED <<pc, job, mem, decisions>>
    BY <1>4 DEF Rebuild, storeVars
  <2>2. RestoresNothing
    <3>1. candidate' # candidate
      BY <1>1, <1>4 DEF Rebuild, TypeOK
    <3> QED
      BY <3>1 DEF vars, ownerVars
  <2>3. ASSUME NEW p \in Procs PROVE ParsedSame(p)'
    BY <2>1, <2>2 DEF CandidateInv, RestoresNothing, Reading, ParsedSame, Locked
  <2> QED
    BY <2>1, <2>3 DEF CandidateInv, OwnProject
<1>5. CASE ChangeArtifact
  <2>1. UNCHANGED <<pc, job, mem, decisions, candidate>>
    BY <1>5 DEF ChangeArtifact, storeVars
  <2> QED
    BY <2>1 DEF CandidateInv, OwnProject, ParsedSame, Locked
<1>6. CASE UNCHANGED vars
  BY <1>6 DEF vars, CandidateInv, OwnProject, ParsedSame, Locked
<1> QED
  BY <1>2, <1>3, <1>4, <1>5, <1>6 DEF Next, AllIdle

LEMMA InitialCandidate == Init => CandidateInv
BY DEF Init, CandidateInv, ParsedSame, Locked, OwnProject

LEMMA CandidateInvariant == Spec /\ NeverRestored => [](LedgerInv /\ CandidateInv)
BY InitialKnowledge, NextLedger, InitialCandidate, NextCandidate, PTL DEF Spec, NeverRestored

LEMMA BoundDecisions ==
    ASSUME LedgerInv, CandidateInv PROVE DecisionsBound
BY DEF LedgerInv, StoreOK, DecisionsStored, Reviewed, CandidateInv, OwnProject, DecisionsBound,
       Bound

(* Compare-and-swap: every decision agrees with the manifest stored for it *)
(* and with the receipt that was reviewed, however often the candidates    *)
(* are rewritten: the rereading finds every change but the one that was    *)
(* taken back.                                                             *)
THEOREM DecisionsAreBound == Spec /\ NeverRestored => []DecisionsBound
BY CandidateInvariant, BoundDecisions, PTL

(* A change that is taken back needs two edits, and the second one with a  *)
(* command that read the candidate before the first.                       *)
ChangedByEdit ==
    \A p \in Procs : Reading(p) /\ candidate[job[p].path] # mem[p].before => edits >= 1

LEMMA OwnChange ==
    ASSUME LedgerInv, ChangedByEdit, NEW p \in Procs, Step(p), Reading(p)'
    PROVE  candidate'[job'[p].path] # mem'[p].before => edits' >= 1
<1> USE DEF At, Quiet
<1>1. /\ TypeInv /\ TypeOK /\ LocalsSet(p) /\ mem[p] \in Memory
      /\ UNCHANGED <<candidate, edits>>
  BY OwnMemory, StepSpares DEF LedgerInv, ChainInv, TypeInv
<1>2. CASE ReadCandidate(p)
  BY <1>1, <1>2 DEF ReadCandidate, Goto, Remember, TypeOK, Memory
<1>3. CASE ParseCandidate(p)
  BY <1>1, <1>3 DEF ParseCandidate, Goto, Remember, TypeOK, Memory, ChangedByEdit, Reading,
     Locked
<1>4. CASE VerifyArtifacts(p)
  BY <1>1, <1>4 DEF VerifyArtifacts, Goto, TypeOK, ChangedByEdit, Reading, Locked
<1>5. CASE AcquireLock(p) \/ RereadCandidate(p)
  BY <1>1, <1>5 DEF AcquireLock, RereadCandidate, Goto, TypeOK, Reading
<1>6. CASE pc[p] \notin Early
  BY <1>1, <1>6, LaterStep DEF Reading, Early
<1>7. CASE Refuse(p)
  BY <1>1, <1>7, ReturnFrame DEF Refuse, Reading, Locked
<1> QED
  BY <1>2, <1>3, <1>4, <1>5, <1>6, <1>7, EarlyStep

LEMMA NextChange ==
    ASSUME LedgerInv, ChangedByEdit, [Next]_vars PROVE ChangedByEdit'
<1>1. TypeInv /\ TypeOK
  BY DEF LedgerInv, ChainInv, TypeInv
<1>2. ASSUME NEW p \in Procs, Step(p) PROVE ChangedByEdit'
  BY <1>2, OwnChange, StepSpares, StepFrame DEF Frame, Others, ChangedByEdit, Reading, Locked
<1>3. ASSUME NEW p \in Procs, Start(p) \/ Fail(p) \/ Crash(p) PROVE ChangedByEdit'
  <2>1. /\ UNCHANGED <<candidate, edits>> /\ Others(p)
        /\ pc'[p] \in {"idle", "lock", "manifests"}
    BY <1>1, <1>3, ReturnFrame DEF Start, Fail, Crash, ownerVars, storeVars, TypeOK, Goto, Others
  <2> QED
    BY <2>1 DEF Others, ChangedByEdit, Reading, Locked
<1>4. CASE Rebuild \/ ChangeArtifact
  <2>1. edits \in Nat /\ edits' = edits + 1
    BY <1>1, <1>4, ConstantsAssumption DEF Rebuild, ChangeArtifact, TypeOK
  <2> QED
    BY <2>1 DEF ChangedByEdit
<1>5. CASE UNCHANGED vars
  BY <1>5 DEF vars, ownerVars, ChangedByEdit, Reading, Locked
<1> QED
  BY <1>2, <1>3, <1>4, <1>5 DEF Next, AllIdle

(* While the owner edits once at most, no candidate is restored.           *)
THEOREM OneEditRestoresNothing == Spec /\ [](edits <= 1) => NeverRestored
<1>1. Init => ChangedByEdit
  BY DEF Init, ChangedByEdit, Reading, Locked
<1>2. LedgerInv /\ ChangedByEdit /\ (edits <= 1)' /\ [Next]_vars => [RestoresNothing]_vars
  <2> SUFFICES ASSUME LedgerInv, ChangedByEdit, (edits <= 1)', [Next]_vars, NEW p \in Procs,
                      Reading(p), candidate[job[p].path] # mem[p].before
               PROVE  candidate' = candidate
    BY DEF RestoresNothing
  <2>1. TypeOK
    BY DEF LedgerInv, ChainInv, TypeInv
  <2>2. ~Rebuild
    BY <2>1, ConstantsAssumption DEF ChangedByEdit, Rebuild, TypeOK
  <2>3. ASSUME NEW q \in Procs, Start(q) \/ Fail(q) \/ Crash(q) PROVE candidate' = candidate
    BY <2>3 DEF Start, Fail, Crash, ownerVars
  <2>4. CASE ChangeArtifact \/ UNCHANGED vars
    BY <2>4 DEF ChangeArtifact, vars
  <2> QED
    BY <2>2, <2>3, <2>4, StepSpares DEF Next, AllIdle
<1> QED
  BY <1>1, <1>2, LedgerInvariant, NextChange, PTL DEF Spec, NeverRestored

-----------------------------------------------------------------------------
(* Without errors and kills.  A channel that does not verify is in the     *)
(* hands of a command that will complete it.                               *)
Making(p) == pc[p] = "mkdir"

Holds(p, c) == Locked(p) /\ job[p].channel = c

WholeInv ==
    faults = 0 =>
        /\ debris = {}
        /\ \A c \in Channels :
              /\ channelDir[c] = "bare" => \E p \in Procs : Holds(p, c) /\ Making(p)
              /\ ~Terminal(pointer[c], decisions[c]) => \E p \in Procs : Holds(p, c) /\ Linked(p)

LEMMA InitialWhole == Init => WholeInv
BY DEF Init, WholeInv, Terminal

(* What a command that is making a directory or publishing its decision    *)
(* does next.                                                              *)
LEMMA CompletionSteps ==
    ASSUME LedgerInv, NEW p \in Procs, Step(p), Making(p) \/ Linked(p)
    PROVE  \/ Making(p) /\ MakeDecisions(p)
           \/ Linked(p) /\ (UnlinkTemp(p) \/ CreateTemp(p) \/ ReplacePointer(p))
<1>1. TypeInv /\ LocalsSet(p) /\ mem[p] \in Memory
  BY OwnMemory DEF LedgerInv, ChainInv, TypeInv
<1>2. pc[p] \in {"mkdir", "replace", "unlink", "publish"}
  BY DEF Making, Linked
<1>3. Objection(p) = "none"
  BY <1>2 DEF Objection, VerifyError, Rejected, AcceptError
<1>4. MakeDecisions(p) \/ UnlinkTemp(p) \/ CreateTemp(p) \/ ReplacePointer(p) \/ KeepRecord(p)
  BY <1>2, <1>3 DEF Step, At, AcquireLock, Refuse, ReportVerified, ReportChecked,
     ReportAccepted, ReportUnchanged, Answer, WriteReceipt, ReadCandidate, ParseCandidate,
     VerifyArtifacts, RereadCandidate, ScanManifests, ScanReviews, FindNoChannel, FindChannel,
     ReadDecisions, ReadPointer, DraftReceipt, ReadReceiptBytes, LoadReceipt, CheckReceipt,
     RecheckRelease, LinkManifest, LinkReview, LinkDecision, Link, MakeChannel, HaveChannel,
     StoreReview, DraftDecision
<1>5. ~KeepRecord(p)
  <2> SUFFICES ASSUME KeepRecord(p) PROVE FALSE
    OBVIOUS
  <2>1. pc[p] = "publish" /\ mem[p].writing = "pointer" /\ Existing(p) # {}
    BY DEF KeepRecord, At, Making, Linked
  <2> QED
    BY <2>1 DEF Existing
<1> QED
  BY <1>2, <1>4, <1>5 DEF MakeDecisions, UnlinkTemp, CreateTemp, ReplacePointer, At, Making, Linked

LEMMA DirectoriesChange ==
    ASSUME NEW p \in Procs, Step(p), ~MakeChannel(p), ~MakeDecisions(p)
    PROVE  channelDir' = channelDir
BY DEF Step, storeVars, AcquireLock, Quiet, Refuse, ReportVerified, ReportChecked,
   ReportAccepted, ReportUnchanged, Answer, WriteReceipt, ReadCandidate, ParseCandidate,
   VerifyArtifacts, RereadCandidate, ScanManifests, ScanReviews, FindNoChannel, FindChannel,
   ReadDecisions, ReadPointer, DraftReceipt, ReadReceiptBytes, LoadReceipt, CheckReceipt,
   RecheckRelease, KeepRecord, CreateTemp, LinkManifest, LinkReview, LinkDecision, Link,
   UnlinkTemp, HaveChannel, StoreReview, DraftDecision, ReplacePointer

LEMMA PointersChange ==
    ASSUME NEW p \in Procs, Step(p), ~ReplacePointer(p) PROVE pointer' = pointer
BY DEF Step, storeVars, AcquireLock, Quiet, Refuse, ReportVerified, ReportChecked,
   ReportAccepted, ReportUnchanged, Answer, WriteReceipt, ReadCandidate, ParseCandidate,
   VerifyArtifacts, RereadCandidate, ScanManifests, ScanReviews, FindNoChannel, FindChannel,
   ReadDecisions, ReadPointer, DraftReceipt, ReadReceiptBytes, LoadReceipt, CheckReceipt,
   RecheckRelease, KeepRecord, CreateTemp, LinkManifest, LinkReview, LinkDecision, Link,
   UnlinkTemp, MakeChannel, MakeDecisions, HaveChannel, StoreReview, DraftDecision

LEMMA StepBare ==
    ASSUME LedgerInv, WholeInv, NEW p \in Procs, Step(p), faults = 0,
           NEW c \in Channels, channelDir'[c] = "bare"
    PROVE  \E q \in Procs : (Holds(q, c) /\ Making(q))'
<1>1. /\ TypeInv /\ TypeOK /\ LocalsSet(p) /\ Others(p)
  BY StepFrame DEF LedgerInv, ChainInv, TypeInv, Frame
<1>2. CASE MakeChannel(p)
  <2>1. /\ pc[p] = "current" /\ pc'[p] = "mkdir" /\ job'[p] = job[p] /\ job[p] \in Job
        /\ channelDir' = [channelDir EXCEPT ![job[p].channel] = "bare"]
        /\ job[p].kind # "verify"
    BY <1>1, <1>2 DEF MakeChannel, At, Quiet, Goto, TypeOK, LocalsSet
  <2>2. CASE c = job[p].channel
    BY <2>1, <2>2 DEF Holds, Making, Locked
  <2>3. CASE c # job[p].channel
    <3>1. channelDir[c] = "bare"
      BY <1>1, <2>1, <2>3 DEF TypeOK
    <3>2. PICK q \in Procs : Holds(q, c) /\ Making(q)
      BY <3>1 DEF WholeInv
    <3>3. q # p
      BY <2>1, <3>2 DEF Making
    <3> QED
      BY <1>1, <3>2, <3>3 DEF Others, Holds, Making, Locked
  <2> QED
    BY <2>2, <2>3
<1>3. CASE ~MakeChannel(p)
  <2>1. channelDir[c] = "bare"
    <3>1. CASE MakeDecisions(p)
      <4>1. channelDir' = [channelDir EXCEPT ![job[p].channel] = "ready"]
        BY <3>1 DEF MakeDecisions
      <4> QED
        BY <1>1, <4>1 DEF TypeOK
    <3>2. CASE ~MakeDecisions(p)
      BY <1>3, <3>2, DirectoriesChange
    <3> QED
      BY <3>1, <3>2
  <2>2. PICK q \in Procs : Holds(q, c) /\ Making(q)
    BY <2>1 DEF WholeInv
  <2>3. q # p
    <3> SUFFICES ASSUME q = p PROVE FALSE
      OBVIOUS
    <3>1. MakeDecisions(p)
      BY <2>2, CompletionSteps DEF Making, Linked
    <3>2. channelDir' = [channelDir EXCEPT ![c] = "ready"]
      BY <2>2, <3>1 DEF MakeDecisions, Holds
    <3> QED
      BY <1>1, <3>2 DEF TypeOK
  <2> QED
    BY <1>1, <2>2, <2>3 DEF Others, Holds, Making, Locked
<1> QED
  BY <1>2, <1>3

LEMMA StepUnpublished ==
    ASSUME LedgerInv, WholeInv, NEW p \in Procs, Step(p), faults = 0,
           NEW c \in Channels, ~Terminal(pointer[c], decisions[c])'
    PROVE  \E q \in Procs : (Holds(q, c) /\ Linked(q))'
<1>1. /\ TypeInv /\ TypeOK /\ LocalsSet(p) /\ Others(p) /\ mem[p] \in Memory /\ Publishes(p)
  BY StepFrame, OwnMemory DEF LedgerInv, ChainInv, TypeInv, Frame, Knows
<1>2. CASE LinkDecision(p)
  <2>1. /\ pc'[p] = "unlink" /\ mem'[p] = mem[p] /\ mem[p].writing = "decision"
        /\ SameRelease(p) /\ Locked(p) /\ pointer' = pointer
        /\ \A b \in Channels \ {job[p].channel} : decisions'[b] = decisions[b]
    BY <1>2, LinkDecisionFacts
  <2>2. CASE c = job[p].channel
    BY <2>1, <2>2 DEF Holds, Linked, Locked, SameRelease
  <2>3. CASE c # job[p].channel
    <3>1. ~Terminal(pointer[c], decisions[c])
      BY <2>1, <2>3 DEF Terminal
    <3>2. PICK q \in Procs : Holds(q, c) /\ Linked(q)
      BY <3>1 DEF WholeInv
    <3>3. q # p
      BY <2>3, <3>2 DEF Holds
    <3> QED
      BY <1>1, <3>2, <3>3 DEF Others, Holds, Linked, Locked
  <2> QED
    BY <2>2, <2>3
<1>3. CASE ReplacePointer(p)
  <2>1. /\ pc[p] = "replace" /\ pointer' = [pointer EXCEPT ![job[p].channel] = mem[p].draft]
        /\ decisions' = decisions
    BY <1>3 DEF ReplacePointer, At
  <2>2. c # job[p].channel
    BY <1>1, <2>1 DEF Publishes, LinkedDraft, Linked, TypeOK, Terminal
  <2>3. ~Terminal(pointer[c], decisions[c])
    BY <1>1, <2>1, <2>2 DEF TypeOK, Terminal
  <2>4. PICK q \in Procs : Holds(q, c) /\ Linked(q)
    BY <2>3 DEF WholeInv
  <2>5. q # p
    BY <2>2, <2>4 DEF Holds
  <2> QED
    BY <1>1, <2>4, <2>5 DEF Others, Holds, Linked, Locked
<1>4. CASE ~LinkDecision(p) /\ ~ReplacePointer(p)
  <2>1. ~Terminal(pointer[c], decisions[c])
    BY <1>4, DecisionsChange, PointersChange DEF Terminal
  <2>2. PICK q \in Procs : Holds(q, c) /\ Linked(q)
    BY <2>1 DEF WholeInv
  <2>3. CASE q # p
    BY <1>1, <2>2, <2>3 DEF Others, Holds, Linked, Locked
  <2>4. CASE q = p
    <3>1. UnlinkTemp(p) \/ CreateTemp(p)
      BY <1>4, <2>2, <2>4, CompletionSteps DEF Making, Linked
    <3>2. (Holds(p, c) /\ Linked(p))'
      <4>1. CASE UnlinkTemp(p)
        <5>1. pc[p] = "unlink" /\ mem[p].writing = "decision"
          BY <2>2, <2>4, <4>1 DEF UnlinkTemp, At, Linked
        <5>2. pc'[p] = "publish" /\ mem'[p].writing = "pointer" /\ job'[p] = job[p]
          BY <1>1, <4>1, <5>1, AfterRecordLabels DEF UnlinkTemp, Quiet, Goto, Remember, TypeOK,
             Memory
        <5> QED
          BY <2>2, <2>4, <5>2 DEF Holds, Linked, Locked
      <4>2. CASE CreateTemp(p)
        <5>1. pc[p] = "publish" /\ mem[p].writing = "pointer"
          BY <2>2, <2>4, <4>2 DEF CreateTemp, At, Linked
        <5>2. pc'[p] = "replace" /\ job'[p] = job[p]
          BY <1>1, <4>2, <5>1 DEF CreateTemp, Quiet, Goto, TypeOK
        <5> QED
          BY <2>2, <2>4, <5>2 DEF Holds, Linked, Locked
      <4> QED
        BY <3>1, <4>1, <4>2
    <3> QED
      BY <3>2
  <2> QED
    BY <2>3, <2>4
<1> QED
  BY <1>2, <1>3, <1>4

LEMMA NextWhole ==
    ASSUME LedgerInv, WholeInv, [Next]_vars PROVE WholeInv'
<1>1. TypeInv /\ TypeOK
  BY DEF LedgerInv, ChainInv, TypeInv
<1>2. ASSUME NEW p \in Procs, Step(p) PROVE WholeInv'
  BY <1>2, StepSpares, StepBare, StepUnpublished DEF WholeInv
<1>3. ASSUME NEW p \in Procs, Start(p) PROVE WholeInv'
  <2>1. /\ pc[p] = "idle" /\ Others(p)
        /\ UNCHANGED <<channelDir, pointer, decisions, debris, faults>>
    BY <1>1, <1>3, StartFacts DEF Start, storeVars, Frame
  <2>2. \A q \in Procs, c \in Channels :
            /\ Holds(q, c) /\ Making(q) => (Holds(q, c) /\ Making(q))'
            /\ Holds(q, c) /\ Linked(q) => (Holds(q, c) /\ Linked(q))'
    BY <2>1 DEF Others, Holds, Making, Linked, Locked
  <2> QED
    BY <2>1, <2>2 DEF WholeInv, Terminal
<1>4. ASSUME NEW p \in Procs, Fail(p) \/ Crash(p) PROVE WholeInv'
  <2>1. faults \in Nat /\ faults' = faults + 1
    BY <1>1, <1>4, ConstantsAssumption DEF Fail, Crash, TypeOK
  <2> QED
    BY <2>1 DEF WholeInv
<1>5. CASE Rebuild \/ ChangeArtifact \/ UNCHANGED vars
  <2>1. UNCHANGED <<pc, job, mem, channelDir, pointer, decisions, debris, faults>>
    BY <1>5 DEF Rebuild, ChangeArtifact, vars, storeVars
  <2> QED
    BY <2>1 DEF WholeInv, Terminal, Holds, Making, Linked, Locked
<1> QED
  BY <1>2, <1>3, <1>4, <1>5 DEF Next, AllIdle

LEMMA WholeInvariant == Spec /\ NeverRestored => [](LedgerInv /\ CandidateInv /\ WholeInv)
BY CandidateInvariant, InitialWhole, NextWhole, PTL DEF Spec

(* As long as no command is killed or fails, a channel nobody holds the    *)
(* lock of verifies: a command leaves it whole wherever it is refused.     *)
(* Its decisions are bound as above.                                       *)
THEOREM UnlockedChannelsVerify == Spec /\ NeverRestored => []UnlockedChannelVerifies
<1>1. LedgerInv /\ CandidateInv /\ WholeInv => UnlockedChannelVerifies
  <2> SUFFICES ASSUME LedgerInv, CandidateInv, WholeInv, faults = 0,
                      NEW c \in Channels, lock[c] = NoProc
               PROVE  Verifies(c)
    BY DEF UnlockedChannelVerifies
  <2>1. \A p \in Procs : ~Holds(p, c)
    BY LockHolder, ConstantsAssumption DEF Holds
  <2>2. debris = {} /\ channelDir[c] # "bare" /\ Terminal(pointer[c], decisions[c])
    BY <2>1 DEF WholeInv
  <2>3. ~MisnamedReview
    BY DEF LedgerInv, StoreOK, ReviewsNamed, MisnamedReview
  <2>4. Chained(decisions[c]) /\ \A d \in decisions[c] : Bound(c, d)
    BY BoundDecisions DEF LedgerInv, ChainInv, ChannelsChained, DecisionsBound
  <2> QED
    BY <2>2, <2>3, <2>4 DEF Verifies
<1> QED
  BY <1>1, WholeInvariant, PTL

(* What a verification has found when it lists the decisions.              *)
FoundInv ==
    \A p \in Procs : pc[p] # "idle" =>
        /\ job[p].kind \in Operations
        /\ pc[p] = "decisions" => channelDir[job[p].channel] # "absent"

LEMMA ReachDecisions ==
    ASSUME LedgerInv, NEW p \in Procs, Step(p)
    PROVE  /\ pc'[p] = "idle" \/ (job'[p] = job[p] /\ pc[p] # "idle")
           /\ pc'[p] = "decisions" => FindChannel(p)
<1> USE DEF At, Quiet
<1>1. /\ TypeInv /\ TypeOK /\ LocalsSet(p) /\ mem[p] \in Memory
  BY OwnMemory DEF LedgerInv, ChainInv, TypeInv
<1>2. CASE \/ Refuse(p) \/ ReportVerified(p) \/ ReportChecked(p) \/ ReportAccepted(p)
           \/ ReportUnchanged(p) \/ WriteReceipt(p)
  <2>1. \E result : Return(p, result)
    BY <1>2 DEF Refuse, ReportVerified, ReportChecked, ReportAccepted, ReportUnchanged,
       WriteReceipt, Answer
  <2> QED
    BY <1>1, <2>1, ReturnFrame
<1>3. CASE FindNoChannel(p) \/ ReadPointer(p)
  <2>1. /\ pc[p] \in {"channel", "pointer"} /\ pc'[p] = AfterVerify(p) /\ job' = job
        /\ AfterVerify(p) \in {"diff", "check", "report", "done", "bytes", "legacy"}
    BY <1>1, <1>3, AfterVerifyLabels DEF FindNoChannel, ReadPointer, LocalsSet, Goto, TypeOK
  <2> QED
    BY <2>1
<1>4. CASE KeepRecord(p) \/ UnlinkTemp(p)
  <2>1. pc[p] \in {"publish", "unlink"} /\ mem[p].writing \in {"manifest", "review", "decision"}
    BY <1>1, <1>4 DEF KeepRecord, Existing, UnlinkTemp, LocalsSet, Memory, RecordKinds
  <2>2. AfterRecord(p) \in {"current", "decide", "publish"}
    BY <2>1, AfterRecordLabels
  <2>3. pc'[p] = AfterRecord(p) /\ job' = job
    BY <1>1, <1>4 DEF KeepRecord, UnlinkTemp, Goto, TypeOK
  <2> QED
    BY <2>1, <2>2, <2>3
<1>5. CASE \/ AcquireLock(p) \/ ReadCandidate(p) \/ ParseCandidate(p) \/ VerifyArtifacts(p)
           \/ RereadCandidate(p) \/ ScanManifests(p) \/ ScanReviews(p) \/ FindChannel(p)
           \/ ReadDecisions(p) \/ DraftReceipt(p) \/ ReadReceiptBytes(p) \/ LoadReceipt(p)
           \/ CheckReceipt(p) \/ RecheckRelease(p)
  BY <1>1, <1>5 DEF AcquireLock, ReadCandidate, ParseCandidate, VerifyArtifacts,
     RereadCandidate, ScanManifests, ScanReviews, FindChannel, ReadDecisions, DraftReceipt,
     ReadReceiptBytes, LoadReceipt, CheckReceipt, RecheckRelease, Goto, TypeOK
<1>6. CASE \/ CreateTemp(p) \/ LinkManifest(p) \/ LinkReview(p) \/ LinkDecision(p)
           \/ MakeChannel(p) \/ MakeDecisions(p) \/ HaveChannel(p) \/ StoreReview(p)
           \/ DraftDecision(p) \/ ReplacePointer(p)
  BY <1>1, <1>6 DEF CreateTemp, LinkManifest, LinkReview, LinkDecision, Link, MakeChannel,
     MakeDecisions, HaveChannel, StoreReview, DraftDecision, ReplacePointer, Goto, TypeOK
<1> QED
  BY <1>2, <1>3, <1>4, <1>5, <1>6 DEF Step

LEMMA DirectoriesStay ==
    ASSUME LedgerInv, NEW p \in Procs, Step(p), NEW c \in Channels, channelDir[c] # "absent"
    PROVE  channelDir'[c] # "absent"
<1>1. TypeOK
  BY DEF LedgerInv, ChainInv, TypeInv
<1>2. CASE MakeChannel(p) \/ MakeDecisions(p)
  BY <1>1, <1>2 DEF MakeChannel, MakeDecisions, TypeOK
<1> QED
  BY <1>2, DirectoriesChange

LEMMA NextFound ==
    ASSUME LedgerInv, FoundInv, [Next]_vars PROVE FoundInv'
<1>1. TypeInv /\ TypeOK /\ \A p \in Procs : pc[p] # "idle" => job[p].channel \in Channels
  BY DEF LedgerInv, ChainInv, TypeInv, LocalsSet, Job
<1>2. ASSUME NEW p \in Procs, Step(p) PROVE FoundInv'
  <2>1. Others(p)
    BY <1>2, StepFrame DEF Frame
  <2>2. pc'[p] = "decisions" => channelDir[job[p].channel] # "absent"
    BY <1>2, ReachDecisions DEF FindChannel
  <2>3. ASSUME NEW q \in Procs, pc'[q] # "idle"
        PROVE  /\ job'[q].kind \in Operations
               /\ pc'[q] = "decisions" => channelDir'[job'[q].channel] # "absent"
    <3>1. CASE q = p
      BY <1>1, <1>2, <2>2, <2>3, <3>1, ReachDecisions, DirectoriesStay DEF FoundInv
    <3>2. CASE q # p
      BY <1>1, <1>2, <2>1, <2>3, <3>2, DirectoriesStay DEF FoundInv, Others
    <3> QED
      BY <3>1, <3>2
  <2> QED
    BY <2>3 DEF FoundInv
<1>3. ASSUME NEW p \in Procs, Start(p) PROVE FoundInv'
  <2>1. Others(p) /\ job'[p].kind \in Operations /\ pc'[p] # "decisions"
        /\ channelDir' = channelDir
    BY <1>1, <1>3 DEF Start, storeVars, Goto, Others, TypeOK
  <2> QED
    BY <2>1 DEF FoundInv, Others
<1>4. ASSUME NEW p \in Procs, Fail(p) \/ Crash(p) PROVE FoundInv'
  <2>1. Others(p) /\ pc'[p] = "idle" /\ channelDir' = channelDir
    BY <1>1, <1>4, ReturnFrame DEF Fail, Crash, storeVars
  <2> QED
    BY <2>1 DEF FoundInv, Others
<1>5. CASE Rebuild \/ ChangeArtifact \/ UNCHANGED vars
  <2>1. UNCHANGED <<pc, job, channelDir>>
    BY <1>5 DEF Rebuild, ChangeArtifact, vars, storeVars
  <2> QED
    BY <2>1 DEF FoundInv
<1> QED
  BY <1>2, <1>3, <1>4, <1>5 DEF Next, AllIdle

LEMMA NoAlarm ==
    ASSUME LedgerInv, CandidateInv, WholeInv, FoundInv, faults = 0,
           NEW c, Channels = {c}, "verify" \notin Operations,
           NEW p \in Procs, pc[p] \in Verifying
    PROVE  Objection(p) # "corrupt"
<1>1. /\ TypeInv /\ TypeOK /\ LocalsSet(p) /\ Tracks(p)
  BY DEF LedgerInv, ChainInv, TypeInv
<1>2. Locked(p) /\ job[p].channel = c /\ lock[c] = p
  BY <1>1, LockHolder DEF FoundInv, Verifying, Locked
<1>3. \A q \in Procs : Holds(q, c) => q = p
  BY <1>2, LockHolder DEF Holds
<1>4. TempFiles = {}
  <2>1. ASSUME NEW q \in Procs PROVE TempOf(q) = {}
    <3> SUFFICES ASSUME pc[q] \in {"link", "unlink", "replace"} PROVE FALSE
      BY DEF TempOf
    <3>1. Holds(q, c)
      BY LockHolder DEF Holds, Locked, LedgerInv, ChainInv, TypeInv, LocalsSet
    <3> QED
      BY <1>3, <3>1 DEF Verifying
  <2>2. debris = {}
    BY DEF WholeInv
  <2> QED
    BY <2>1, <2>2 DEF TempFiles
<1>5. channelDir[c] # "bare" /\ Terminal(pointer[c], decisions[c])
  BY <1>3 DEF WholeInv, Making, Linked, Verifying
<1>6. ~MisnamedReview /\ Chained(decisions[c]) /\ \A d \in decisions[c] : Bound(c, d)
  BY BoundDecisions DEF LedgerInv, StoreOK, ReviewsNamed, MisnamedReview, ChainInv,
     ChannelsChained, DecisionsBound
<1>7. pc[p] = "decisions" => channelDir[c] = "ready"
  BY <1>1, <1>2, <1>5 DEF FoundInv, TypeOK
<1>8. pc[p] = "pointer" => mem[p].listed = decisions[c]
  BY <1>1, <1>2 DEF Tracks, ListingCurrent
<1>9. ~VerifyError(p, c, mem[p])
  BY <1>4, <1>5, <1>6, <1>7, <1>8 DEF VerifyError, Foreign
<1> QED
  BY <1>2, <1>9 DEF Objection, Verifying

LEMMA FoundInvariant == Spec => []FoundInv
<1>1. Init => FoundInv
  BY DEF Init, FoundInv
<1> QED
  BY <1>1, LedgerInvariant, NextFound, PTL DEF Spec

(* Commands that take the lock of the only channel of a store never report *)
(* corruption of it while nothing fails and no candidate is restored under *)
(* a command that reads it.                                                *)
THEOREM NoFalseAlarms ==
    ASSUME NEW c, Channels = {c}, "verify" \notin Operations
    PROVE  Spec /\ NeverRestored => NoFalseAlarm
<1>1. LedgerInv /\ CandidateInv /\ WholeInv /\ FoundInv /\ [Next]_vars =>
        [\A p \in Procs :
            /\ faults = 0
            /\ pc[p] \in {"manifests", "reviews", "channel", "decisions", "pointer"}
            => outcome'[p] # "corrupt"]_vars
  <2> SUFFICES ASSUME LedgerInv, CandidateInv, WholeInv, FoundInv, [Next]_vars,
                      NEW p \in Procs, faults = 0, pc[p] \in Verifying
               PROVE  outcome'[p] # "corrupt"
    BY DEF Verifying
  <2>1. Objection(p) # "corrupt"
    BY NoAlarm
  <2> QED
    BY <2>1, OutcomeSteps DEF Verifying
<1> QED
  BY <1>1, WholeInvariant, FoundInvariant, PTL DEF Spec, NoFalseAlarm

-----------------------------------------------------------------------------
(* The store implements the history of accepted releases.  The decisions   *)
(* of a channel are numbered from one to their count, so that linking one  *)
(* appends it to the history.                                              *)
Numbered(D) ==
    /\ IsFiniteSet(D)
    /\ \A d \in D : d.seq \in 1..Cardinality(D)
    /\ \A n \in 1..Cardinality(D) : \E d \in D : d.seq = n

NumberInv == \A c \in Channels : Numbered(decisions[c])

LEMMA EmptyNumbered == Numbered({})
BY FS_EmptySet DEF Numbered

LEMMA TerminalNumber ==
    ASSUME NEW D \in SUBSET Decision, Numbered(D), NEW t \in Decision \union {Genesis},
           Terminal(t, D)
    PROVE  t.seq = Cardinality(D) /\ Cardinality(D) \in Nat
<1>1. Cardinality(D) \in Nat
  BY FS_CardinalityType DEF Numbered
<1>2. CASE D = {}
  BY <1>2, FS_EmptySet DEF Terminal, Genesis
<1>3. CASE D # {}
  <2>1. t \in D /\ t.seq \in 1..Cardinality(D) /\ \A e \in D : e.seq <= t.seq
    BY <1>3 DEF Terminal, Numbered
  <2>2. \E e \in D : e.seq = Cardinality(D)
    BY <1>1, <2>1 DEF Numbered
  <2> QED
    BY <1>1, <2>1, <2>2
<1> QED
  BY <1>1, <1>2, <1>3

(* The decision that follows the last one extends the numbering.           *)
LEMMA NumberingExtends ==
    ASSUME NEW D \in SUBSET Decision, Numbered(D), NEW d \in Decision,
           d.seq = Cardinality(D) + 1
    PROVE  /\ Numbered(D \union {d}) /\ d \notin D
           /\ Cardinality(D \union {d}) = Cardinality(D) + 1
           /\ Cardinality(D) \in Nat
<1>1. Cardinality(D) \in Nat
  BY FS_CardinalityType DEF Numbered
<1>2. d \notin D
  BY <1>1 DEF Numbered
<1>3. IsFiniteSet(D \union {d}) /\ Cardinality(D \union {d}) = Cardinality(D) + 1
  BY <1>2, FS_AddElement DEF Numbered
<1>4. \A e \in D \union {d} : e.seq \in 1..(Cardinality(D) + 1)
  BY <1>1 DEF Numbered
<1>5. ASSUME NEW n \in 1..(Cardinality(D) + 1) PROVE \E e \in D \union {d} : e.seq = n
  BY <1>1, <1>5 DEF Numbered
<1> QED
  BY <1>1, <1>2, <1>3, <1>4, <1>5 DEF Numbered

(* What CHOOSE finds in a channel's decisions.                             *)
LEMMA Chosen ==
    ASSUME NEW D, NEW d \in D
    PROVE  /\ (\A e \in D : e.id = d.id => e = d) => (CHOOSE e \in D : e.id = d.id) = d
           /\ (\A e \in D : e.seq = d.seq => e = d) => (CHOOSE e \in D : e.seq = d.seq) = d
OBVIOUS

LEMMA Appended ==
    ASSUME NEW S, NEW n \in Nat, NEW h \in [1..n -> S], NEW r \in S,
           NEW g \in [1..(n + 1) -> S], \A i \in 1..n : g[i] = h[i], g[n + 1] = r
    PROVE  Len(h) = n /\ g = Append(h, r) /\ (h = <<>> <=> n = 0)
<1>1. h \in Seq(S) /\ Len(h) = n /\ DOMAIN h = 1..n
  OBVIOUS
<1>2. g \in Seq(S) /\ Len(g) = n + 1 /\ DOMAIN g = 1..(n + 1)
  OBVIOUS
<1>3. /\ Append(h, r) \in Seq(S) /\ Len(Append(h, r)) = n + 1
      /\ \A i \in 1..(n + 1) : Append(h, r)[i] = IF i = n + 1 THEN r ELSE h[i]
  BY <1>1
<1>4. DOMAIN Append(h, r) = 1..(n + 1)
  BY <1>3
<1>5. \A i \in 1..(n + 1) : g[i] = Append(h, r)[i]
  <2> SUFFICES ASSUME NEW i \in 1..(n + 1) PROVE g[i] = Append(h, r)[i]
    OBVIOUS
  <2>1. i = n + 1 \/ i \in 1..n
    OBVIOUS
  <2> QED
    BY <1>3, <2>1
<1>6. g = Append(h, r)
  BY <1>2, <1>3, <1>5
<1>7. h = <<>> <=> n = 0
  BY <1>1
<1> QED
  BY <1>1, <1>6, <1>7

(* What linking a decision changes of the history.                         *)
LEMMA LinkExtends ==
    ASSUME LedgerInv, LedgerInv', NumberInv, NEW p \in Procs, LinkDecision(p),
           NEW c, c = job[p].channel, NEW d, d = mem[p].draft, NEW t, t = mem[p].terminal
    PROVE  /\ c \in Channels /\ d \in Decision /\ d \notin decisions[c]
           /\ Cardinality(decisions[c]) \in Nat
           /\ decisions'[c] = decisions[c] \union {d} /\ Numbered(decisions'[c])
           /\ Cardinality(decisions'[c]) = Cardinality(decisions[c]) + 1
           /\ t.seq = Cardinality(decisions[c]) /\ d.seq = Cardinality(decisions[c]) + 1
           /\ Terminal(t, decisions[c]) /\ d.pred = t.id
           /\ d.manifest # t.manifest /\ pointer[c] = t
           /\ \A b \in Channels \ {c} : decisions'[b] = decisions[b]
           /\ UNCHANGED <<reviews, pointer>>
           /\ \A a, b \in decisions'[c] : a.id = b.id => a = b
           /\ \A a, b \in decisions'[c] : a.seq = b.seq => a = b
<1>1. /\ c \in Channels /\ d \in Decision /\ t \in Decision \union {Genesis}
      /\ decisions'[c] = decisions[c] \union {d}
      /\ Terminal(t, decisions[c]) /\ d.seq = t.seq + 1 /\ d.pred = t.id
      /\ \A b \in Channels \ {c} : decisions'[b] = decisions[b]
      /\ UNCHANGED <<reviews, pointer>>
      /\ pc[p] = "link" /\ mem[p].writing = "decision" /\ Deciding(p)
  BY LinkDecisionFacts
<1>2. decisions[c] \in SUBSET Decision /\ Numbered(decisions[c])
  BY <1>1 DEF LedgerInv, ChainInv, TypeInv, TypeOK, NumberInv
<1>3. t.seq = Cardinality(decisions[c])
  BY <1>1, <1>2, TerminalNumber
<1>4. /\ Numbered(decisions[c] \union {d}) /\ d \notin decisions[c]
      /\ Cardinality(decisions[c] \union {d}) = Cardinality(decisions[c]) + 1
      /\ Cardinality(decisions[c]) \in Nat
  BY <1>1, <1>2, <1>3, NumberingExtends
<1>5. d.manifest # t.manifest
  <2>1. Stores(p)
    BY DEF LedgerInv, Knows
  <2> QED
    BY <1>1, <2>1 DEF Stores, DraftKnown, NewRelease, Committed, Storing
<1>6. pointer[c] = t
  <2>1. PointerKnown(p)
    BY DEF LedgerInv, Knows, Publishes
  <2> QED
    BY <1>1, <2>1 DEF PointerKnown
<1>7. \A a, b \in decisions'[c] : a.id = b.id => a = b
  BY <1>1 DEF LedgerInv, StoreOK, DigestsUnique
<1>8. \A a, b \in decisions'[c] : a.seq = b.seq => a = b
  BY <1>1 DEF LedgerInv, ChainInv, ChannelsChained, Chained
<1> QED
  BY <1>1, <1>3, <1>4, <1>5, <1>6, <1>7, <1>8

LEMMA NextNumber ==
    ASSUME LedgerInv, LedgerInv', NumberInv, [Next]_vars PROVE NumberInv'
<1>1. CASE UNCHANGED decisions
  BY <1>1 DEF NumberInv
<1>2. ASSUME NEW p \in Procs, LinkDecision(p) PROVE NumberInv'
  BY <1>2, LinkExtends DEF NumberInv
<1>3. ASSUME NEW p \in Procs, Step(p), ~LinkDecision(p) PROVE NumberInv'
  BY <1>1, <1>3, DecisionsChange
<1>4. ASSUME NEW p \in Procs, Start(p) \/ Fail(p) \/ Crash(p) PROVE NumberInv'
  BY <1>1, <1>4 DEF Start, Fail, Crash, storeVars
<1> QED
  BY <1>1, <1>2, <1>3, <1>4 DEF Next, Rebuild, ChangeArtifact, AllIdle, vars, storeVars

(* The same definitions over a set of decisions and a set of reviews.      *)
ManifestIn(D, id) == IF id = 0 THEN NoManifest ELSE (CHOOSE d \in D : d.id = id).manifest

ReceiptIn(R, d) == (CHOOSE r \in R : r.name = d.review).content

ReleaseIn(D, R, d) ==
    [manifest |-> d.manifest,
     reviewed |-> d.review # 0,
     base     |-> ManifestIn(D, IF d.review = 0 THEN d.pred ELSE ReceiptIn(R, d).pred)]

LEMMA ReleaseInStore ==
    ASSUME NEW c, NEW d
    PROVE  /\ ReleaseOf(c, d) = ReleaseIn(decisions[c], reviews, d)
           /\ ReleaseOf(c, d)' = ReleaseIn(decisions'[c], reviews', d)
<1>1. ReleaseOf(c, d) = ReleaseIn(decisions[c], reviews, d)
  BY DEF ReleaseOf, ReleaseIn, ManifestOf, ManifestIn, ReceiptOf, ReceiptIn
<1>2. ReleaseOf(c, d)' = ReleaseIn(decisions'[c], reviews', d)
  BY DEF ReleaseOf, ReleaseIn, ManifestOf, ManifestIn, ReceiptOf, ReceiptIn
<1> QED
  BY <1>1, <1>2

(* A reviewed release was compared with the decision it is put on, so that *)
(* the base of a release is the manifest of the decision before it.        *)
LEMMA ReviewsPredecessor ==
    ASSUME NEW D, NEW R, NEW d, \A r, s \in R : r.name = s.name => r = s,
           d.review # 0 => \E r \in R : r.name = d.review /\ r.content.pred = d.pred
    PROVE  ReleaseIn(D, R, d) = [manifest |-> d.manifest, reviewed |-> d.review # 0,
                                 base |-> ManifestIn(D, d.pred)]
<1>1. CASE d.review = 0
  BY <1>1 DEF ReleaseIn
<1>2. CASE d.review # 0
  <2>1. PICK r \in R : r.name = d.review /\ r.content.pred = d.pred
    BY <1>2
  <2>2. (CHOOSE s \in R : s.name = d.review) = r
    BY <2>1
  <2>3. ReceiptIn(R, d).pred = d.pred
    BY <2>1, <2>2 DEF ReceiptIn
  <2> QED
    BY <1>2, <2>3 DEF ReleaseIn
<1> QED
  BY <1>1, <1>2

(* The earlier releases stay what they were, and the new one is based on   *)
(* the manifest of the decision that was the last one.                     *)
LEMMA LinkHistory ==
    ASSUME LedgerInv, LedgerInv', NumberInv, NEW p \in Procs, LinkDecision(p),
           NEW c, c = job[p].channel, NEW d, d = mem[p].draft, NEW t, t = mem[p].terminal
    PROVE  /\ \A e \in decisions[c] : ReleaseOf(c, e)' = ReleaseOf(c, e)
           /\ ReleaseOf(c, d)' = [manifest |-> d.manifest, reviewed |-> d.review # 0,
                                  base |-> t.manifest]
           /\ \A n \in 1..Cardinality(decisions[c]) : DecisionAt(c, n)' = DecisionAt(c, n)
           /\ \A n \in 1..Cardinality(decisions[c]) : DecisionAt(c, n) \in decisions[c]
           /\ DecisionAt(c, d.seq)' = d
           /\ decisions[c] # {} => DecisionAt(c, Cardinality(decisions[c])) = t
<1> DEFINE D == decisions[c]
           N == Cardinality(D)
<1>1. /\ c \in Channels /\ d \in Decision /\ d \notin D /\ N \in Nat
      /\ decisions'[c] = D \union {d} /\ t.seq = N /\ d.seq = N + 1
      /\ Terminal(t, D) /\ d.pred = t.id
      /\ reviews' = reviews
  BY LinkExtends
<1>2. /\ \A a, b \in D \union {d} : a.id = b.id => a = b
      /\ \A a, b \in D \union {d} : a.seq = b.seq => a = b
  BY <1>1, LinkExtends
<1>3. D \in SUBSET Decision /\ Chained(D) /\ Numbered(D) /\ NamesUnique
  BY <1>1 DEF LedgerInv, ChainInv, TypeInv, TypeOK, ChannelsChained, StoreOK, NumberInv
<1>4. \A e \in D : Reviewed(c, e)
  BY <1>1 DEF LedgerInv, StoreOK, DecisionsStored
<1>5. Reviewed(c, d)
  <2>1. Reviewed(c, d)'
    BY <1>1 DEF LedgerInv, StoreOK, DecisionsStored
  <2> QED
    BY <1>1, <2>1 DEF Reviewed
<1>6. ASSUME NEW e \in D
      PROVE  ManifestIn(D, e.id) = e.manifest /\ ManifestIn(D \union {d}, e.id) = e.manifest
  <2>1. e.id # 0
    BY <1>3 DEF Decision
  <2>2. (CHOOSE b \in D : b.id = e.id) = e
    BY <1>2, Chosen
  <2>3. (CHOOSE b \in D \union {d} : b.id = e.id) = e
    BY <1>2, Chosen
  <2> QED
    BY <2>1, <2>2, <2>3 DEF ManifestIn
<1>7. ASSUME NEW e \in D PROVE ReleaseOf(c, e)' = ReleaseOf(c, e)
  <2>1. ManifestIn(D \union {d}, e.pred) = ManifestIn(D, e.pred)
    <3>1. e.pred = 0 \/ \E b \in D : e.pred = b.id
      BY <1>3 DEF Chained
    <3>2. CASE e.pred = 0
      BY <3>2 DEF ManifestIn
    <3>3. CASE \E b \in D : e.pred = b.id
      BY <1>6, <3>3
    <3> QED
      BY <3>1, <3>2, <3>3
  <2>2. /\ ReleaseIn(D, reviews, e) = [manifest |-> e.manifest, reviewed |-> e.review # 0,
                                       base |-> ManifestIn(D, e.pred)]
        /\ ReleaseIn(D \union {d}, reviews, e)
              = [manifest |-> e.manifest, reviewed |-> e.review # 0,
                 base |-> ManifestIn(D \union {d}, e.pred)]
    <3>1. \A a, b \in reviews : a.name = b.name => a = b
      BY <1>3 DEF NamesUnique
    <3>2. e.review # 0 => \E r \in reviews : r.name = e.review /\ r.content.pred = e.pred
      BY <1>4 DEF Reviewed
    <3> QED
      BY <3>1, <3>2, ReviewsPredecessor
  <2>3. ReleaseOf(c, e) = ReleaseIn(D, reviews, e)
    BY ReleaseInStore
  <2>4. ReleaseOf(c, e)' = ReleaseIn(decisions'[c], reviews', e)
    BY ReleaseInStore
  <2> HIDE DEF D
  <2> QED
    BY <1>1, <2>1, <2>2, <2>3, <2>4
<1>8. ReleaseOf(c, d)' = [manifest |-> d.manifest, reviewed |-> d.review # 0,
                          base |-> t.manifest]
  <2>1. ReleaseIn(D \union {d}, reviews, d)
          = [manifest |-> d.manifest, reviewed |-> d.review # 0,
             base |-> ManifestIn(D \union {d}, d.pred)]
    <3>1. \A a, b \in reviews : a.name = b.name => a = b
      BY <1>3 DEF NamesUnique
    <3>2. d.review # 0 => \E r \in reviews : r.name = d.review /\ r.content.pred = d.pred
      BY <1>5 DEF Reviewed
    <3>3. \A E : ReleaseIn(E, reviews, d) = [manifest |-> d.manifest, reviewed |-> d.review # 0,
                                            base |-> ManifestIn(E, d.pred)]
      BY <3>1, <3>2, ReviewsPredecessor
    <3> QED
      BY <3>3
  <2>2. ManifestIn(D \union {d}, t.id) = t.manifest
    <3>1. CASE t \in D
      BY <1>6, <3>1
    <3>2. CASE t = Genesis
      BY <3>2 DEF ManifestIn, Genesis
    <3> QED
      BY <1>1, <3>1, <3>2 DEF Terminal
  <2>3. ReleaseOf(c, d)' = ReleaseIn(decisions'[c], reviews', d)
    BY ReleaseInStore
  <2> HIDE DEF D
  <2> QED
    BY <1>1, <2>1, <2>2, <2>3
<1>9. ASSUME NEW n \in 1..N PROVE DecisionAt(c, n)' = DecisionAt(c, n) /\ DecisionAt(c, n) \in D
  <2>1. PICK e \in D : e.seq = n
    BY <1>3 DEF Numbered
  <2>2. (CHOOSE b \in D : b.seq = e.seq) = e
    BY <1>2, Chosen
  <2>3. (CHOOSE b \in D \union {d} : b.seq = e.seq) = e
    BY <1>2, Chosen
  <2>4. DecisionAt(c, n) = e
    BY <2>1, <2>2 DEF DecisionAt
  <2>5. DecisionAt(c, n)' = e
    BY <1>1, <2>1, <2>3 DEF DecisionAt
  <2> QED
    BY <2>4, <2>5
<1>10. DecisionAt(c, d.seq)' = d
  <2>1. (CHOOSE b \in D \union {d} : b.seq = d.seq) = d
    BY <1>2, Chosen
  <2> QED
    BY <1>1, <2>1 DEF DecisionAt
<1>11. D # {} => DecisionAt(c, N) = t
  <2> SUFFICES ASSUME D # {} PROVE DecisionAt(c, N) = t
    OBVIOUS
  <2>1. t \in D
    BY <1>1 DEF Terminal
  <2>2. (CHOOSE b \in D : b.seq = t.seq) = t
    BY <1>2, <2>1, Chosen
  <2> QED
    BY <1>1, <2>2 DEF DecisionAt
<1> QED
  BY <1>7, <1>8, <1>9, <1>10, <1>11

(* os.link of a decision is a Record of the history.                       *)
LEMMA LinkRecords ==
    ASSUME LedgerInv, LedgerInv', NumberInv, NEW p \in Procs, LinkDecision(p)
    PROVE  \E c \in Channels : \E release \in Accepted!Release : Accepted!Record(c, release)
<1>1. PICK c \in Channels : c = job[p].channel
  BY LinkDecisionFacts
<1>2. PICK d \in Decision : d = mem[p].draft
  BY LinkDecisionFacts
<1>3. PICK t \in Decision \union {Genesis} : t = mem[p].terminal
  BY LinkDecisionFacts
<1>4. PICK n \in Nat : n = Cardinality(decisions[c])
  BY <1>1, <1>2, <1>3, LinkExtends
<1> DEFINE release == [manifest |-> d.manifest, reviewed |-> d.review # 0, base |-> t.manifest]
           h == [b \in Channels |->
                    [i \in 1..Cardinality(decisions[b]) |-> ReleaseOf(b, DecisionAt(b, i))]]
<1>5. /\ decisions'[c] = decisions[c] \union {d} /\ Cardinality(decisions'[c]) = n + 1
      /\ t.seq = n /\ d.seq = n + 1 /\ d.manifest # t.manifest /\ pointer[c] = t
      /\ Terminal(t, decisions[c]) /\ pointer' = pointer
  BY <1>1, <1>2, <1>3, <1>4, LinkExtends
<1>6. \A b \in Channels \ {c} : decisions'[b] = decisions[b] /\ reviews' = reviews
  BY <1>1, <1>2, <1>3, LinkExtends
<1>7. /\ \A e \in decisions[c] : ReleaseOf(c, e)' = ReleaseOf(c, e)
      /\ ReleaseOf(c, d)' = release
      /\ \A i \in 1..n : DecisionAt(c, i)' = DecisionAt(c, i) /\ DecisionAt(c, i) \in decisions[c]
      /\ DecisionAt(c, n + 1)' = d
      /\ decisions[c] # {} => DecisionAt(c, n) = t
  BY <1>1, <1>2, <1>3, <1>4, <1>5, LinkHistory
<1> HIDE DEF h
<1>8. release \in Accepted!Release
  <2>1. t.manifest \in Manifests \union {NoManifest} /\ d.manifest \in Manifests
    BY DEF Decision, Genesis
  <2> QED
    BY <2>1 DEF Accepted!Release
<1>9. /\ h[c] = [i \in 1..n |-> ReleaseOf(c, DecisionAt(c, i))]
      /\ h'[c] = [i \in 1..(n + 1) |-> ReleaseOf(c, DecisionAt(c, i))']
  BY <1>4, <1>5 DEF h
<1>10. \A i \in 1..n : h'[c][i] = h[c][i]
  <2> SUFFICES ASSUME NEW i \in 1..n PROVE h'[c][i] = h[c][i]
    OBVIOUS
  <2>1. i \in 1..(n + 1)
    OBVIOUS
  <2>2. h[c][i] = ReleaseOf(c, DecisionAt(c, i)) /\ h'[c][i] = ReleaseOf(c, DecisionAt(c, i))'
    BY <1>9, <2>1
  <2> QED
    BY <1>7, <2>2
<1>11. h'[c][n + 1] = release
  <2>1. h'[c][n + 1] = ReleaseOf(c, DecisionAt(c, n + 1))'
    BY <1>9
  <2> QED
    BY <1>7, <2>1
<1>12. Len(h[c]) = n /\ h'[c] = Append(h[c], release) /\ (h[c] = <<>> <=> n = 0)
  <2> DEFINE S == {ReleaseOf(c, DecisionAt(c, i)) : i \in 1..n} \union {release}
  <2>1. h[c] \in [1..n -> S] /\ release \in S
    BY <1>9
  <2>2. \A i \in 1..(n + 1) : i = n + 1 \/ i \in 1..n
    OBVIOUS
  <2>3. \A i \in 1..(n + 1) : h'[c][i] \in S
    BY <1>10, <1>11, <2>1, <2>2
  <2>4. h'[c] \in [1..(n + 1) -> S]
    BY <1>9, <2>3
  <2> HIDE DEF S, release
  <2> QED
    BY <1>10, <1>11, <2>1, <2>4, Appended
<1>13. \A b \in Channels \ {c} : h'[b] = h[b]
  <2> SUFFICES ASSUME NEW b \in Channels \ {c} PROVE h'[b] = h[b]
    OBVIOUS
  <2>1. decisions'[b] = decisions[b] /\ reviews' = reviews
    BY <1>6
  <2>2. \A e : ReleaseOf(b, e)' = ReleaseOf(b, e)
    BY <2>1, ReleaseInStore
  <2>3. \A i : DecisionAt(b, i)' = DecisionAt(b, i)
    BY <2>1 DEF DecisionAt
  <2>4. \A i : ReleaseOf(b, DecisionAt(b, i))' = ReleaseOf(b, DecisionAt(b, i))
    BY <2>2, <2>3
  <2> QED
    BY <2>1, <2>4 DEF h
<1>14. h' = [h EXCEPT ![c] = Append(@, release)]
  <2>1. h = [b \in Channels |-> h[b]] /\ h' = [b \in Channels |-> h'[b]]
    BY DEF h
  <2> HIDE DEF release
  <2> QED
    BY <1>12, <1>13, <2>1
<1>15. release.base = Accepted!Top(c) /\ release.manifest # Accepted!Top(c)
  <2>1. Accepted!Top(c) = IF h[c] = <<>> THEN NoManifest ELSE h[c][Len(h[c])].manifest
    BY DEF Accepted!Top, h
  <2>2. CASE n = 0
    <3>1. t = Genesis
      BY <1>5, <2>2 DEF Terminal, Decision
    <3> QED
      BY <1>5, <1>12, <2>1, <2>2, <3>1 DEF Genesis
  <2>3. CASE n # 0
    <3>1. DecisionAt(c, n) = t
      BY <1>5, <1>7, <2>3 DEF Terminal, Genesis
    <3>2. h[c][n] = ReleaseOf(c, t)
      BY <1>9, <2>3, <3>1
    <3>3. ReleaseOf(c, t).manifest = t.manifest
      BY DEF ReleaseOf
    <3> QED
      BY <1>5, <1>12, <2>1, <2>3, <3>2, <3>3
  <2> QED
    BY <2>2, <2>3
<1>16. [b \in Channels |-> pointer[b].seq][c] = Len(h[c])
  BY <1>5, <1>12
<1>17. Accepted!Record(c, release)
  <2> HIDE DEF release
  <2> QED
    BY <1>5, <1>14, <1>15, <1>16 DEF Accepted!Record, h
<1> QED
  <2> HIDE DEF release
  <2> QED
    BY <1>8, <1>17

(* os.replace of current.json is a Publish.                                *)
LEMMA ReplacePublishes ==
    ASSUME LedgerInv, NumberInv, NEW p \in Procs, ReplacePointer(p)
    PROVE  \E c \in Channels : Accepted!Publish(c)
<1>1. /\ TypeOK /\ LocalsSet(p) /\ LinkedDraft(p) /\ PointerKnown(p) /\ pc[p] = "replace"
      /\ pointer' = [pointer EXCEPT ![job[p].channel] = mem[p].draft]
      /\ UNCHANGED <<decisions, reviews>>
  BY DEF LedgerInv, ChainInv, TypeInv, Knows, Publishes, ReplacePointer, At
<1>2. PICK c \in Channels : c = job[p].channel
  BY <1>1 DEF LocalsSet, Job
<1> DEFINE D == decisions[c]
           d == mem[p].draft
           t == mem[p].terminal
           h == [b \in Channels |->
                    [i \in 1..Cardinality(decisions[b]) |-> ReleaseOf(b, DecisionAt(b, i))]]
           f == [b \in Channels |-> pointer[b].seq]
<1>3. d \in Decision
  BY <1>1, <1>2 DEF TypeOK, LinkedDraft, Linked
<1>4. Terminal(d, D) /\ d.seq = t.seq + 1 /\ pointer[c] = t
  BY <1>1, <1>2 DEF LinkedDraft, PointerKnown, Linked
<1>5. D \in SUBSET Decision /\ Numbered(D)
  BY <1>1, <1>2 DEF TypeOK, NumberInv
<1>6. d.seq = Cardinality(D) /\ Cardinality(D) \in Nat
  BY <1>3, <1>4, <1>5, TerminalNumber
<1>7. t.seq < Cardinality(D)
  <2>1. t.seq \in Nat
    BY <1>1, <1>2, <1>4 DEF TypeOK, Decision, Genesis
  <2> QED
    BY <1>4, <1>6, <2>1
<1>8. Len(h[c]) = Cardinality(D)
  BY <1>2, <1>6
<1>9. h' = h
  BY <1>1 DEF ReleaseOf, DecisionAt, ManifestOf, ReceiptOf
<1>10. f' = [f EXCEPT ![c] = Len(h[c])]
  <2>1. \A b \in Channels : pointer'[b] = IF b = c THEN d ELSE pointer[b]
    BY <1>1, <1>2 DEF TypeOK
  <2> QED
    BY <1>6, <1>8, <2>1
<1>11. Accepted!Publish(c)
  BY <1>2, <1>4, <1>7, <1>8, <1>9, <1>10 DEF Accepted!Publish
<1> QED
  BY <1>2, <1>11

(* What leaves the decisions and the pointers alone stutters: storing one  *)
(* more review changes no earlier release.                                 *)
LEMMA SameDecisions ==
    ASSUME LedgerInv, LedgerInv', NumberInv, UNCHANGED <<decisions, pointer>>
    PROVE  UNCHANGED Accepted!vars
<1> DEFINE h == [b \in Channels |->
                    [i \in 1..Cardinality(decisions[b]) |-> ReleaseOf(b, DecisionAt(b, i))]]
<1> SUFFICES h' = h
  BY DEF Accepted!vars
<1>1. ASSUME NEW c \in Channels, NEW i \in 1..Cardinality(decisions[c])
      PROVE  ReleaseOf(c, DecisionAt(c, i))' = ReleaseOf(c, DecisionAt(c, i))
  <2>1. PICK e \in decisions[c] : e = DecisionAt(c, i)
    BY <1>1 DEF DecisionAt, NumberInv, Numbered
  <2>2. ReleaseIn(decisions[c], reviews, e)
          = [manifest |-> e.manifest, reviewed |-> e.review # 0,
             base |-> ManifestIn(decisions[c], e.pred)]
    <3>1. NamesUnique /\ Reviewed(c, e)
      BY DEF LedgerInv, StoreOK, DecisionsStored
    <3> QED
      BY <3>1, ReviewsPredecessor DEF NamesUnique, Reviewed
  <2>3. ReleaseIn(decisions[c], reviews', e)
          = [manifest |-> e.manifest, reviewed |-> e.review # 0,
             base |-> ManifestIn(decisions[c], e.pred)]
    <3>1. NamesUnique' /\ Reviewed(c, e)'
      BY DEF LedgerInv, StoreOK, DecisionsStored
    <3> QED
      BY <3>1, ReviewsPredecessor DEF NamesUnique, Reviewed
  <2>4. DecisionAt(c, i)' = e
    BY <2>1 DEF DecisionAt
  <2>5. ReleaseOf(c, e) = ReleaseIn(decisions[c], reviews, e)
    BY ReleaseInStore
  <2>6. ReleaseOf(c, e)' = ReleaseIn(decisions'[c], reviews', e)
    BY ReleaseInStore
  <2> QED
    BY <2>1, <2>2, <2>3, <2>4, <2>5, <2>6
<1>2. QED BY <1>1

LEMMA HistorySteps ==
    ASSUME LedgerInv, LedgerInv', NumberInv, [Next]_vars PROVE [Accepted!Next]_(Accepted!vars)
<1>1. ASSUME NEW p \in Procs, LinkDecision(p) PROVE Accepted!Next
  BY <1>1, LinkRecords DEF Accepted!Next
<1>2. ASSUME NEW p \in Procs, ReplacePointer(p) PROVE Accepted!Next
  BY <1>2, ReplacePublishes DEF Accepted!Next
<1>3. ASSUME NEW p \in Procs, Step(p), ~LinkDecision(p), ~ReplacePointer(p)
      PROVE  UNCHANGED Accepted!vars
  BY <1>3, DecisionsChange, PointersChange, SameDecisions
<1>4. ASSUME NEW p \in Procs, Start(p) \/ Fail(p) \/ Crash(p)
      PROVE  UNCHANGED Accepted!vars
  BY <1>4, SameDecisions DEF Start, Fail, Crash, storeVars
<1>5. CASE Rebuild \/ ChangeArtifact \/ UNCHANGED vars
  BY <1>5, SameDecisions DEF Rebuild, ChangeArtifact, storeVars, vars
<1> QED
  BY <1>1, <1>2, <1>3, <1>4, <1>5 DEF Next, AllIdle

LEMMA InitialHistory == Init => NumberInv /\ Accepted!Init
<1> SUFFICES ASSUME Init PROVE NumberInv /\ Accepted!Init
  OBVIOUS
<1>1. \A c \in Channels : decisions[c] = {} /\ pointer[c].seq = 0
  BY DEF Init, Genesis
<1>2. NumberInv
  BY <1>1, EmptyNumbered DEF NumberInv
<1>3. [c \in Channels |-> [n \in 1..Cardinality(decisions[c]) |-> ReleaseOf(c, DecisionAt(c, n))]]
        = [c \in Channels |-> <<>>]
  <2> SUFFICES ASSUME NEW c \in Channels
               PROVE  [n \in 1..Cardinality(decisions[c]) |-> ReleaseOf(c, DecisionAt(c, n))] = <<>>
    OBVIOUS
  <2>1. Cardinality(decisions[c]) = 0
    BY <1>1, FS_EmptySet
  <2> QED
    BY <2>1
<1>4. [c \in Channels |-> pointer[c].seq] = [c \in Channels |-> 0]
  BY <1>1
<1> QED
  BY <1>2, <1>3, <1>4 DEF Accepted!Init

(* The store implements the history of accepted releases: with any number  *)
(* of commands, errors, kills and edits of the candidates, a release is    *)
(* appended only on top of the published one, and a reviewed release only  *)
(* on the very manifest its reviewer compared it with.                     *)
THEOREM StoreImplementsHistory == Spec => AcceptedSpec
<1>1. Init => LedgerInv
  BY InitialKnowledge
<1> QED
  BY <1>1, LedgerInvariant, NextNumber, InitialHistory, HistorySteps, PTL
     DEF Spec, AcceptedSpec, Accepted!Spec

=============================================================================
