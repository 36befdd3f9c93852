------------------------ MODULE ArtifactCacheProofs ------------------------
(***************************************************************************)
(* The cache implements its contract and has one creator per entry, for    *)
(* any number of builds, keys, values, faults and removals.                *)
(***************************************************************************)
EXTENDS ArtifactCache, TLAPS

(* What a build that is at work has in its locals, and what an entry that  *)
(* was not damaged holds.                                                  *)
LocalsOf(p) ==
    /\ pc[p] # "idle" => call[p] \in Call
    /\ pc[p] = "hash" => call[p].read \in Values
    /\ pc[p] \in {"describe", "rename"} => call[p].staged \in Values
    /\ pc[p] = "rename" => call[p].described = call[p].staged

EntriesWhole ==
    \A k \in Keys : entries[k].outputs \in Values => entries[k].manifest = entries[k].outputs

CacheInv == TypeOK /\ (\A p \in Clients : LocalsOf(p)) /\ EntriesWhole

(* As long as the owner removes nothing, who claims an entry has put it    *)
(* there, and it has remained.                                             *)
ClaimsFound ==
    damage = 0 => \A p \in Clients, k \in Keys : Claims(p, k) => entries[k] \notin {Absent, Empty}

Labels == {"idle", "lookup", "manifest", "hash", "stage", "describe", "rename", "exists"}

-----------------------------------------------------------------------------
(* The inductive invariant.                                                *)

LEMMA InitInv == Init => CacheInv /\ ClaimsFound /\ OneCreator
BY CacheAssumption
   DEF Init, CacheInv, TypeOK, LocalsOf, EntriesWhole, ClaimsFound, OneCreator, Claims,
       Absent, Entry, Answer, Valued, NoCall

(* A step of p changes p's position and locals alone.                      *)
Others(p) == \A q \in Clients \ {p} : pc'[q] = pc[q] /\ call'[q] = call[q]

LEMMA LocalsKept ==
    ASSUME \A q \in Clients : LocalsOf(q), NEW p \in Clients, Others(p), LocalsOf(p)'
    PROVE  \A q \in Clients : LocalsOf(q)'
<1>1. ASSUME NEW q \in Clients PROVE LocalsOf(q)'
  <2>1. CASE q = p BY <2>1
  <2>2. CASE q # p BY <2>2 DEF Others, LocalsOf
  <2>3. QED BY <2>1, <2>2
<1>2. QED BY <1>1

(* What returning does.                                                    *)
LEMMA ReturnFacts ==
    ASSUME CacheInv, NEW p \in Clients, NEW a \in Answer, Return(p, a),
           faults' \in 0..MaxFaults
    PROVE  CacheInv' /\ answer' = [answer EXCEPT ![p] = a] /\ entries' = entries
<1>1. TypeOK' BY DEF CacheInv, TypeOK, Return
<1>2. Others(p) /\ LocalsOf(p)' BY DEF CacheInv, TypeOK, Return, Others, LocalsOf
<1>3. EntriesWhole' BY DEF CacheInv, EntriesWhole, Return
<1>4. QED BY <1>1, <1>2, <1>3, LocalsKept DEF CacheInv, Return

LEMMA GotoFacts ==
    ASSUME CacheInv, NEW p \in Clients, NEW label \in Labels, Goto(p, label),
           NEW c \in Call, call' = [call EXCEPT ![p] = c],
           label = "hash" => c.read \in Values,
           label \in {"describe", "rename"} => c.staged \in Values,
           label = "rename" => c.described = c.staged,
           entries' = entries
    PROVE  CacheInv'
<1>1. TypeOK' BY DEF CacheInv, TypeOK, Goto, Labels
<1>2. Others(p) /\ LocalsOf(p)' BY DEF CacheInv, TypeOK, Goto, Others, LocalsOf, Labels
<1>3. EntriesWhole' BY DEF CacheInv, EntriesWhole
<1>4. QED BY <1>1, <1>2, <1>3, LocalsKept DEF CacheInv

(* The locals of a build at work, as the actions change them.              *)
LEMMA WorkFacts ==
    ASSUME CacheInv, NEW p \in Clients, pc[p] # "idle"
    PROVE  /\ call[p] \in Call /\ call[p].key \in Keys
           /\ EntryOf(p) \in Entry
           /\ call = [call EXCEPT ![p] = call[p]]
BY DEF CacheInv, TypeOK, LocalsOf, Call, EntryOf

LEMMA RaiseInv ==
    ASSUME CacheInv, NEW p \in Clients, NEW kind \in {"miss", "corrupt", "error"},
           Raise(p, kind)
    PROVE  CacheInv' /\ answer' = [answer EXCEPT ![p] = [kind |-> kind]] /\ entries' = entries
<1>1. [kind |-> kind] \in Answer BY DEF Answer
<1>2. faults' \in 0..MaxFaults BY DEF Raise, CacheInv, TypeOK
<1>3. QED BY <1>1, <1>2, ReturnFacts DEF Raise

LEMMA ReplyInAnswer ==
    ASSUME CacheInv, NEW p \in Clients, pc[p] = "hash"
    PROVE  [kind |-> ReplyKind(call[p]), key |-> call[p].key, value |-> call[p].read] \in Answer
BY DEF CacheInv, LocalsOf, Call, Answer, Valued, ReplyKind

LEMMA VerifyOutputsInv ==
    ASSUME CacheInv, NEW p \in Clients, VerifyOutputs(p)
    PROVE  /\ CacheInv' /\ entries' = entries
           /\ answer' = [answer EXCEPT ![p] = [kind |-> ReplyKind(call[p]),
                                               key |-> call[p].key, value |-> call[p].read]]
<1>1. faults' \in 0..MaxFaults BY DEF VerifyOutputs, CacheInv, TypeOK
<1>2. QED BY <1>1, ReplyInAnswer, ReturnFacts DEF VerifyOutputs

LEMMA PublishInv == ASSUME CacheInv, NEW p \in Clients, Publish(p) PROVE CacheInv'
<1> DEFINE e == [dir |-> TRUE, manifest |-> call[p].described, outputs |-> call[p].staged]
<1>1. call[p] \in Call /\ call[p].staged \in Values /\ call[p].described = call[p].staged
  BY WorkFacts DEF Publish, CacheInv, LocalsOf
<1>2. e \in Entry BY <1>1 DEF Entry
<1>3. entries' = [entries EXCEPT ![call[p].key] = e] BY DEF Publish
<1>4. [call[p] EXCEPT !.created = TRUE] \in Call BY <1>1 DEF Call
<1>5. call' = [call EXCEPT ![p] = [call[p] EXCEPT !.created = TRUE]]
  BY DEF Publish
<1> HIDE DEF e
<1>6. TypeOK' BY <1>2, <1>3, <1>4, <1>5 DEF Publish, Goto, CacheInv, TypeOK
<1>7. Others(p) /\ LocalsOf(p)'
  BY <1>4, <1>5 DEF Publish, Goto, CacheInv, TypeOK, Others, LocalsOf
<1>8. EntriesWhole' BY <1>1, <1>3 DEF e, CacheInv, TypeOK, EntriesWhole
<1>9. QED BY <1>6, <1>7, <1>8, LocalsKept DEF CacheInv

(* Either step of the staging.                                             *)
LEMMA StagingFacts ==
    ASSUME CacheInv, NEW p \in Clients, CopyOutputs(p) \/ Describe(p)
    PROVE  /\ pc[p] # "idle"
           /\ \E c \in Call, label \in {"describe", "rename"} :
                /\ call' = [call EXCEPT ![p] = c] /\ Goto(p, label) /\ entries' = entries
                /\ c.staged \in Values /\ (label = "rename" => c.described = c.staged)
                /\ c.key = call[p].key /\ c.created = call[p].created
<1>1. pc[p] # "idle" /\ call[p] \in Call BY WorkFacts DEF CopyOutputs, Describe
<1>2. CASE CopyOutputs(p)
  <2>1. PICK v \in Values : call' = [call EXCEPT ![p].staged = v] BY <1>2 DEF CopyOutputs
  <2> DEFINE c == [call[p] EXCEPT !.staged = v]
  <2>2. /\ c \in Call /\ c.staged \in Values /\ c.key = call[p].key
        /\ c.created = call[p].created
    BY <1>1 DEF Call
  <2>3. call' = [call EXCEPT ![p] = c] BY <2>1
  <2> HIDE DEF c
  <2>4. Goto(p, "describe") /\ entries' = entries BY <1>2 DEF CopyOutputs
  <2>5. QED BY <1>1, <2>2, <2>3, <2>4
<1>3. CASE Describe(p)
  <2> DEFINE c == [call[p] EXCEPT !.described = call[p].staged]
  <2>1. call[p].staged \in Values BY <1>3 DEF Describe, CacheInv, LocalsOf
  <2>2. /\ c \in Call /\ c.staged \in Values /\ c.key = call[p].key
        /\ c.created = call[p].created /\ c.described = c.staged
    BY <1>1, <2>1 DEF Call
  <2>3. call' = [call EXCEPT ![p] = c] BY <1>3 DEF Describe
  <2> HIDE DEF c
  <2>4. Goto(p, "rename") /\ entries' = entries BY <1>3 DEF Describe
  <2>5. QED BY <1>1, <2>2, <2>3, <2>4
<1>4. QED BY <1>2, <1>3

LEMMA ChangeInv ==
    ASSUME CacheInv, NEW k \in Keys, NEW e \in Entry, Change(k, e),
           e.outputs \in Values => e.manifest = e.outputs
    PROVE  CacheInv'
<1>1. TypeOK' BY CacheAssumption DEF Change, CacheInv, TypeOK
<1>2. \A p \in Clients : LocalsOf(p)' BY DEF Change, CacheInv, LocalsOf
<1>3. EntriesWhole' BY DEF Change, CacheInv, TypeOK, EntriesWhole
<1>4. QED BY <1>1, <1>2, <1>3 DEF CacheInv

LEMMA RemoveInv == ASSUME CacheInv, NEW k \in Keys, Remove(k) PROVE CacheInv'
<1>1. Absent \in Entry /\ Empty \in Entry BY DEF Absent, Empty, Entry
<1>2. Absent.outputs \notin Values /\ Empty.outputs \notin Values
  BY CacheAssumption DEF Absent, Empty
<1>3. QED BY <1>1, <1>2, ChangeInv DEF Remove

LEMMA RotInv == ASSUME CacheInv, NEW k \in Keys, Rot(k) PROVE CacheInv'
<1> DEFINE e == [entries[k] EXCEPT !.outputs = Garbage]
<1>1. e \in Entry /\ e.outputs = Garbage BY DEF CacheInv, TypeOK, Entry
<1>2. Change(k, e) BY DEF Rot
<1> HIDE DEF e
<1>3. QED BY <1>1, <1>2, ChangeInv, CacheAssumption

LEMMA StepInv == CacheInv /\ [Next]_vars => CacheInv'
<1> SUFFICES ASSUME CacheInv, [Next]_vars PROVE CacheInv'
  OBVIOUS
<1>1. ASSUME NEW p \in Clients, Start(p) PROVE CacheInv'
  <2>1. PICK op \in {"load", "commit"}, k \in Keys :
          call' = [call EXCEPT ![p] = NewCall(op, k)]
    BY <1>1 DEF Start
  <2>2. NewCall(op, k) \in Call BY DEF Call, NewCall
  <2>3. TypeOK'
    <3>1. calls' \in 0..MaxCalls BY <1>1, CacheAssumption DEF Start, CacheInv, TypeOK
    <3>2. call' \in [Clients -> Call \union {NoCall}] BY <2>1, <2>2 DEF CacheInv, TypeOK
    <3>3. QED BY <1>1, <3>1, <3>2 DEF Start, CacheInv, TypeOK
  <2>4. Others(p) /\ LocalsOf(p)'
    BY <1>1, <2>1, <2>2 DEF Start, CacheInv, TypeOK, Others, LocalsOf
  <2>5. EntriesWhole' BY <1>1 DEF Start, CacheInv, EntriesWhole
  <2>6. QED BY <2>3, <2>4, <2>5, LocalsKept DEF CacheInv
<1>2. ASSUME NEW p \in Clients, FindEntry(p) PROVE CacheInv'
  <2>1. "manifest" \in Labels BY DEF Labels
  <2>2. QED BY <1>2, <2>1, WorkFacts, GotoFacts DEF FindEntry
<1>3. ASSUME NEW p \in Clients, FindNothing(p) PROVE CacheInv'
  BY <1>3, RaiseInv DEF FindNothing
<1>4. ASSUME NEW p \in Clients, StartStaging(p) PROVE CacheInv'
  <2>1. "stage" \in Labels BY DEF Labels
  <2>2. QED BY <1>4, <2>1, WorkFacts, GotoFacts DEF StartStaging
<1>5. ASSUME NEW p \in Clients, ReadManifest(p) PROVE CacheInv'
  <2> DEFINE c == [call[p] EXCEPT !.read = EntryOf(p).manifest]
  <2>1. call[p] \in Call /\ EntryOf(p) \in Entry BY <1>5, WorkFacts DEF ReadManifest
  <2>2. EntryOf(p).manifest \in Values BY <1>5, <2>1 DEF ReadManifest, Entry
  <2>3. c \in Call /\ c.read \in Values BY <2>1, <2>2 DEF Call
  <2>4. call' = [call EXCEPT ![p] = c] BY <1>5 DEF ReadManifest
  <2>5. "hash" \in Labels BY DEF Labels
  <2> HIDE DEF c
  <2>6. Goto(p, "hash") /\ entries' = entries BY <1>5 DEF ReadManifest
  <2>7. "hash" # "rename" OBVIOUS
  <2>8. QED BY <2>3, <2>4, <2>5, <2>6, <2>7, GotoFacts
<1>6. ASSUME NEW p \in Clients, MissManifest(p) PROVE CacheInv'
  BY <1>6, RaiseInv DEF MissManifest
<1>7. ASSUME NEW p \in Clients, VerifyOutputs(p) PROVE CacheInv'
  BY <1>7, VerifyOutputsInv
<1>8. ASSUME NEW p \in Clients, RejectOutputs(p) PROVE CacheInv'
  BY <1>8, RaiseInv DEF RejectOutputs
<1>9. ASSUME NEW p \in Clients, CopyOutputs(p) \/ Describe(p) PROVE CacheInv'
  <2>1. PICK c \in Call, label \in {"describe", "rename"} :
          /\ call' = [call EXCEPT ![p] = c] /\ Goto(p, label) /\ entries' = entries
          /\ c.staged \in Values /\ (label = "rename" => c.described = c.staged)
    BY <1>9, StagingFacts
  <2>2. label \in Labels /\ label # "hash" BY DEF Labels
  <2>3. QED BY <2>1, <2>2, GotoFacts
<1>10. ASSUME NEW p \in Clients, Publish(p) PROVE CacheInv'
  BY <1>10, PublishInv
<1>11. ASSUME NEW p \in Clients, LoseRace(p) PROVE CacheInv'
  <2>1. "exists" \in Labels BY DEF Labels
  <2>2. QED BY <1>11, <2>1, WorkFacts, GotoFacts DEF LoseRace
<1>12. ASSUME NEW p \in Clients, Discard(p) PROVE CacheInv'
  <2>1. "lookup" \in Labels BY DEF Labels
  <2>2. QED BY <1>12, <2>1, WorkFacts, GotoFacts DEF Discard
<1>13. ASSUME NEW p \in Clients, LoseEntry(p) PROVE CacheInv'
  BY <1>13, RaiseInv DEF LoseEntry
<1>14. ASSUME NEW p \in Clients, Stop(p) PROVE CacheInv'
  <2>1. [kind |-> "error"] \in Answer BY DEF Answer
  <2>2. faults' \in 0..MaxFaults BY <1>14, CacheAssumption DEF Stop, CacheInv, TypeOK
  <2>3. QED BY <1>14, <2>1, <2>2, ReturnFacts DEF Stop
<1>15. ASSUME NEW k \in Keys, Remove(k) \/ Rot(k) PROVE CacheInv'
  BY <1>15, RemoveInv, RotInv
<1>16. CASE UNCHANGED vars
  BY <1>16 DEF vars, CacheInv, TypeOK, LocalsOf, EntriesWhole
<1>17. QED
  BY <1>1, <1>2, <1>3, <1>4, <1>5, <1>6, <1>7, <1>8, <1>9, <1>10, <1>11, <1>12, <1>13,
     <1>14, <1>15, <1>16 DEF Next, Step, Finished

(* Every variable keeps its type, for any number of builds and keys.       *)
THEOREM TypeCorrect == Spec => []TypeOK
<1>1. Init => CacheInv BY InitInv
<1>2. CacheInv => TypeOK BY DEF CacheInv
<1>3. QED BY <1>1, <1>2, StepInv, PTL DEF Spec

-----------------------------------------------------------------------------
(* One creator.                                                            *)

NoNewClaim == \A q \in Clients, k \in Keys : Claims(q, k)' => Claims(q, k)

LEMMA ClaimsKept ==
    ASSUME ClaimsFound, OneCreator, NoNewClaim, entries' = entries, damage' = damage
    PROVE  ClaimsFound' /\ OneCreator'
BY DEF ClaimsFound, OneCreator, NoNewClaim

(* A call that goes on, in any of its steps but the rename.                *)
LEMMA GotoClaims ==
    ASSUME CacheInv, NEW p \in Clients, pc[p] # "idle", NEW label \in Labels,
           Goto(p, label), label # "idle", NEW c \in Call, call' = [call EXCEPT ![p] = c],
           c.key = call[p].key, c.created = call[p].created
    PROVE  NoNewClaim
<1>1. ASSUME NEW q \in Clients, NEW k \in Keys, Claims(q, k)' PROVE Claims(q, k)
  <2>1. CASE q = p BY <1>1, <2>1 DEF Goto, Claims, CacheInv, TypeOK
  <2>2. CASE q # p BY <1>1, <2>2 DEF Goto, Claims, CacheInv, TypeOK
  <2>3. QED BY <2>1, <2>2
<1>2. QED BY <1>1 DEF NoNewClaim

(* Who returns claims an entry only if he claimed it before.               *)
LEMMA ReturnClaims ==
    ASSUME CacheInv, NEW p \in Clients, NEW a \in Answer, Return(p, a), pc[p] # "idle",
           a.kind = "created" => call[p].created /\ call[p].key = a.key
    PROVE  NoNewClaim
<1>1. ASSUME NEW q \in Clients, NEW k \in Keys, Claims(q, k)' PROVE Claims(q, k)
  <2>1. CASE q = p BY <1>1, <2>1 DEF Return, Claims, CacheInv, TypeOK
  <2>2. CASE q # p BY <1>1, <2>2 DEF Return, Claims, CacheInv, TypeOK
  <2>3. QED BY <2>1, <2>2
<1>2. QED BY <1>1 DEF NoNewClaim

LEMMA RaiseClaims ==
    ASSUME CacheInv, NEW p \in Clients, NEW kind \in {"miss", "corrupt", "error"},
           Return(p, [kind |-> kind]), pc[p] # "idle"
    PROVE  NoNewClaim
<1>1. [kind |-> kind] \in Answer BY DEF Answer
<1>2. [kind |-> kind].kind # "created" OBVIOUS
<1>3. QED BY <1>1, <1>2, ReturnClaims

LEMMA PublishClaims ==
    ASSUME CacheInv, ClaimsFound, OneCreator, NEW p \in Clients, Publish(p)
    PROVE  ClaimsFound' /\ OneCreator'
<1> DEFINE e == [dir |-> TRUE, manifest |-> call[p].described, outputs |-> call[p].staged]
           key == call[p].key
<1>1. key \in Keys /\ EntryOf(p) = entries[key] /\ call[p].staged \in Values
  BY WorkFacts DEF Publish, CacheInv, LocalsOf, EntryOf
<1>2. e \notin {Absent, Empty} BY <1>1, CacheAssumption DEF Absent, Empty
<1>3. entries' = [entries EXCEPT ![key] = e] /\ damage' = damage BY DEF Publish, Goto
<1>4. damage = 0 => \A q \in Clients : ~Claims(q, key)
  BY <1>1 DEF Publish, ClaimsFound
<1>5. \A q \in Clients, k \in Keys : Claims(q, k)' => Claims(q, k) \/ (q = p /\ k = key)
  <2>1. ASSUME NEW q \in Clients, NEW k \in Keys, Claims(q, k)', q # p PROVE Claims(q, k)
    BY <2>1 DEF Publish, Goto, Claims, CacheInv, TypeOK
  <2>2. ASSUME NEW k \in Keys, Claims(p, k)' PROVE k = key
    <3>1. call[p] \in Call BY WorkFacts DEF Publish
    <3>2. call'[p].key = key /\ pc'[p] # "idle"
      BY <3>1 DEF Publish, Goto, CacheInv, TypeOK, Call
    <3>3. QED BY <2>2, <3>2 DEF Claims
  <2>3. QED BY <2>1, <2>2
<1> HIDE DEF e, key
<1>6. \A k \in Keys : entries'[k] = IF k = key THEN e ELSE entries[k]
  BY <1>3 DEF CacheInv, TypeOK
<1>7. ClaimsFound' BY <1>2, <1>3, <1>5, <1>6 DEF ClaimsFound
<1>8. OneCreator' BY <1>3, <1>4, <1>5 DEF OneCreator
<1>9. QED BY <1>7, <1>8

LEMMA StepClaims == CacheInv /\ ClaimsFound /\ OneCreator /\ [Next]_vars
                      => ClaimsFound' /\ OneCreator'
<1> SUFFICES ASSUME CacheInv, ClaimsFound, OneCreator, [Next]_vars
             PROVE  ClaimsFound' /\ OneCreator'
  OBVIOUS
<1>1. ASSUME NEW p \in Clients, Start(p) PROVE ClaimsFound' /\ OneCreator'
  <2>1. PICK op \in {"load", "commit"}, key \in Keys :
          call' = [call EXCEPT ![p] = NewCall(op, key)]
    BY <1>1 DEF Start
  <2>2. ASSUME NEW q \in Clients, NEW k \in Keys, Claims(q, k)' PROVE Claims(q, k)
    <3>1. CASE q = p
      <4>1. pc'[p] = "lookup" /\ call'[p].created = FALSE
        BY <1>1, <2>1 DEF Start, NewCall, CacheInv, TypeOK
      <4>2. QED BY <2>2, <3>1, <4>1 DEF Claims
    <3>2. CASE q # p BY <1>1, <2>1, <2>2, <3>2 DEF Start, Claims, CacheInv, TypeOK
    <3>3. QED BY <3>1, <3>2
  <2>3. QED BY <1>1, <2>2, ClaimsKept DEF NoNewClaim, Start
<1>2. ASSUME NEW p \in Clients,
             \/ FindEntry(p) \/ StartStaging(p) \/ LoseRace(p) \/ Discard(p)
      PROVE  ClaimsFound' /\ OneCreator'
  <2>1. PICK label \in Labels \ {"idle"} : Goto(p, label)
    BY <1>2 DEF FindEntry, StartStaging, LoseRace, Discard, Labels
  <2>2. pc[p] # "idle" /\ UNCHANGED <<entries, call>>
    BY <1>2 DEF FindEntry, StartStaging, LoseRace, Discard
  <2>3. NoNewClaim BY <2>1, <2>2, WorkFacts, GotoClaims
  <2>4. QED BY <2>1, <2>2, <2>3, ClaimsKept DEF Goto
<1>3. ASSUME NEW p \in Clients, ReadManifest(p) PROVE ClaimsFound' /\ OneCreator'
  <2> DEFINE c == [call[p] EXCEPT !.read = EntryOf(p).manifest]
  <2>1. call[p] \in Call /\ EntryOf(p) \in Entry /\ pc[p] # "idle"
    BY <1>3, WorkFacts DEF ReadManifest
  <2>2. c \in Call /\ c.key = call[p].key /\ c.created = call[p].created
    BY <2>1 DEF Call, Entry
  <2>3. call' = [call EXCEPT ![p] = c] /\ Goto(p, "hash") /\ "hash" \in Labels
    BY <1>3 DEF ReadManifest, Labels
  <2> HIDE DEF c
  <2>4. NoNewClaim BY <2>1, <2>2, <2>3, GotoClaims
  <2>5. QED BY <1>3, <2>4, ClaimsKept DEF ReadManifest, Goto
<1>4. ASSUME NEW p \in Clients, CopyOutputs(p) \/ Describe(p)
      PROVE  ClaimsFound' /\ OneCreator'
  <2>1. PICK c \in Call, label \in {"describe", "rename"} :
          /\ call' = [call EXCEPT ![p] = c] /\ Goto(p, label) /\ entries' = entries
          /\ c.key = call[p].key /\ c.created = call[p].created
    BY <1>4, StagingFacts
  <2>2. label \in Labels /\ label # "idle" /\ pc[p] # "idle"
    BY <1>4, StagingFacts DEF Labels
  <2>3. NoNewClaim BY <2>1, <2>2, GotoClaims
  <2>4. QED BY <2>1, <2>3, ClaimsKept DEF Goto
<1>5. ASSUME NEW p \in Clients,
             \/ FindNothing(p) \/ MissManifest(p) \/ RejectOutputs(p) \/ LoseEntry(p)
             \/ Stop(p)
      PROVE  ClaimsFound' /\ OneCreator'
  <2>1. PICK kind \in {"miss", "corrupt", "error"} : Return(p, [kind |-> kind])
    BY <1>5 DEF FindNothing, MissManifest, RejectOutputs, LoseEntry, Stop, Raise
  <2>2. pc[p] # "idle"
    BY <1>5 DEF FindNothing, MissManifest, RejectOutputs, LoseEntry, Stop
  <2>3. QED BY <2>1, <2>2, RaiseClaims, ClaimsKept DEF Return
<1>6. ASSUME NEW p \in Clients, VerifyOutputs(p) PROVE ClaimsFound' /\ OneCreator'
  <2> DEFINE a == [kind |-> ReplyKind(call[p]), key |-> call[p].key, value |-> call[p].read]
  <2>1. a \in Answer /\ Return(p, a) /\ pc[p] # "idle"
    BY <1>6, ReplyInAnswer DEF VerifyOutputs
  <2>2. a.kind = "created" => call[p].created /\ call[p].key = a.key
    BY DEF ReplyKind
  <2> HIDE DEF a
  <2>3. NoNewClaim BY <2>1, <2>2, ReturnClaims
  <2>4. QED BY <2>1, <2>3, ClaimsKept DEF Return
<1>7. ASSUME NEW p \in Clients, Publish(p) PROVE ClaimsFound' /\ OneCreator'
  BY <1>7, PublishClaims
<1>8. ASSUME NEW k \in Keys, Remove(k) \/ Rot(k) PROVE ClaimsFound' /\ OneCreator'
  <2>1. damage' = damage + 1 BY <1>8 DEF Remove, Rot, Change
  <2>2. damage' # 0 BY <2>1, CacheAssumption DEF CacheInv, TypeOK
  <2>3. QED BY <2>2 DEF ClaimsFound, OneCreator
<1>9. CASE UNCHANGED vars
  BY <1>9 DEF vars, ClaimsFound, OneCreator, Claims
<1>10. QED
  BY <1>1, <1>2, <1>3, <1>4, <1>5, <1>6, <1>7, <1>8, <1>9 DEF Next, Step, Finished

(* commit tells one build alone that it created an entry, whatever the     *)
(* number of builds that race for it, unless the owner removes the entry.  *)
THEOREM OneCreatorHolds == Spec => []OneCreator
<1>1. Init => CacheInv /\ ClaimsFound /\ OneCreator BY InitInv
<1>2. CacheInv /\ ClaimsFound /\ OneCreator /\ [Next]_vars
        => (CacheInv /\ ClaimsFound /\ OneCreator)'
  BY StepInv, StepClaims
<1>3. QED BY <1>1, <1>2, PTL DEF Spec

-----------------------------------------------------------------------------
(* Whole entries.                                                          *)

LEMMA StepWhole == CacheInv /\ NoHalfEntry /\ [Next]_vars => NoHalfEntry'
<1> SUFFICES ASSUME CacheInv, NoHalfEntry, [Next]_vars PROVE NoHalfEntry'
  OBVIOUS
<1>1. ASSUME NEW p \in Clients, Publish(p) PROVE NoHalfEntry'
  <2> DEFINE e == [dir |-> TRUE, manifest |-> call[p].described, outputs |-> call[p].staged]
  <2>1. e.manifest \in Values /\ e.outputs = e.manifest
    BY <1>1 DEF Publish, CacheInv, LocalsOf
  <2>2. entries' = [entries EXCEPT ![call[p].key] = e] /\ damage' = damage
    BY <1>1 DEF Publish, Goto
  <2> HIDE DEF e
  <2>3. QED BY <2>1, <2>2 DEF NoHalfEntry, CacheInv, TypeOK
<1>2. ASSUME NEW p \in Clients, Start(p) \/ Stop(p) \/ (Step(p) /\ ~Publish(p))
      PROVE  NoHalfEntry'
  <2>1. UNCHANGED <<entries, damage>>
    BY <1>2 DEF Start, Stop, Step, FindEntry, FindNothing, StartStaging, ReadManifest,
       MissManifest, VerifyOutputs, RejectOutputs, CopyOutputs, Describe, LoseRace, Discard,
       LoseEntry, Raise, Return, Goto
  <2>2. QED BY <2>1 DEF NoHalfEntry
<1>3. ASSUME NEW k \in Keys, Remove(k) \/ Rot(k) PROVE NoHalfEntry'
  <2>1. damage' = damage + 1 BY <1>3 DEF Remove, Rot, Change
  <2>2. damage' # 0 BY <2>1, CacheAssumption DEF CacheInv, TypeOK
  <2>3. QED BY <2>2 DEF NoHalfEntry
<1>4. CASE UNCHANGED vars BY <1>4 DEF vars, NoHalfEntry
<1>5. QED BY <1>1, <1>2, <1>3, <1>4 DEF Next, Finished

(* However many commits race and wherever they are cut short, no load ever *)
(* finds outputs without the manifest that describes them, or the reverse, *)
(* but by the owner's hand.                                                *)
THEOREM EntriesAreWhole == Spec => []NoHalfEntry
<1>1. Init => CacheInv /\ NoHalfEntry
  <2>1. Init => NoHalfEntry BY DEF Init, NoHalfEntry, Absent
  <2>2. QED BY <2>1, InitInv
<1>2. CacheInv /\ NoHalfEntry /\ [Next]_vars => CacheInv' /\ NoHalfEntry'
  BY StepInv, StepWhole
<1>3. QED BY <1>1, <1>2, PTL DEF Spec

-----------------------------------------------------------------------------
(* Every step is a step of the contract, or none.                          *)

LEMMA InitRefines == Init => Contract!Init
BY DEF Init, Contract!Init, Absent

LEMMA Stutters ==
    ASSUME UNCHANGED <<entries, answer>> PROVE UNCHANGED Contract!vars
BY DEF Contract!vars

LEMMA ReturnRefines ==
    ASSUME NEW p \in Clients, NEW a \in Answer, Return(p, a),
           a.kind \in Valued => entries[a.key].manifest = a.value
    PROVE  Contract!Next
<1>1. a.kind \in Contract!Valued => a.key \in Keys
  BY DEF Answer, Valued, Contract!Valued
<1>2. Contract!Reply(p, a) BY <1>1 DEF Contract!Reply, Contract!Valued, Valued, Return
<1>3. a \in Contract!Answer BY DEF Answer, Valued, Contract!Answer, Contract!Valued
<1>4. QED BY <1>2, <1>3 DEF Contract!Next

LEMMA RaiseRefines ==
    ASSUME NEW p \in Clients, NEW kind \in {"miss", "corrupt", "error"},
           Return(p, [kind |-> kind])
    PROVE  Contract!Next
<1>1. [kind |-> kind] \in Answer /\ [kind |-> kind].kind \notin Valued BY DEF Answer, Valued
<1>2. QED BY <1>1, ReturnRefines

LEMMA ChangeRefines ==
    ASSUME CacheInv, NEW k \in Keys, NEW e, Change(k, e), e.manifest = NoValue
    PROVE  Contract!Next
<1>1. Contract!Clear(k) BY DEF Contract!Clear, Change, CacheInv, TypeOK
<1>2. QED BY <1>1 DEF Contract!Next

LEMMA StepRefines == CacheInv /\ [Next]_vars => [Contract!Next]_(Contract!vars)
<1> SUFFICES ASSUME CacheInv, [Next]_vars PROVE [Contract!Next]_(Contract!vars)
  OBVIOUS
<1>1. ASSUME NEW p \in Clients,
             \/ Start(p) \/ FindEntry(p) \/ StartStaging(p) \/ ReadManifest(p)
             \/ CopyOutputs(p) \/ Describe(p) \/ LoseRace(p) \/ Discard(p)
      PROVE  [Contract!Next]_(Contract!vars)
  <2>1. UNCHANGED <<entries, answer>>
    BY <1>1 DEF Start, FindEntry, StartStaging, ReadManifest, CopyOutputs, Describe,
       LoseRace, Discard, Goto
  <2>2. QED BY <2>1, Stutters
<1>2. ASSUME NEW p \in Clients,
             \/ FindNothing(p) \/ MissManifest(p) \/ RejectOutputs(p) \/ LoseEntry(p)
             \/ Stop(p)
      PROVE  [Contract!Next]_(Contract!vars)
  <2>1. PICK kind \in {"miss", "corrupt", "error"} : Return(p, [kind |-> kind])
    BY <1>2 DEF FindNothing, MissManifest, RejectOutputs, LoseEntry, Stop, Raise
  <2>2. QED BY <2>1, RaiseRefines
<1>3. ASSUME NEW p \in Clients, VerifyOutputs(p) PROVE [Contract!Next]_(Contract!vars)
  <2> DEFINE a == [kind |-> ReplyKind(call[p]), key |-> call[p].key, value |-> call[p].read]
  <2>1. a \in Answer /\ Return(p, a) BY <1>3, ReplyInAnswer DEF VerifyOutputs
  <2>2. call[p].read \in Values /\ call[p].key \in Keys
    BY <1>3, WorkFacts DEF VerifyOutputs, CacheInv, LocalsOf
  <2>3. entries[a.key].manifest = a.value
    BY <1>3, <2>2 DEF VerifyOutputs, CacheInv, EntriesWhole, EntryOf
  <2> HIDE DEF a
  <2>4. QED BY <2>1, <2>3, ReturnRefines
<1>4. ASSUME NEW p \in Clients, Publish(p) PROVE [Contract!Next]_(Contract!vars)
  <2>1. PICK v \in Values, key \in Keys :
          v = call[p].staged /\ v = call[p].described /\ key = call[p].key
    BY <1>4, WorkFacts DEF Publish, CacheInv, LocalsOf
  <2>2. [j \in Keys |-> entries[j].manifest][key] = NoValue
    BY <1>4, <2>1 DEF Publish, EntryOf, Absent, Empty
  <2>3. entries' = [entries EXCEPT ![key] = [dir |-> TRUE, manifest |-> v, outputs |-> v]]
    BY <1>4, <2>1 DEF Publish
  <2>4. \A j \in Keys : entries'[j].manifest = IF j = key THEN v ELSE entries[j].manifest
    BY <2>3 DEF CacheInv, TypeOK
  <2>5. [j \in Keys |-> entries[j].manifest]'
          = [[j \in Keys |-> entries[j].manifest] EXCEPT ![key] = v]
    BY <2>4
  <2>6. Contract!Put(key, v) BY <1>4, <2>2, <2>5 DEF Contract!Put, Publish, Goto
  <2>7. QED BY <2>6 DEF Contract!Next
<1>5. ASSUME NEW k \in Keys, Remove(k) PROVE [Contract!Next]_(Contract!vars)
  BY <1>5, ChangeRefines DEF Remove, Absent, Empty
<1>6. ASSUME NEW k \in Keys, Rot(k) PROVE [Contract!Next]_(Contract!vars)
  <2>1. \A j \in Keys : entries'[j].manifest = entries[j].manifest
    BY <1>6 DEF Rot, Change, CacheInv, TypeOK, Entry
  <2>2. answer' = answer BY <1>6 DEF Rot, Change
  <2>3. UNCHANGED Contract!vars BY <2>1, <2>2 DEF Contract!vars
  <2>4. QED BY <2>3
<1>7. CASE UNCHANGED vars
  BY <1>7, Stutters DEF vars
<1>8. QED
  BY <1>1, <1>2, <1>3, <1>4, <1>5, <1>6, <1>7 DEF Next, Step, Finished

(* The directory of entries implements a write-once store: builds that     *)
(* share it never get different values for a key between two removals.     *)
THEOREM CacheImplementsContract == Spec => ContractSpec
<1>1. Init => CacheInv BY InitInv
<1>2. QED BY <1>1, InitRefines, StepInv, StepRefines, PTL
   DEF Spec, ContractSpec, Contract!Spec

=============================================================================
