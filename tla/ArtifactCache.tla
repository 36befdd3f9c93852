--------------------------- MODULE ArtifactCache ---------------------------
(***************************************************************************)
(* The content-verified artifact cache (cache.py): builds, each a process  *)
(* of its own, that load and commit entries of one directory with no lock. *)
(*                                                                         *)
(*   entries/<key>/manifest.json       the recorded digests and metadata   *)
(*   entries/<key>/outputs/            the bytes                           *)
(*   entries/.commit-*                 an entry under construction         *)
(*                                                                         *)
(* A value is what one adapter run leaves: its outputs with their digests  *)
(* and metadata.  Nothing ever reads a .commit- directory but the commit   *)
(* that made it, so an abandoned one is not kept in the state.             *)
(***************************************************************************)
EXTENDS Naturals

CONSTANTS
    Clients, Keys, Values,
    NoValue,        \* no file
    Garbage,        \* bytes that match no recorded digest
    MaxCalls,       \* bound: loads and commits started
    MaxFaults,      \* bound: errors, interrupts and kills
    MaxDamage       \* bound: what the owner does to entries

ASSUME CacheAssumption ==
    /\ NoValue \notin Values /\ Garbage \notin Values
    /\ {MaxCalls, MaxFaults, MaxDamage} \subseteq Nat

Valued == {"hit", "found", "created"}
Answer == [kind : Valued, key : Keys, value : Values]
          \union [kind : {"none", "miss", "corrupt", "error"}]

(* An entry: whether its directory is there, what its manifest records and *)
(* what its outputs are.                                                   *)
Entry == [dir : BOOLEAN, manifest : Values \union {NoValue},
          outputs : Values \union {NoValue, Garbage}]
Absent == [dir |-> FALSE, manifest |-> NoValue, outputs |-> NoValue]
Empty == [dir |-> TRUE, manifest |-> NoValue, outputs |-> NoValue]

(* A call: `staged' are the outputs copied to .commit-, `described' what   *)
(* the manifest written there says, `read' the manifest that load has read,*)
(* `created' the local variable of commit.                                 *)
Call == [op : {"load", "commit"}, key : Keys, staged : Values \union {NoValue},
         described : Values \union {NoValue}, read : Values \union {NoValue},
         created : BOOLEAN]
NoCall == [op |-> "none"]
NewCall(op, k) == [op |-> op, key |-> k, staged |-> NoValue, described |-> NoValue,
                   read |-> NoValue, created |-> FALSE]

VARIABLES entries, pc, call, answer, calls, faults, damage

vars == <<entries, pc, call, answer, calls, faults, damage>>

Init ==
    /\ entries = [k \in Keys |-> Absent]
    /\ pc = [p \in Clients |-> "idle"]
    /\ call = [p \in Clients |-> NoCall]
    /\ answer = [p \in Clients |-> [kind |-> "none"]]
    /\ calls = 0 /\ faults = 0 /\ damage = 0

EntryOf(p) == entries[call[p].key]

Goto(p, label) ==
    /\ pc' = [pc EXCEPT ![p] = label]
    /\ UNCHANGED <<answer, calls, faults, damage>>

Return(p, a) ==
    /\ pc' = [pc EXCEPT ![p] = "idle"]
    /\ call' = [call EXCEPT ![p] = NoCall]
    /\ answer' = [answer EXCEPT ![p] = a]
    /\ UNCHANGED <<entries, calls, damage>>

Raise(p, kind) == Return(p, [kind |-> kind]) /\ UNCHANGED faults

-----------------------------------------------------------------------------
(* load, also the first and the last thing commit does.                    *)

Start(p) ==
    /\ pc[p] = "idle" /\ calls < MaxCalls
    /\ \E op \in {"load", "commit"}, k \in Keys :
          call' = [call EXCEPT ![p] = NewCall(op, k)]
    /\ pc' = [pc EXCEPT ![p] = "lookup"]
    /\ calls' = calls + 1
    /\ UNCHANGED <<entries, answer, faults, damage>>

FindEntry(p) ==
    /\ pc[p] = "lookup" /\ EntryOf(p).dir
    /\ Goto(p, "manifest")
    /\ UNCHANGED <<entries, call>>

(* The last load of a commit must find what has been renamed.              *)
FindNothing(p) ==
    /\ pc[p] = "lookup" /\ ~EntryOf(p).dir
    /\ \/ call[p].op = "load" /\ Raise(p, "miss")
       \/ call[p].op = "commit" /\ call[p].staged # NoValue /\ Raise(p, "corrupt")

StartStaging(p) ==
    /\ pc[p] = "lookup" /\ ~EntryOf(p).dir
    /\ call[p].op = "commit" /\ call[p].staged = NoValue
    /\ Goto(p, "stage")
    /\ UNCHANGED <<entries, call>>

(* Mutant of ReadManifest: no manifest is read as an empty one.            *)
ReadManifestAny(p) ==
    /\ pc[p] = "manifest"
    /\ call' = [call EXCEPT ![p].read = EntryOf(p).manifest]
    /\ Goto(p, "hash")
    /\ UNCHANGED entries

ReadManifest(p) ==
    /\ pc[p] = "manifest" /\ EntryOf(p).manifest # NoValue
    /\ call' = [call EXCEPT ![p].read = EntryOf(p).manifest]
    /\ Goto(p, "hash")
    /\ UNCHANGED entries

MissManifest(p) ==
    /\ pc[p] = "manifest" /\ EntryOf(p).manifest = NoValue
    /\ Raise(p, "corrupt")

ReplyKind(c) == IF c.op = "load" THEN "hit" ELSE IF c.created THEN "created" ELSE "found"

VerifyOutputs(p) ==
    /\ pc[p] = "hash" /\ EntryOf(p).outputs = call[p].read
    /\ Return(p, [kind |-> ReplyKind(call[p]), key |-> call[p].key, value |-> call[p].read])
    /\ UNCHANGED faults

RejectOutputs(p) ==
    /\ pc[p] = "hash" /\ EntryOf(p).outputs # call[p].read
    /\ Raise(p, "corrupt")

-----------------------------------------------------------------------------
(* commit.                                                                 *)

(* Mutant of CopyOutputs: the entry is made where it is to be.             *)
CopyInPlace(p) ==
    /\ pc[p] = "stage"
    /\ \E v \in Values :
          /\ call' = [call EXCEPT ![p].staged = v]
          /\ entries' = [entries EXCEPT ![call[p].key].dir = TRUE,
                                        ![call[p].key].outputs = v]
    /\ Goto(p, "describe")

(* mkdtemp and the copies, with their digests.  Two runs of one node may   *)
(* leave different bytes.                                                  *)
CopyOutputs(p) ==
    /\ pc[p] = "stage"
    /\ \E v \in Values : call' = [call EXCEPT ![p].staged = v]
    /\ Goto(p, "describe")
    /\ UNCHANGED entries

(* The manifest of the copies, in the same directory.                      *)
Describe(p) ==
    /\ pc[p] = "describe"
    /\ call' = [call EXCEPT ![p].described = call[p].staged]
    /\ Goto(p, "rename")
    /\ UNCHANGED entries

(* Mutant of Publish: a rename that replaces what is there.                *)
PublishOver(p) ==
    /\ pc[p] = "rename"
    /\ entries' = [entries EXCEPT ![call[p].key] =
                      [dir |-> TRUE, manifest |-> call[p].described, outputs |-> call[p].staged]]
    /\ call' = [call EXCEPT ![p].created = TRUE]
    /\ Goto(p, "lookup")

(* rename(2) replaces no directory but an empty one.                       *)
Publish(p) ==
    /\ pc[p] = "rename" /\ EntryOf(p) \in {Absent, Empty}
    /\ entries' = [entries EXCEPT ![call[p].key] =
                      [dir |-> TRUE, manifest |-> call[p].described, outputs |-> call[p].staged]]
    /\ call' = [call EXCEPT ![p].created = TRUE]
    /\ Goto(p, "lookup")

LoseRace(p) ==
    /\ pc[p] = "rename" /\ EntryOf(p) \notin {Absent, Empty}
    /\ Goto(p, "exists")
    /\ UNCHANGED <<entries, call>>

(* Mutant of Discard: the loser says it created the entry.                 *)
DiscardAsCreated(p) ==
    /\ pc[p] = "exists" /\ EntryOf(p).dir
    /\ call' = [call EXCEPT ![p].created = TRUE]
    /\ Goto(p, "lookup")
    /\ UNCHANGED entries

(* The entry of the winner is authoritative.                               *)
Discard(p) ==
    /\ pc[p] = "exists" /\ EntryOf(p).dir
    /\ Goto(p, "lookup")
    /\ UNCHANGED <<entries, call>>

(* The OSError of the rename is raised again.                              *)
LoseEntry(p) ==
    /\ pc[p] = "exists" /\ ~EntryOf(p).dir
    /\ Raise(p, "error")

-----------------------------------------------------------------------------
(* An OSError, an interrupt or a kill at any step.                         *)
Stop(p) ==
    /\ pc[p] # "idle" /\ faults < MaxFaults
    /\ Return(p, [kind |-> "error"])
    /\ faults' = faults + 1

(* The owner removes an entry, empties it, or its bytes rot.               *)
Change(k, e) ==
    /\ damage < MaxDamage
    /\ entries[k].dir
    /\ entries' = [entries EXCEPT ![k] = e]
    /\ damage' = damage + 1
    /\ UNCHANGED <<pc, call, answer, calls, faults>>

Remove(k) == Change(k, Absent) \/ Change(k, Empty)

Rot(k) ==
    /\ entries[k].outputs \in Values
    /\ Change(k, [entries[k] EXCEPT !.outputs = Garbage])

Finished ==
    /\ \A p \in Clients : pc[p] = "idle"
    /\ UNCHANGED vars

Step(p) ==
    \/ FindEntry(p) \/ FindNothing(p) \/ StartStaging(p)
    \/ ReadManifest(p) \/ MissManifest(p) \/ VerifyOutputs(p) \/ RejectOutputs(p)
    \/ CopyOutputs(p) \/ Describe(p) \/ Publish(p)
    \/ LoseRace(p) \/ Discard(p) \/ LoseEntry(p)

Next ==
    \/ \E p \in Clients : Start(p) \/ Step(p) \/ Stop(p)
    \/ \E k \in Keys : Remove(k) \/ Rot(k)
    \/ Finished

Spec == Init /\ [][Next]_vars

-----------------------------------------------------------------------------
(* Every variable keeps its type.                                          *)
TypeOK ==
    /\ entries \in [Keys -> Entry]
    /\ pc \in [Clients -> {"idle", "lookup", "manifest", "hash", "stage",
                           "describe", "rename", "exists"}]
    /\ call \in [Clients -> Call \union {NoCall}]
    /\ answer \in [Clients -> Answer]
    /\ calls \in 0..MaxCalls /\ faults \in 0..MaxFaults /\ damage \in 0..MaxDamage

(* Whatever copies and descriptions were cut short, whatever commits raced,*)
(* what there is of a key is a whole entry, a manifest with the outputs it *)
(* describes, unless the owner has put his hand to one.                    *)
NoHalfEntry ==
    damage = 0 => \A k \in Keys :
        entries[k].dir => /\ entries[k].manifest \in Values
                          /\ entries[k].outputs = entries[k].manifest

Claims(p, k) ==
    \/ pc[p] # "idle" /\ call[p].key = k /\ call[p].created
    \/ pc[p] = "idle" /\ answer[p].kind = "created" /\ answer[p].key = k

(* Of the builds that race to commit a key one alone is told it created    *)
(* the entry, the others that theirs was discarded, unless the owner       *)
(* removed the entry in between.                                           *)
OneCreator ==
    damage = 0 => \A p, q \in Clients, k \in Keys :
                     Claims(p, k) /\ Claims(q, k) => p = q

(* The directory implements a write-once store: all builds, whoever won,   *)
(* get the same value for a key until its entry is removed.                *)
Contract == INSTANCE CacheContract WITH
    store <- [k \in Keys |-> entries[k].manifest]

ContractSpec == Contract!Spec
=============================================================================
