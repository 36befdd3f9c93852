--------------------------- MODULE CacheContract ---------------------------
(***************************************************************************)
(* What the artifact cache promises the builds that share it, with no      *)
(* directories, renames or digests: a key that has no value may be given   *)
(* one, a key that has one keeps it until the owner clears it, and every   *)
(* answer that carries a value carries the one the key has.                *)
(***************************************************************************)
CONSTANTS Clients, Keys, Values, NoValue

VARIABLES
    store,      \* the value of each key, NoValue when it has none
    answer      \* what the last call of each client returned

vars == <<store, answer>>

Valued == {"hit", "found", "created"}

(* hit, miss: load; found, created: commit; the others, an exception.      *)
Answer == [kind : Valued, key : Keys, value : Values]
          \union [kind : {"none", "miss", "corrupt", "error"}]

Init ==
    /\ store = [k \in Keys |-> NoValue]
    /\ answer = [p \in Clients |-> [kind |-> "none"]]

Put(k, v) ==
    /\ store[k] = NoValue
    /\ store' = [store EXCEPT ![k] = v]
    /\ UNCHANGED answer

Clear(k) ==
    /\ store' = [store EXCEPT ![k] = NoValue]
    /\ UNCHANGED answer

Reply(p, a) ==
    /\ a.kind \in Valued => store[a.key] = a.value
    /\ answer' = [answer EXCEPT ![p] = a]
    /\ UNCHANGED store

Next ==
    \/ \E k \in Keys, v \in Values : Put(k, v)
    \/ \E k \in Keys : Clear(k)
    \/ \E p \in Clients, a \in Answer : Reply(p, a)

Spec == Init /\ [][Next]_vars
=============================================================================
