-------------------------- MODULE AcceptedHistory --------------------------
(***************************************************************************)
(* What the baseline store promises to a release workflow, with no files,  *)
(* locks or temporary names: every channel is an append-only list of       *)
(* accepted manifests and a current position.  A new release is appended   *)
(* only on top of a published one, and a reviewed release only on top of   *)
(* the very manifest its reviewer compared it with.                        *)
(***************************************************************************)
EXTENDS Naturals, Sequences

CONSTANTS Channels, Manifests, NoManifest

VARIABLES
    history,    \* history[c]: the releases accepted in channel c, oldest first
    current     \* current[c]: how many of them the channel's pointer covers

vars == <<history, current>>

Release == [manifest : Manifests,
            reviewed : BOOLEAN,
            base     : Manifests \union {NoManifest}]

(* The manifest a release of channel c accepted now would replace.         *)
Top(c) ==
    IF history[c] = <<>> THEN NoManifest
    ELSE history[c][Len(history[c])].manifest

Init ==
    /\ history = [c \in Channels |-> <<>>]
    /\ current = [c \in Channels |-> 0]

(* Compare-and-swap: the base of a release is the top it is put on.        *)
Record(c, release) ==
    /\ current[c] = Len(history[c])
    /\ release.base = Top(c)
    /\ release.manifest # Top(c)
    /\ history' = [history EXCEPT ![c] = Append(@, release)]
    /\ UNCHANGED current

Publish(c) ==
    /\ current[c] < Len(history[c])
    /\ current' = [current EXCEPT ![c] = Len(history[c])]
    /\ UNCHANGED history

Next == \E c \in Channels :
            \/ \E release \in Release : Record(c, release)
            \/ Publish(c)

Spec == Init /\ [][Next]_vars
=============================================================================
