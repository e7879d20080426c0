---------------------------- MODULE PrefixStore ----------------------------
(***************************************************************************)
(* What a prompt cache promises, whatever its data structure: it keeps the *)
(* pool token computed for a prefix of some text, for a set of prefixes    *)
(* that is closed under shortening; a lookup finds the longest prefix kept *)
(* and pins it; a pinned prefix is not dropped.                            *)
(***************************************************************************)
EXTENDS Sequences, SequencesExt

CONSTANT Reader

VARIABLES
  text,     (* what each reader reads or writes; grows as it likes  *)
  stored,   (* prefix -> the pool token that holds its last entry   *)
  pinned    (* the prefix each reader has pinned                    *)

vars == <<text, stored, pinned>>

Unpinned == <<>>
PrefixesOf(s) == {SubSeq(s, 1, i) : i \in 1..Len(s)}

\* What is kept of a reader's text but for its last token, which is always computed.
Kept(r) == PrefixesOf(Front(text[r])) \cap DOMAIN stored

Init == stored = <<>> /\ pinned = [r \in Reader |-> Unpinned]

Grow ==
  /\ \A r \in Reader : IsPrefix(text[r], text'[r])
  /\ UNCHANGED <<stored, pinned>>

\* A reader pins the longest prefix of its text that is kept.
Pin(r) ==
  /\ pinned[r] = Unpinned
  /\ \E prefix \in Kept(r) :
        /\ \A other \in Kept(r) : Len(other) <= Len(prefix)
        /\ pinned' = [pinned EXCEPT ![r] = prefix]
  /\ UNCHANGED <<text, stored>>

\* A reader hands over its text, of which only the missing prefixes are added,
\* and gives up its pin.
Add(r) ==
  /\ DOMAIN stored' = DOMAIN stored \cup PrefixesOf(Front(text[r]))
  /\ \A prefix \in DOMAIN stored : stored'[prefix] = stored[prefix]
  /\ pinned' = [pinned EXCEPT ![r] = Unpinned]
  /\ UNCHANGED text

Unpin(r) == pinned' = [pinned EXCEPT ![r] = Unpinned] /\ UNCHANGED <<text, stored>>

\* Prefixes are dropped with everything that continues them, unless pinned.
Drop ==
  /\ DOMAIN stored' \subseteq DOMAIN stored
  /\ \A prefix \in DOMAIN stored' :
        stored'[prefix] = stored[prefix] /\ PrefixesOf(prefix) \subseteq DOMAIN stored'
  /\ \A r \in Reader : PrefixesOf(pinned[r]) \subseteq DOMAIN stored'
  /\ UNCHANGED <<text, pinned>>

Next == Grow \/ Drop \/ \E r \in Reader : Pin(r) \/ Add(r) \/ Unpin(r)

Spec == Init /\ [][Next]_vars
=============================================================================
